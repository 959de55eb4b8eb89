-------------------------------- MODULE Async --------------------------------
(***************************************************************************)
(* Threads and CxPlatAsyncT (inc/cxplat.hpp) on every platform: Linux and  *)
(* other POSIX systems (src/lib/cxplat_posix.c), Windows user mode         *)
(* (inc/cxplat_winuser.h) and kernel mode (inc/cxplat_winkernel.h).        *)
(*                                                                         *)
(* One caller constructs CxPlatAsyncT objects, waits for them and destroys *)
(* them, while the threads it has created run.  CxPlatThreadCreate takes   *)
(* one step per call that can fail or that starts the thread, so that the  *)
(* thread may run to its end before its creation is over.  CxPlatAsyncT    *)
(* passes no flags; here they are free, as for any user of                 *)
(* CxPlatThreadCreate that waits for and deletes its threads in this way.  *)
(* Its IdealProcessor is 0, a processor there always is.                   *)
(***************************************************************************)
EXTENDS FiniteSets

CONSTANTS Asyncs,      \* the objects
          Builds       \* the builds of the library

Flags == {"SET_IDEAL_PROC", "SET_AFFINITIZE"}

\* platform, CXPLAT_USE_CUSTOM_THREAD_CONTEXT, DEBUG and CXPLAT_NUMA_AWARE
ASSUME BuildAssumption ==
    /\ Builds \subseteq [platform : {"linux", "posix", "winuser", "winkernel"},
                         custom : BOOLEAN, debug : BOOLEAN, numa : BOOLEAN]
    /\ \A b \in Builds : b.custom => b.platform \in {"linux", "winuser"}

VARIABLES
    build,            \* the build that runs
    stopped,          \* why the program was stopped, or "no"
    pc, self, op,     \* the caller: its step, the object and the call it is in
    errno, Status,    \* the caller's error number, and CxPlatThreadCreate's result
    flags,            \* Config->Flags
    life,             \* the memory of each object
    AsyncContext,     \* the objects whose AsyncContext has been set
    Initialized, ThreadCompleted,
    thr,              \* each thread's progress
    refs,             \* what keeps a thread's resources
    CustomContext     \* each thread's custom context

object == <<life, AsyncContext, Initialized, ThreadCompleted>>
thread == <<thr, refs, CustomContext>>
caller == <<pc, self, op, errno, Status, flags>>
vars == <<build, stopped, caller, object, thread>>

posix == build.platform \in {"linux", "posix"}

TypeOK ==
    /\ build \in Builds
    /\ stopped \in {"no", "assert", "null", "handle", "context", "free", "join"}
    /\ pc \in {"idle", "attr", "alloc", "spawn", "respawn", "reference", "processor",
               "affinity", "ideal", "name", "close", "created", "join", "waitfor", "delete"}
    /\ self \in Asyncs
    /\ op \in {"construct", "wait", "destroy"}
    /\ errno \in {"none", "error"} /\ Status \in {"none", "error"}
    /\ flags \subseteq Flags
    /\ life \in [Asyncs -> {"absent", "constructing", "alive", "destroyed"}]
    /\ AsyncContext \subseteq Asyncs
    /\ Initialized \in [Asyncs -> BOOLEAN] /\ ThreadCompleted \in [Asyncs -> BOOLEAN]
    /\ thr \in [Asyncs -> {"none", "started", "entered", "running", "returned", "exited"}]
    /\ refs \in [Asyncs -> SUBSET {"join", "handle", "object"}]
    /\ CustomContext \in [Asyncs -> {"none", "allocated", "freed"}]

Init ==
    /\ build \in Builds
    /\ stopped = "no"
    /\ pc = "idle" /\ self \in Asyncs /\ op = "construct"
    /\ errno \in {"none", "error"} /\ Status = "none"
    /\ flags = {}
    /\ life = [a \in Asyncs |-> "absent"]
    /\ AsyncContext = {}
    /\ Initialized = [a \in Asyncs |-> FALSE]
    /\ ThreadCompleted = [a \in Asyncs |-> FALSE]
    /\ thr = [a \in Asyncs |-> "none"]
    /\ refs = [a \in Asyncs |-> {}]
    /\ CustomContext = [a \in Asyncs |-> "none"]

-----------------------------------------------------------------------------
(* The caller is at one of these steps, a thread has come this far, and    *)
(* the program runs.  An assertion of a debug build, or undefined          *)
(* behaviour, stops it.                                                    *)

At(steps) == stopped = "no" /\ pc \in steps

On(a, steps) == stopped = "no" /\ thr[a] \in steps

Stop(why) ==
    /\ stopped' = why
    /\ UNCHANGED <<build, caller, object, thread>>

(* A CXPLAT_DBG_ASSERT that Status is a success, when it is not: a debug   *)
(* build stops, another one goes on at step next with the failure.         *)
FailAssert(next) ==
    IF build.debug
    THEN Stop("assert")
    ELSE /\ Status' = "error"
         /\ pc' = next
         /\ UNCHANGED <<build, stopped, self, op, errno, flags, object, thread>>

\* The caller goes on at step next, with the result s so far.
Goto(next, s) ==
    /\ Status' = s
    /\ pc' = next
    /\ UNCHANGED <<build, stopped, self, op, flags, object>>

-----------------------------------------------------------------------------
(* The construction of an object: the members before Initialized are set,  *)
(* then CxPlatThreadCreate runs, whose result is Initialized.              *)

\* Mutation: the members are initialized in another order, Initialized first.
ConstructLate(a, f) ==
    /\ At({"idle"}) /\ life[a] = "absent"
    /\ life' = [life EXCEPT ![a] = "constructing"]
    /\ pc' = IF posix THEN "attr" ELSE IF build.custom THEN "alloc" ELSE "spawn"
    /\ self' = a /\ op' = "construct" /\ flags' = f /\ Status' = "none"
    /\ UNCHANGED <<build, stopped, errno, AsyncContext, Initialized, ThreadCompleted, thread>>

Construct(a, f) ==
    /\ At({"idle"}) /\ life[a] = "absent"
    /\ life' = [life EXCEPT ![a] = "constructing"]
    /\ AsyncContext' = AsyncContext \cup {a}
    /\ pc' = IF posix THEN "attr" ELSE IF build.custom THEN "alloc" ELSE "spawn"
    /\ self' = a /\ op' = "construct" /\ flags' = f /\ Status' = "none"
    /\ UNCHANGED <<build, stopped, errno, Initialized, ThreadCompleted, thread>>

Created ==
    /\ At({"created"})
    /\ Initialized' = [Initialized EXCEPT ![self] = Status = "none"]
    /\ life' = [life EXCEPT ![self] = "alive"]
    /\ pc' = "idle"
    /\ UNCHANGED <<build, stopped, self, op, errno, Status, flags, AsyncContext, ThreadCompleted, thread>>

\* The system starts the thread and hands out a reference to it.
StartThread(ref) ==
    /\ thr' = [thr EXCEPT ![self] = "started"]
    /\ refs' = [refs EXCEPT ![self] = {ref}]
    /\ UNCHANGED <<errno, CustomContext>>

\* A pthread function fails: it returns the error and need not set errno.
PthreadError ==
    errno' \in {errno, "error"}

FreeCustomContext ==
    CustomContext' = [CustomContext EXCEPT ![self] = IF @ = "allocated" THEN "freed" ELSE @]

\* pthread_attr_init; the attributes set afterwards may be missed without notice.
Attr_init ==
    /\ At({"attr"})
    /\ \/ Goto(IF build.custom THEN "alloc" ELSE "spawn", "none") /\ UNCHANGED <<errno, thread>>
       \/ PthreadError /\ Goto("created", errno') /\ UNCHANGED thread

(* The custom context.  Linux notes a failed allocation and then writes    *)
(* through the null pointer; user mode returns.                            *)
Alloc_context ==
    /\ At({"alloc"})
    /\ \/ /\ CustomContext' = [CustomContext EXCEPT ![self] = "allocated"]
          /\ Goto("spawn", "none") /\ UNCHANGED <<errno, thr, refs>>
       \/ posix /\ Stop("null")
       \/ ~posix /\ Goto("created", "error") /\ UNCHANGED <<errno, thread>>

\* Mutation: the second attempt is followed by others.
RetryForever ==
    /\ At({"spawn", "respawn"}) /\ build.platform = "linux"
    /\ \/ StartThread("join") /\ Goto("affinity", "none")
       \/ /\ PthreadError /\ UNCHANGED thread
          /\ Goto(IF pc = "spawn" THEN "respawn" ELSE "spawn", "none")

\* Linux without custom context: a second attempt without the attributes.
Spawn_linux ==
    /\ At({"spawn", "respawn"}) /\ build.platform = "linux"
    /\ \/ StartThread("join") /\ Goto("affinity", "none")
       \/ /\ pc = "spawn" /\ ~build.custom
          /\ PthreadError /\ Goto("respawn", "none") /\ UNCHANGED thread
       \/ /\ pc = "respawn" \/ build.custom
          /\ PthreadError /\ FreeCustomContext
          /\ Goto("affinity", errno') /\ UNCHANGED <<thr, refs>>

(* The affinity of a thread that is said to have started, to its processor *)
(* or to the NUMA node of that, if the system has nodes; a failure is only *)
(* traced.                                                                 *)
Affinity_linux ==
    /\ At({"affinity"}) /\ build.platform = "linux"
    /\ \/ Goto("created", Status) /\ UNCHANGED <<errno, thread>>
       \/ /\ Status = "none" /\ ("SET_AFFINITIZE" \in flags \/ build.numa) /\ refs[self] = {}
          /\ Stop("handle")

Spawn_posix ==
    /\ At({"spawn"}) /\ build.platform = "posix"
    /\ \/ StartThread("join") /\ Goto("created", "none")
       \/ PthreadError /\ Goto("created", errno') /\ UNCHANGED thread

\* Mutation: a failure to set the affinity is returned.
AffinityFails ==
    /\ At({"spawn"}) /\ build.platform = "winuser"
    /\ \/ StartThread("handle") /\ \E s \in {"none", "error"} : Goto("created", s)
       \/ FreeCustomContext /\ Goto("created", "error") /\ UNCHANGED <<errno, thr, refs>>

(* User mode: affinity, priority and name follow, and their failures are   *)
(* ignored.  A debug build asserts first that there is such a processor.   *)
Spawn_winuser ==
    /\ At({"spawn"}) /\ build.platform = "winuser"
    /\ \/ StartThread("handle") /\ Goto("created", "none")
       \/ FreeCustomContext /\ Goto("created", "error") /\ UNCHANGED <<errno, thr, refs>>

(* Kernel mode: a thread that was started is not stopped by the failures   *)
(* that follow.                                                            *)
Spawn_winkernel ==
    /\ At({"spawn"}) /\ build.platform = "winkernel"
    /\ \/ StartThread("handle") /\ Goto("reference", "none")
       \/ FailAssert("created")

ObReferenceObjectByHandle ==
    /\ At({"reference"})
    /\ \/ /\ refs' = [refs EXCEPT ![self] = @ \cup {"object"}]
          /\ Goto("processor", "none") /\ UNCHANGED <<errno, thr, CustomContext>>
       \/ FailAssert("close")

KeGetProcessorNumberFromIndex ==
    /\ At({"processor"})
    /\ \E next \in {"affinity", "name"} : Goto(next, "none") /\ UNCHANGED <<errno, thread>>

\* The fixed processor, or the query and the mask of its NUMA node.
Affinity_winkernel ==
    /\ At({"affinity"}) /\ build.platform = "winkernel"
    /\ \/ Goto(IF "SET_IDEAL_PROC" \in flags THEN "ideal" ELSE "name", "none") /\ UNCHANGED <<errno, thread>>
       \/ FailAssert("close")

Ideal_winkernel ==
    /\ At({"ideal"})
    /\ \/ Goto("name", "none") /\ UNCHANGED <<errno, thread>>
       \/ FailAssert("close")

\* The name: a failure counts in debug builds only.
Name_winkernel ==
    /\ At({"name"})
    /\ \/ Goto("close", "none") /\ UNCHANGED <<errno, thread>>
       \/ build.debug /\ Stop("assert")

\* Mutation: the handle is closed on the way out of a failure only.
CloseOnFailure ==
    /\ At({"close"})
    /\ refs' = [refs EXCEPT ![self] = IF Status = "none" THEN @ ELSE @ \ {"handle"}]
    /\ Goto("created", Status) /\ UNCHANGED <<errno, thr, CustomContext>>

ZwClose ==
    /\ At({"close"})
    /\ refs' = [refs EXCEPT ![self] = @ \ {"handle"}]
    /\ Goto("created", Status) /\ UNCHANGED <<errno, thr, CustomContext>>

CxPlatThreadCreate ==
    \/ Attr_init \/ Alloc_context
    \/ Spawn_linux \/ Affinity_linux \/ Spawn_posix \/ Spawn_winuser
    \/ Spawn_winkernel \/ ObReferenceObjectByHandle \/ KeGetProcessorNumberFromIndex
    \/ Affinity_winkernel \/ Ideal_winkernel \/ Name_winkernel \/ ZwClose

-----------------------------------------------------------------------------
(* Waiting and destruction.  Wait does nothing unless Initialized.  *)

Call(a, o, next) ==
    /\ self' = a /\ op' = o /\ pc' = next
    /\ UNCHANGED <<build, stopped, errno, Status, flags, object, thread>>

Wait(a) ==
    /\ At({"idle"}) /\ life[a] = "alive" /\ Initialized[a]
    /\ Call(a, "wait", "join")

\* CxPlatThreadWaitForever has returned in Wait, or in the destructor.
Joined ==
    /\ ThreadCompleted' = [ThreadCompleted EXCEPT ![self] = @ \/ op = "wait"]
    /\ pc' = IF op = "wait" THEN "idle" ELSE "delete"
    /\ UNCHANGED <<build, stopped, self, op, errno, Status, flags, life, AsyncContext, Initialized, thr, CustomContext>>

\* pthread_join: the thread must exist and must not have been joined before.
Join_posix ==
    /\ At({"join"}) /\ posix
    /\ \/ /\ "join" \in refs[self] /\ thr[self] = "exited"
          /\ refs' = [refs EXCEPT ![self] = {}]
          /\ Joined
       \/ "join" \notin refs[self] /\ Stop("join")

Join_windows ==
    /\ At({"join"}) /\ ~posix
    /\ thr[self] = "exited"
    /\ Joined /\ UNCHANGED refs

WaitFor(a) ==
    /\ At({"idle"}) /\ life[a] = "alive" /\ Initialized[a] /\ ~posix
    /\ Call(a, "wait", "waitfor")

\* Mutation: every wait counts as a completion.
WaitForIgnoresTimeout ==
    /\ At({"waitfor"})
    /\ ThreadCompleted' = [ThreadCompleted EXCEPT ![self] = TRUE]
    /\ pc' = "idle"
    /\ UNCHANGED <<build, stopped, self, op, errno, Status, flags, life, AsyncContext, Initialized, thread>>

\* The thread has exited, or the time is over before it has.
WaitFor_return ==
    /\ At({"waitfor"})
    /\ ThreadCompleted' = [ThreadCompleted EXCEPT ![self] = thr[self] = "exited"]
    /\ pc' = "idle"
    /\ UNCHANGED <<build, stopped, self, op, errno, Status, flags, life, AsyncContext, Initialized, thread>>

\* Mutation: the destructor does not wait.
DestroyWithoutWait(a) ==
    /\ At({"idle"}) /\ life[a] = "alive"
    /\ Call(a, "destroy", "delete")

Destroy(a) ==
    /\ At({"idle"}) /\ life[a] = "alive"
    /\ Call(a, "destroy", IF Initialized[a] /\ ~ThreadCompleted[a] THEN "join" ELSE "delete")

\* CloseHandle, ObDereferenceObject, or nothing on POSIX.
CxPlatThreadDelete ==
    refs' = [refs EXCEPT ![self] = @ \ {CASE posix -> "none"
                                         [] build.platform = "winuser" -> "handle"
                                         [] build.platform = "winkernel" -> "object"}]

\* The thread is deleted, when there is one; then the object is gone.
Delete ==
    /\ At({"delete"})
    /\ IF Initialized[self] THEN CxPlatThreadDelete ELSE UNCHANGED refs
    /\ life' = [life EXCEPT ![self] = "destroyed"]
    /\ pc' = "idle"
    /\ UNCHANGED <<build, stopped, self, op, errno, Status, flags, AsyncContext, Initialized, ThreadCompleted, thr, CustomContext>>

-----------------------------------------------------------------------------
(* The threads.  *)

Progress(a, to) ==
    /\ thr' = [thr EXCEPT ![a] = to]
    /\ UNCHANGED <<build, stopped, caller, object, refs, CustomContext>>

\* Reads the callback and its argument from the custom context.
CxPlatThreadCustomStart(a) ==
    /\ On(a, {"started"}) /\ build.custom
    /\ IF CustomContext[a] = "allocated" THEN Progress(a, "entered") ELSE Stop("free")

\* Reads the user's callback and context from the object.
ThreadCallback(a) ==
    /\ On(a, {IF build.custom THEN "entered" ELSE "started"})
    /\ IF life[a] # "destroyed" /\ a \in AsyncContext THEN Progress(a, "running") ELSE Stop("context")

UserCallback(a) == On(a, {"running"}) /\ Progress(a, "returned")

\* CxPlatThreadCustomStart frees the context at some time before it returns.
FreeInThread(a) ==
    /\ build.custom /\ On(a, {"entered", "running", "returned"})
    /\ CustomContext[a] = "allocated"
    /\ CustomContext' = [CustomContext EXCEPT ![a] = "freed"]
    /\ UNCHANGED <<build, stopped, caller, object, thr, refs>>

Exit(a) == On(a, {"returned"}) /\ CustomContext[a] # "allocated" /\ Progress(a, "exited")

-----------------------------------------------------------------------------
CallerStep == CxPlatThreadCreate \/ Created \/ Join_posix \/ Join_windows \/ WaitFor_return \/ Delete

ThreadStep(a) == CxPlatThreadCustomStart(a) \/ ThreadCallback(a) \/ UserCallback(a) \/ FreeInThread(a) \/ Exit(a)

NewCall(a) == (\E f \in SUBSET Flags : Construct(a, f)) \/ Wait(a) \/ WaitFor(a) \/ Destroy(a)

Next == CallerStep \/ \E a \in Asyncs : NewCall(a) \/ ThreadStep(a)

Spec == Init /\ [][Next]_vars

(* The scheduler runs the caller and the threads, and callbacks return.  *)
FairSpec ==
    /\ Spec
    /\ WF_vars(CallerStep)
    /\ \A a \in Asyncs : WF_vars(ThreadStep(a))

-----------------------------------------------------------------------------
(* A thread runs although the construction of its object reports failure:  *)
(* nobody waits for it.                                                    *)
Orphan(a) == life[a] \in {"alive", "destroyed"} /\ ~Initialized[a] /\ thr[a] # "none"

Creating == {"attr", "alloc", "spawn", "respawn", "reference", "processor",
             "affinity", "ideal", "name", "close", "created"}

\* The references a thread has while CxPlatThreadCreate is at these steps.
CreatingRefs ==
    CASE pc \in {"attr", "alloc"} ->
            /\ thr[self] = "none" /\ CustomContext[self] # "allocated"
            /\ pc = "alloc" => build.custom
      [] pc \in {"spawn", "respawn"} -> thr[self] = "none"
      [] pc = "reference" -> build.platform = "winkernel" /\ thr[self] # "none" /\ refs[self] = {"handle"}
      [] pc \in {"processor", "ideal", "name"} \/ (pc = "affinity" /\ ~posix) ->
            /\ build.platform = "winkernel" /\ Status = "none" /\ thr[self] # "none"
            /\ refs[self] = {"handle", "object"}
      [] pc = "close" ->
            /\ build.platform = "winkernel" /\ thr[self] # "none"
            /\ refs[self] \in {{"handle"}, {"handle", "object"}}
      [] OTHER ->
            /\ thr[self] = "none" => CustomContext[self] # "allocated"
            /\ build.platform = "winkernel" => refs[self] \subseteq {"object"}

(* The inductive invariant: what is true of an object at each stage of its *)
(* life, whatever its thread has done meanwhile.                           *)
IInv ==
    /\ TypeOK
    /\ pc \in Creating => CreatingRefs
    /\ pc \in Creating /\ Status = "error" /\ thr[self] # "none"
          => build.platform = "winkernel" /\ ~build.debug
    /\ pc \in {"join", "waitfor"} => Initialized[self]
    /\ pc = "waitfor" => ~posix
    /\ pc \in {"join", "waitfor", "delete"} => life[self] = "alive"
    /\ pc = "delete" /\ Initialized[self] => thr[self] = "exited" /\ "join" \notin refs[self]
    /\ \A a \in Asyncs :
          /\ life[a] = "constructing" <=> pc \in Creating /\ self = a
          /\ life[a] = "absent" => thr[a] = "none" /\ CustomContext[a] = "none"
          /\ a \in AsyncContext <=> life[a] # "absent"
          /\ Initialized[a] => life[a] \in {"alive", "destroyed"}
          /\ ThreadCompleted[a] => Initialized[a] /\ thr[a] = "exited" /\ "join" \notin refs[a]
          /\ thr[a] = "none" => refs[a] = {}
          /\ thr[a] = "exited" => CustomContext[a] # "allocated"
          /\ CustomContext[a] = "allocated" => build.custom
          /\ "join" \in refs[a] => posix
          /\ "handle" \in refs[a] => ~posix
          /\ "object" \in refs[a] => build.platform = "winkernel"
          /\ life[a] = "alive" /\ build.platform = "winkernel" => "handle" \notin refs[a]
          /\ life[a] \in {"alive", "destroyed"} /\ thr[a] = "none" => CustomContext[a] # "allocated"
          /\ life[a] = "destroyed" /\ Initialized[a] => thr[a] = "exited" /\ refs[a] = {}
          /\ Orphan(a) => build.platform = "winkernel" /\ ~build.debug

(* CxPlatThreadCreate fails after it has started the thread in one place   *)
(* only: kernel mode, where a debug build stops instead.                   *)
NoOrphans ==
    \A a \in Asyncs : Orphan(a) => build.platform = "winkernel" /\ ~build.debug

(* A creation that is reported as a success has started a thread.  *)
CreatedMeansStarted ==
    \A a \in Asyncs : life[a] \in {"alive", "destroyed"} /\ Initialized[a] => thr[a] # "none"

(* When the destructor has returned, the callback has, and the thread is   *)
(* over: what the callback uses may be freed.                              *)
DestroyedAfterCallback ==
    \A a \in Asyncs : life[a] = "destroyed" => thr[a] \in {"none", "exited"} \/ Orphan(a)

(* ThreadCompleted, by which the destructor decides not to wait, is true   *)
(* only of a thread that is over, however waits with and without timeout   *)
(* follow each other.                                                      *)
CompletedIsOver ==
    \A a \in Asyncs : ThreadCompleted[a] => thr[a] = "exited"

(* After the destructor, nothing keeps the thread or its custom context:   *)
(* it was joined, its handle was closed, its object released.              *)
NothingLeaks ==
    \A a \in Asyncs :
        life[a] = "destroyed" /\ ~Orphan(a) => refs[a] = {} /\ CustomContext[a] # "allocated"

(* The program is stopped by assertions of a debug build of kernel mode,   *)
(* by the null custom context of Linux, by a POSIX join of a thread that   *)
(* was joined before or never started, by the affinity of a Linux thread   *)
(* that never started, and by an orphan whose object is gone.  Nothing     *)
(* else stops it: no other thread meets a context that is not yet set, was *)
(* freed or is gone.                                                       *)
StopsAreKnown ==
    CASE stopped = "no" -> TRUE
      [] stopped = "assert" -> build.platform = "winkernel" /\ build.debug
      [] stopped = "null" -> build.platform = "linux" /\ build.custom
      [] stopped = "join" -> posix /\ (ThreadCompleted[self] \/ thr[self] = "none")
      [] stopped = "handle" -> build.platform = "linux" /\ thr[self] = "none"
      [] stopped = "context" -> \E a \in Asyncs : Orphan(a) /\ life[a] = "destroyed"
      [] OTHER -> FALSE

(* Each call of the caller returns, waits without timeout included, unless *)
(* the program is stopped.                                                 *)
CallsReturn == (pc # "idle") ~> (pc = "idle" \/ stopped # "no")

(* Each object behaves as a task.  *)
TaskOf(a) ==
    IF Orphan(a) THEN "lost"
    ELSE IF life[a] = "destroyed" THEN "gone"
    ELSE IF thr[a] = "exited" THEN "finished"
    ELSE IF thr[a] # "none" THEN "running"
    ELSE IF life[a] = "alive" THEN "refused" ELSE "absent"

T == INSTANCE Task WITH task <- [a \in Asyncs |-> TaskOf(a)],
                        reported <- {a \in Asyncs : ThreadCompleted[a]}

(* The objects keep the promises of Task.  *)
ImplementsTask == T!Spec
=============================================================================
