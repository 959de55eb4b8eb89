----------------------------- MODULE AsyncProof -----------------------------
(***************************************************************************)
(* Proofs about Async, for any set of objects and any builds: IInv is      *)
(* inductive, the safety properties follow from it, and the specification  *)
(* implements Task.                                                        *)
(***************************************************************************)
EXTENDS Async, Integers, TLAPS

(* Before the first construction there is no thread, and IInv holds.  *)
LEMMA InitIInv == Init => IInv
  BY BuildAssumption, SMTT(20) DEF Init, IInv, TypeOK, Creating, Orphan

(* A step of the caller, inside CxPlatThreadCreate, a wait or the          *)
(* destructor, keeps IInv.                                                 *)
LEMMA CallerIInv == IInv /\ CallerStep => IInv'
<1> SUFFICES ASSUME IInv, CallerStep PROVE IInv'
  OBVIOUS
<1> USE DEF IInv, TypeOK, CreatingRefs, Creating, Orphan, posix, At, caller, object, thread, Flags
<1>1. CASE Attr_init
  BY <1>1, BuildAssumption DEF Attr_init, Goto, PthreadError
<1>2. CASE Alloc_context
  BY <1>2, BuildAssumption DEF Alloc_context, Goto, Stop
<1>3. CASE Spawn_linux
  BY <1>3, BuildAssumption DEF Spawn_linux, Goto, StartThread, PthreadError, FreeCustomContext
<1>4. CASE Affinity_linux
  BY <1>4, BuildAssumption DEF Affinity_linux, Goto, Stop
<1>5. CASE Spawn_posix
  BY <1>5, BuildAssumption DEF Spawn_posix, Goto, StartThread, PthreadError
<1>6. CASE Spawn_winuser
  BY <1>6, BuildAssumption DEF Spawn_winuser, Goto, StartThread, FreeCustomContext
<1>7. CASE Spawn_winkernel
  BY <1>7, BuildAssumption DEF Spawn_winkernel, Goto, StartThread, FailAssert, Stop
<1>8. CASE ObReferenceObjectByHandle
  BY <1>8, BuildAssumption DEF ObReferenceObjectByHandle, Goto, FailAssert, Stop
<1>9. CASE KeGetProcessorNumberFromIndex
  BY <1>9, BuildAssumption DEF KeGetProcessorNumberFromIndex, Goto
<1>10. CASE Affinity_winkernel
  BY <1>10, BuildAssumption DEF Affinity_winkernel, Goto, FailAssert, Stop
<1>11. CASE Ideal_winkernel
  BY <1>11, BuildAssumption DEF Ideal_winkernel, Goto, FailAssert, Stop
<1>12. CASE Name_winkernel
  BY <1>12, BuildAssumption DEF Name_winkernel, Goto, Stop
<1>13. CASE ZwClose
  BY <1>13, BuildAssumption DEF ZwClose, Goto
<1>14. CASE Created
  <2>1. Initialized' = [Initialized EXCEPT ![self] = (Status = "none")]
    BY <1>14 DEF Created
  <2>2. CASE Status = "none"
    <3>1. Initialized' = [Initialized EXCEPT ![self] = TRUE]
      BY <2>1, <2>2, Zenon
    <3> QED
      BY <1>14, <2>2, <3>1 DEF Created
  <2>3. CASE Status # "none"
    <3>1. Initialized' = [Initialized EXCEPT ![self] = FALSE]
      BY <2>1, <2>3, Zenon
    <3> QED
      BY <1>14, <2>3, <3>1 DEF Created
  <2> QED
    BY <2>2, <2>3
<1>15. CASE Join_posix
  BY <1>15, BuildAssumption DEF Join_posix, Joined, Stop
<1>16. CASE Join_windows
  BY <1>16, BuildAssumption DEF Join_windows, Joined
<1>17. CASE WaitFor_return
  <2>1. ThreadCompleted' = [ThreadCompleted EXCEPT ![self] = (thr[self] = "exited")]
    BY <1>17 DEF WaitFor_return
  <2>2. CASE thr[self] = "exited"
    <3>1. ThreadCompleted' = [ThreadCompleted EXCEPT ![self] = TRUE]
      BY <2>1, <2>2, Zenon
    <3> QED
      BY <1>17, <2>2, <3>1 DEF WaitFor_return
  <2>3. CASE thr[self] # "exited"
    <3>1. ThreadCompleted' = [ThreadCompleted EXCEPT ![self] = FALSE]
      BY <2>1, <2>3, Zenon
    <3> QED
      BY <1>17, <2>3, <3>1 DEF WaitFor_return
  <2> QED
    BY <2>2, <2>3
<1>18. CASE Delete
  <2>1. CASE posix
    BY <1>18, <2>1, BuildAssumption DEF Delete, CxPlatThreadDelete
  <2>2. CASE build.platform = "winuser"
    BY <1>18, <2>2, BuildAssumption DEF Delete, CxPlatThreadDelete
  <2>3. CASE build.platform = "winkernel"
    BY <1>18, <2>3, BuildAssumption, SMTT(20) DEF Delete, CxPlatThreadDelete
  <2> QED
    BY <2>1, <2>2, <2>3, BuildAssumption
<1> QED
  BY <1>1, <1>2, <1>3, <1>4, <1>5, <1>6, <1>7, <1>8, <1>9, <1>10, <1>11, <1>12, <1>13, <1>14, <1>15,
     <1>16, <1>17, <1>18, Zenon DEF CallerStep, CxPlatThreadCreate

(* The beginning of a call on an object keeps IInv.  *)
LEMMA CallIInv == ASSUME IInv, NEW a \in Asyncs, NewCall(a) PROVE IInv'
<1> USE DEF IInv, TypeOK, CreatingRefs, Creating, Orphan, posix, At, caller, object, thread, Flags, Call
<1>1. ASSUME NEW f \in SUBSET Flags, Construct(a, f) PROVE IInv'
  BY <1>1, BuildAssumption DEF Construct
<1>2. CASE Wait(a)
  BY <1>2 DEF Wait
<1>3. CASE WaitFor(a)
  BY <1>3 DEF WaitFor
<1>4. CASE Destroy(a)
  BY <1>4, SMTT(20) DEF Destroy
<1> QED
  BY <1>1, <1>2, <1>3, <1>4 DEF NewCall

(* A step of a thread, from the thread's start routine to its exit, keeps  *)
(* IInv.                                                                   *)
LEMMA ThreadIInv == ASSUME IInv, NEW a \in Asyncs, ThreadStep(a) PROVE IInv'
<1> USE DEF IInv, TypeOK, CreatingRefs, Creating, Orphan, posix, On, caller, object, thread, Flags, Progress, Stop
<1>1. CASE CxPlatThreadCustomStart(a)
  BY <1>1 DEF CxPlatThreadCustomStart
<1>2. CASE ThreadCallback(a)
  BY <1>2 DEF ThreadCallback
<1>3. CASE UserCallback(a)
  BY <1>3 DEF UserCallback
<1>4. CASE FreeInThread(a)
  BY <1>4 DEF FreeInThread
<1>5. CASE Exit(a)
  BY <1>5 DEF Exit
<1> QED
  BY <1>1, <1>2, <1>3, <1>4, <1>5, Zenon DEF ThreadStep

(* So does a step in which nothing changes.  *)
LEMMA StutterIInv == IInv /\ UNCHANGED vars => IInv'
  BY DEF IInv, TypeOK, CreatingRefs, Creating, Orphan, posix, vars, caller, object, thread

(* IInv holds in every reachable state, for any number of objects and any  *)
(* builds.                                                                 *)
THEOREM Invariance == Spec => []IInv
<1>1. IInv /\ [Next]_vars => IInv'
  BY CallerIInv, CallIInv, ThreadIInv, StutterIInv DEF Next
<1> QED
  BY <1>1, InitIInv, PTL DEF Spec

(* The destructor of CxPlatAsyncT returns only after the callback.  *)
THEOREM DestructionIsSafe == Spec => []DestroyedAfterCallback
<1>1. IInv => DestroyedAfterCallback
  BY DEF IInv, TypeOK, DestroyedAfterCallback, Orphan
<1> QED
  BY <1>1, Invariance, PTL

(* ThreadCompleted is never true of a thread that still runs.  *)
THEOREM CompletionIsReal == Spec => []CompletedIsOver
<1>1. IInv => CompletedIsOver
  BY DEF IInv, CompletedIsOver
<1> QED
  BY <1>1, Invariance, PTL

(* Every thread and custom context is released by the time the destructor  *)
(* has returned.                                                           *)
THEOREM NoLeak == Spec => []NothingLeaks
<1>1. IInv => NothingLeaks
  BY DEF IInv, TypeOK, NothingLeaks, Orphan
<1> QED
  BY <1>1, Invariance, PTL

(* Only release builds of kernel mode report the failure of a thread that  *)
(* runs.                                                                   *)
THEOREM OrphansAreKnown == Spec => []NoOrphans
<1>1. IInv => NoOrphans
  BY DEF IInv, NoOrphans
<1> QED
  BY <1>1, Invariance, PTL

-----------------------------------------------------------------------------
(* The refinement of Task.  *)

\* A step that leaves each task, and what is known of it, as it was.
Quiet == (\A a \in Asyncs : TaskOf(a)' = TaskOf(a)) /\ ThreadCompleted' = ThreadCompleted

\* A step that moves one task.
Moves(a, from, to) ==
    /\ TaskOf(a) = from /\ TaskOf(a)' = to
    /\ \A b \in Asyncs : b # a => TaskOf(b)' = TaskOf(b)
    /\ ThreadCompleted' = ThreadCompleted

\* A step that reports one task.
Reports(a) ==
    /\ TaskOf(a) = "finished"
    /\ \A b \in Asyncs : TaskOf(b)' = TaskOf(b)
    /\ \A b \in Asyncs : ThreadCompleted'[b] = (b = a \/ ThreadCompleted[b])

(* A quiet step is a stutter of Task.  *)
LEMMA QuietStep == Quiet => UNCHANGED T!vars
  BY DEF Quiet, T!vars

(* A step that moves one task moves it in Task.  *)
LEMMA MovesStep == ASSUME NEW a \in Asyncs, NEW from, NEW to, Moves(a, from, to) PROVE T!Step(a, from, to)
<1>1. [b \in Asyncs |-> TaskOf(b)]' = [[b \in Asyncs |-> TaskOf(b)] EXCEPT ![a] = to]
  BY Zenon DEF Moves
<1> QED
  BY <1>1 DEF Moves, T!Step

(* A wait that returns after the thread's exit is a report of Task.  *)
LEMMA ReportsStep == ASSUME NEW a \in Asyncs, Reports(a) PROVE T!Report(a)
  BY Zenon DEF Reports, T!Report

(* The steps of Task, by the progress of the thread they stand for.  *)
LEMMA TaskNext ==
    ASSUME NEW a \in Asyncs,
           \/ Moves(a, "absent", "running") \/ Moves(a, "absent", "refused") \/ Moves(a, "running", "finished")
           \/ Moves(a, "running", "lost") \/ Moves(a, "finished", "lost")
           \/ Moves(a, "finished", "gone") \/ Moves(a, "refused", "gone") \/ Reports(a)
    PROVE  T!Next
  BY MovesStep, ReportsStep DEF T!Next, T!Start, T!Refuse, T!Finish, T!Lose, T!Drop

(* Every step of CxPlatAsyncT and of its threads is a step of Task or      *)
(* leaves it alone.                                                        *)
LEMMA NextRefines ==
    ASSUME IInv, IInv', [Next]_vars PROVE [T!Next]_(T!vars)
<1> USE DEF Orphan
<1>b. self \in Asyncs /\ life \in [Asyncs -> {"absent", "constructing", "alive", "destroyed"}]
      /\ Initialized \in [Asyncs -> BOOLEAN] /\ ThreadCompleted \in [Asyncs -> BOOLEAN]
      /\ thr \in [Asyncs -> {"none", "started", "entered", "running", "returned", "exited"}]
  BY DEF IInv, TypeOK
<1>c. PICK s \in Asyncs : s = self
  BY <1>b
<1>1. ASSUME life' = life, thr' = thr, Initialized' = Initialized, ThreadCompleted' = ThreadCompleted PROVE Quiet
  BY <1>1 DEF Quiet, TaskOf
<1>2. ASSUME pc \in Creating, NEW r, StartThread(r), UNCHANGED object, thr[self] = "none" PROVE Moves(s, "absent", "running")
  BY <1>2, <1>b, <1>c DEF Moves, TaskOf, StartThread, object, IInv
<1>3. CASE CallerStep
  <2>1. CASE CxPlatThreadCreate
    <3>1. life' = life /\ Initialized' = Initialized /\ ThreadCompleted' = ThreadCompleted
          /\ (thr' = thr \/ (pc \in Creating /\ thr[self] = "none" /\ \E r \in {"join", "handle"} : StartThread(r) /\ UNCHANGED object))
      BY <2>1, BuildAssumption, Zenon DEF CxPlatThreadCreate, Attr_init, Alloc_context, Spawn_linux,
         Affinity_linux, Spawn_posix,
         Spawn_winuser, Spawn_winkernel, ObReferenceObjectByHandle, KeGetProcessorNumberFromIndex, Affinity_winkernel,
         Ideal_winkernel, Name_winkernel, ZwClose, Goto, Stop, FailAssert, FreeCustomContext, At, Creating, object, thread,
         IInv, CreatingRefs
    <3> QED
      BY <1>1, <1>2, <1>b, <1>c, <3>1, QuietStep, TaskNext, SMTT(20)
  <2>2. CASE Created
    <3>1. CASE thr[self] = "none"
      <4>1. Moves(s, "absent", "refused")
        BY <2>2, <3>1, <1>b, <1>c DEF Moves, TaskOf, Created, At, IInv, Creating, thread
      <4> QED
        BY <4>1, <1>b, <1>c, TaskNext
    <3>2. CASE thr[self] # "none" /\ Status = "none"
      <4>1. Initialized' = [Initialized EXCEPT ![self] = TRUE]
        BY <2>2, <3>2, Zenon DEF Created
      <4>2. Quiet
        BY <2>2, <3>2, <4>1, <1>b, <1>c DEF Quiet, TaskOf, Created, At, IInv, Creating, thread
      <4> QED
        BY <4>2, QuietStep
    <3>3. CASE thr[self] # "none" /\ Status # "none"
      <4>1. Initialized' = [Initialized EXCEPT ![self] = FALSE]
        BY <2>2, <3>3, Zenon DEF Created
      <4>2. Moves(s, TaskOf(s), "lost") /\ TaskOf(s) \in {"running", "finished"}
        BY <2>2, <3>3, <4>1, <1>b, <1>c DEF Moves, TaskOf, Created, At, IInv, Creating, thread
      <4>3. Moves(s, "running", "lost") \/ Moves(s, "finished", "lost")
        BY <4>2
      <4> QED
        BY <4>3, TaskNext
    <3> QED
      BY <3>1, <3>2, <3>3
  <2>3. CASE Join_posix \/ Join_windows
    <3>1. CASE Joined
      <4>1. thr[self] = "exited" /\ life[self] = "alive" /\ Initialized[self]
            /\ thr' = thr /\ life' = life /\ Initialized' = Initialized
        BY <2>3, <3>1 DEF Join_posix, Join_windows, Joined, IInv, At, Stop, object, thread
      <4>2. CASE op = "wait"
        <5>1. ThreadCompleted' = [ThreadCompleted EXCEPT ![self] = TRUE]
          BY <3>1, <4>2, <1>b, <1>c, Zenon DEF Joined
        <5>2. QED
          <6>1. Reports(s)
            BY <4>1, <5>1, <1>b, <1>c, Zenon DEF Reports, TaskOf
          <6> QED
            BY <6>1, <1>b, <1>c, TaskNext
      <4>3. CASE op # "wait"
        <5>1. ThreadCompleted' = ThreadCompleted
          BY <3>1, <4>3, <1>b, <1>c DEF Joined
        <5> QED
          BY <4>1, <5>1, <1>1, QuietStep
      <4> QED
        BY <4>2, <4>3
    <3>2. CASE Stop("join")
      BY <3>2, <1>1, QuietStep DEF Stop, object, thread
    <3> QED
      BY <2>3, <3>1, <3>2 DEF Join_posix, Join_windows
  <2>4. CASE WaitFor_return
    <3>1. life[self] = "alive" /\ Initialized[self]
          /\ thr' = thr /\ life' = life /\ Initialized' = Initialized
          /\ ThreadCompleted' = [ThreadCompleted EXCEPT ![self] = (thr[self] = "exited")]
      BY <2>4 DEF WaitFor_return, IInv, At, object, thread
    <3>2. CASE thr[self] = "exited"
      <4>1. ThreadCompleted' = [ThreadCompleted EXCEPT ![self] = TRUE]
        BY <3>1, <3>2, Zenon
      <4> QED
        <5>1. Reports(s)
          BY <3>1, <3>2, <4>1, <1>b, <1>c DEF Reports, TaskOf
        <5> QED
          BY <5>1, <1>b, <1>c, TaskNext
    <3>3. CASE thr[self] # "exited"
      <4>1. ThreadCompleted' = [ThreadCompleted EXCEPT ![self] = FALSE]
        BY <3>1, <3>3, Zenon
      <4>2. ThreadCompleted[self] = FALSE
        BY <3>3, <1>b, <1>c DEF IInv
      <4>3. ThreadCompleted' = ThreadCompleted
        BY <4>1, <4>2, <1>b, <1>c
      <4> QED
        BY <3>1, <4>3, <1>1, QuietStep
    <3> QED
      BY <3>2, <3>3
  <2>5. CASE Delete
    <3>1. life[self] = "alive" /\ life' = [life EXCEPT ![self] = "destroyed"] /\ thr' = thr
          /\ Initialized' = Initialized /\ ThreadCompleted' = ThreadCompleted
          /\ (thr[self] = "exited" \/ thr[self] = "none" \/ Orphan(self))
      BY <2>5, <1>b, <1>c DEF Delete, IInv, At
    <3>2. CASE thr[self] = "exited" /\ ~Orphan(self)
      <4>1. Moves(s, "finished", "gone")
        BY <3>1, <3>2, <1>b, <1>c DEF Moves, TaskOf
      <4> QED
        BY <4>1, <1>b, <1>c, TaskNext
    <3>3. CASE thr[self] = "none"
      <4>1. Moves(s, "refused", "gone")
        BY <3>1, <3>3, <1>b, <1>c DEF Moves, TaskOf
      <4> QED
        BY <4>1, <1>b, <1>c, TaskNext
    <3>4. CASE Orphan(self)
      <4>1. Quiet
        BY <3>1, <3>4, <1>b, <1>c, SMTT(20) DEF Quiet, TaskOf
      <4> QED
        BY <4>1, QuietStep
    <3> QED
      BY <3>1, <3>2, <3>3, <3>4
  <2> QED
    BY <1>3, <2>1, <2>2, <2>3, <2>4, <2>5 DEF CallerStep
<1>4. ASSUME NEW a \in Asyncs, NewCall(a) PROVE Quiet
  BY <1>4, <1>b, <1>c DEF NewCall, Construct, Wait, WaitFor, Destroy, Call, Quiet, TaskOf, object,
     thread, IInv
<1>5. ASSUME NEW a \in Asyncs, ThreadStep(a) PROVE Quiet \/ Moves(a, "running", "finished")
  <2>1. CASE Exit(a)
    <3>1. life[a] # "destroyed" \/ Orphan(a)
      BY <2>1, <1>b, <1>c DEF Exit, On, IInv
    <3>2. thr[a] = "returned" /\ thr' = [thr EXCEPT ![a] = "exited"] /\ life' = life
          /\ Initialized' = Initialized /\ ThreadCompleted' = ThreadCompleted
      BY <2>1 DEF Exit, On, Progress, object
    <3>3. CASE Orphan(a)
      BY <3>2, <3>3, <1>b, <1>c DEF Quiet, TaskOf
    <3>4. CASE ~Orphan(a)
      BY <3>1, <3>2, <3>4, <1>b, <1>c DEF Moves, TaskOf
    <3> QED
      BY <3>3, <3>4
  <2>2. CASE CxPlatThreadCustomStart(a) \/ ThreadCallback(a) \/ UserCallback(a) \/ FreeInThread(a)
    BY <2>2, <1>b, <1>c DEF CxPlatThreadCustomStart, ThreadCallback, UserCallback, FreeInThread, On,
       Progress, Stop, object, thread, Quiet, TaskOf
  <2> QED
    BY <1>5, <2>1, <2>2 DEF ThreadStep
<1>6. CASE UNCHANGED vars
  BY <1>6, <1>1, QuietStep DEF vars, object, thread
<1> QED
  BY <1>3, <1>4, <1>5, <1>6, QuietStep, TaskNext DEF Next

(* CxPlatAsyncT keeps the promises of Task for any number of objects, in   *)
(* every build.                                                            *)
THEOREM Refinement == Spec => ImplementsTask
<1>1. Init => T!Init
  BY DEF Init, T!Init, TaskOf, Orphan
<1>2. IInv /\ IInv' /\ [Next]_vars => [T!Next]_(T!vars)
  BY NextRefines, SMTT(20)
<1> QED
  BY <1>1, <1>2, Invariance, PTL DEF Spec, ImplementsTask, T!Spec

-----------------------------------------------------------------------------
(* Why the program is stopped.  *)

(* While the program runs, a thread that has not read its custom context   *)
(* finds it allocated; and a POSIX thread can be joined until a wait has.  *)
Ready ==
    /\ pc \in {"spawn", "respawn"} /\ build.custom => CustomContext[self] = "allocated"
    /\ \A a \in Asyncs :
          /\ build.custom /\ thr[a] = "started" => CustomContext[a] = "allocated"
          /\ posix /\ life[a] \in {"constructing", "alive"} /\ thr[a] # "none" =>
                "join" \in refs[a] \/ ThreadCompleted[a] \/ (pc = "delete" /\ self = a)

Stops ==
    \/ stopped = "no"
    \/ stopped = "assert" /\ build.platform = "winkernel" /\ build.debug
    \/ stopped = "null" /\ build.platform = "linux" /\ build.custom
    \/ stopped = "join" /\ posix /\ (ThreadCompleted[self] \/ thr[self] = "none")
    \/ stopped = "handle" /\ build.platform = "linux" /\ thr[self] = "none"
    \/ stopped = "context" /\ \E a \in Asyncs : Orphan(a) /\ life[a] = "destroyed"

(* The steps of the caller.  *)
LEMMA CallerReady == ASSUME IInv, Ready, CallerStep PROVE Ready'
<1> USE DEF IInv, TypeOK, CreatingRefs, Creating, Ready, posix, At, caller, object, thread
<1>1. CASE Attr_init
  BY <1>1 DEF Attr_init, Goto, PthreadError
<1>2. CASE Alloc_context
  BY <1>2 DEF Alloc_context, Goto, Stop
<1>3. CASE Spawn_linux
  BY <1>3 DEF Spawn_linux, Goto, StartThread, PthreadError, FreeCustomContext
<1>4. CASE Affinity_linux
  BY <1>4 DEF Affinity_linux, Goto, Stop
<1>5. CASE Spawn_posix
  BY <1>5 DEF Spawn_posix, Goto, StartThread, PthreadError
<1>6. CASE Spawn_winuser
  BY <1>6, BuildAssumption DEF Spawn_winuser, Goto, StartThread, FreeCustomContext
<1>7. CASE Spawn_winkernel
  BY <1>7, BuildAssumption DEF Spawn_winkernel, Goto, StartThread, FailAssert, Stop
<1>8. CASE ObReferenceObjectByHandle
  BY <1>8 DEF ObReferenceObjectByHandle, Goto, FailAssert, Stop
<1>9. CASE KeGetProcessorNumberFromIndex
  BY <1>9 DEF KeGetProcessorNumberFromIndex, Goto
<1>10. CASE Affinity_winkernel
  BY <1>10 DEF Affinity_winkernel, Goto, FailAssert, Stop
<1>11. CASE Ideal_winkernel
  BY <1>11 DEF Ideal_winkernel, Goto, FailAssert, Stop
<1>12. CASE Name_winkernel
  BY <1>12 DEF Name_winkernel, Goto, Stop
<1>13. CASE ZwClose
  BY <1>13 DEF ZwClose, Goto
<1>14. CASE Created
  BY <1>14 DEF Created
<1>15. CASE Join_posix
  BY <1>15 DEF Join_posix, Joined, Stop
<1>16. CASE Join_windows
  BY <1>16 DEF Join_windows, Joined
<1>17. CASE WaitFor_return
  BY <1>17 DEF WaitFor_return
<1>18. CASE Delete
  BY <1>18 DEF Delete, CxPlatThreadDelete
<1> QED
  BY <1>1, <1>2, <1>3, <1>4, <1>5, <1>6, <1>7, <1>8, <1>9, <1>10, <1>11, <1>12, <1>13, <1>14, <1>15,
     <1>16, <1>17, <1>18 DEF CallerStep, CxPlatThreadCreate

(* The beginning of a call, and the steps of a thread.  *)
LEMMA OthersReady == ASSUME IInv, Ready, NEW a \in Asyncs, NewCall(a) \/ ThreadStep(a) PROVE Ready'
<1> USE DEF IInv, TypeOK, CreatingRefs, Creating, Ready, posix, At, On, caller, object, thread, Progress, Stop
<1>1. ASSUME NEW f \in SUBSET Flags, Construct(a, f) PROVE Ready'
  BY <1>1, BuildAssumption DEF Construct
<1>2. CASE Wait(a) \/ WaitFor(a) \/ Destroy(a)
  BY <1>2 DEF Wait, WaitFor, Destroy, Call
<1>3. CASE CxPlatThreadCustomStart(a)
  BY <1>3 DEF CxPlatThreadCustomStart
<1>4. CASE ThreadCallback(a)
  BY <1>4 DEF ThreadCallback
<1>5. CASE UserCallback(a)
  BY <1>5 DEF UserCallback
<1>6. CASE FreeInThread(a)
  BY <1>6 DEF FreeInThread
<1>7. CASE Exit(a)
  BY <1>7 DEF Exit
<1> QED
  BY <1>1, <1>2, <1>3, <1>4, <1>5, <1>6, <1>7 DEF NewCall, ThreadStep

(* A step stops the program for a known reason or not at all.  *)
LEMMA StepStops == ASSUME IInv, Ready, Next PROVE Stops'
<1> USE DEF IInv, TypeOK, At, On, Stop, caller, object, thread
<1>a. ASSUME FailAssert("created") \/ FailAssert("close"), build.platform = "winkernel", stopped = "no"
      PROVE  Stops'
  BY <1>a DEF FailAssert, Stops
<1>1. CASE Alloc_context
  BY <1>1, BuildAssumption DEF Alloc_context, Goto, Stops, CreatingRefs, Creating, posix
<1>2. CASE Affinity_linux
  <2>1. thr[self] # "none" => refs[self] # {}
    BY <1>2 DEF Affinity_linux, Ready, Creating, posix
  <2> QED
    BY <1>2, <2>1 DEF Affinity_linux, Goto, Stops
<1>3. CASE Spawn_winkernel
  BY <1>3, <1>a DEF Spawn_winkernel, Goto, Stops
<1>4. CASE ObReferenceObjectByHandle
  BY <1>4, <1>a DEF ObReferenceObjectByHandle, Goto, Stops, CreatingRefs, Creating
<1>5. CASE Affinity_winkernel
  BY <1>5, <1>a DEF Affinity_winkernel, Goto, Stops
<1>6. CASE Ideal_winkernel
  BY <1>6, <1>a DEF Ideal_winkernel, Goto, Stops, CreatingRefs, Creating
<1>7. CASE Name_winkernel
  BY <1>7 DEF Name_winkernel, Goto, Stops, CreatingRefs, Creating
<1>8. CASE Join_posix
  <2>1. "join" \notin refs[self] => ThreadCompleted[self] \/ thr[self] = "none"
    BY <1>8 DEF Join_posix, Ready
  <2> QED
    BY <1>8, <2>1 DEF Join_posix, Joined, Stops, posix
<1>9. ASSUME NEW a \in Asyncs, CxPlatThreadCustomStart(a) PROVE Stops'
  BY <1>9 DEF CxPlatThreadCustomStart, Progress, Stops, Ready
<1>10. ASSUME NEW a \in Asyncs, ThreadCallback(a) PROVE Stops'
  <2>1. CASE life[a] # "destroyed"
    BY <1>10, <2>1 DEF ThreadCallback, Progress, Stops
  <2>2. CASE life[a] = "destroyed"
    <3>1. Orphan(a)
      BY <1>10, <2>2 DEF ThreadCallback, Orphan
    <3>2. Orphan(a)' /\ life'[a] = "destroyed" /\ stopped' = "context"
      BY <1>10, <2>2, <3>1, SMTT(20) DEF ThreadCallback, Orphan
    <3> QED
      BY <3>2 DEF Stops
  <2> QED
    BY <2>1, <2>2
<1>11. CASE Attr_init \/ Spawn_linux \/ Spawn_posix \/ Spawn_winuser \/ KeGetProcessorNumberFromIndex \/ ZwClose
  BY <1>11 DEF Attr_init, Spawn_linux, Spawn_posix, Spawn_winuser, KeGetProcessorNumberFromIndex,
     ZwClose, Goto, Stops
<1>12. CASE Created \/ Join_windows \/ WaitFor_return \/ Delete
  BY <1>12 DEF Created, Join_windows, Joined, WaitFor_return, Delete, Stops
<1>13. ASSUME NEW a \in Asyncs, NewCall(a) PROVE Stops'
  BY <1>13 DEF NewCall, Construct, Wait, WaitFor, Destroy, Call, Stops
<1>14. ASSUME NEW a \in Asyncs, UserCallback(a) \/ FreeInThread(a) \/ Exit(a) PROVE Stops'
  BY <1>14 DEF UserCallback, FreeInThread, Exit, Progress, Stops
<1> QED
  BY <1>1, <1>2, <1>3, <1>4, <1>5, <1>6, <1>7, <1>8, <1>9, <1>10, <1>11, <1>12, <1>13, <1>14
     DEF Next, CallerStep, CxPlatThreadCreate, ThreadStep

(* CxPlatThreadCreate, the waits, the destructor and the threads stop the  *)
(* program only as StopsAreKnown says: no thread reads a custom context    *)
(* that is freed or not set, and none but an orphan an object that is gone.*)
THEOREM OnlyKnownStops == Spec => []StopsAreKnown
<1>1. Init => Ready /\ Stops
  BY DEF Init, Ready, Stops
<1>2. IInv /\ Ready /\ Stops /\ [Next]_vars => Ready' /\ Stops'
  <2>1. Ready /\ UNCHANGED vars => Ready'
    BY DEF Ready, posix, vars, caller, object, thread
  <2>2. Stops /\ UNCHANGED vars => Stops'
    BY DEF Stops, Orphan, posix, vars, caller, object, thread
  <2> QED
    BY <2>1, <2>2, CallerReady, OthersReady, StepStops DEF Next
<1>3. Stops => StopsAreKnown
  <2>1. CASE stopped = "no"
    BY <2>1, Zenon DEF StopsAreKnown
  <2>2. CASE stopped # "no"
    BY <2>2 DEF Stops, StopsAreKnown
  <2> QED
    BY <2>1, <2>2
<1> QED
  BY <1>1, <1>2, <1>3, Invariance, PTL DEF Spec

-----------------------------------------------------------------------------
(* How far the caller's call is from its return: the longest way there.    *)
Ahead == [idle |-> 0, created |-> 1, delete |-> 1, waitfor |-> 1, close |-> 2, join |-> 2,
          name |-> 3, ideal |-> 4, affinity |-> 5, processor |-> 6, reference |-> 7,
          respawn |-> 8, spawn |-> 9, alloc |-> 10, attr |-> 11]

(* How many steps a's thread has left.  *)
Work(a) ==
    [none |-> 0, exited |-> 0, returned |-> 1, running |-> 2, entered |-> 3, started |-> 4][thr[a]]
        + (IF CustomContext[a] = "allocated" THEN 1 ELSE 0)

(* No call runs in circles: a step begins a call, stops the program,       *)
(* brings the call of the caller nearer to its return, or is one of the    *)
(* steps that a thread has left and no concern of anybody else.  A failed  *)
(* pthread_create, in particular, is tried a second time and not a third.  *)
Advance ==
    \/ pc = "idle" /\ pc' # "idle"
    \/ stopped' # "no"
    \/ pc # "idle" /\ Ahead[pc'] \in Nat /\ Ahead[pc'] < Ahead[pc]
    \/ /\ UNCHANGED caller
       /\ \E a \in Asyncs :
             /\ Work(a) \in Nat /\ Work(a)' \in Nat /\ Work(a)' < Work(a)
             /\ \A b \in Asyncs \ {a} : Work(b)' = Work(b)

(* Advance, of every step of the caller and of the threads.               *)
CallsAdvance == [][Advance]_vars

(* Each step of CxPlatThreadCreate, of a wait or of the destructor.        *)
LEMMA CallerAdvances == ASSUME IInv, CallerStep PROVE Advance
<1> USE DEF At, Stop, caller
<1>1. /\ Ahead["idle"] = 0 /\ Ahead["created"] = 1 /\ Ahead["delete"] = 1 /\ Ahead["waitfor"] = 1
      /\ Ahead["close"] = 2 /\ Ahead["join"] = 2 /\ Ahead["name"] = 3 /\ Ahead["ideal"] = 4
      /\ Ahead["affinity"] = 5 /\ Ahead["processor"] = 6 /\ Ahead["reference"] = 7
      /\ Ahead["respawn"] = 8 /\ Ahead["spawn"] = 9 /\ Ahead["alloc"] = 10 /\ Ahead["attr"] = 11
  BY DEF Ahead
<1> HIDE DEF Ahead
<1>2. CASE Attr_init
  BY <1>1, <1>2 DEF Attr_init, Goto, Advance
<1>3. CASE Alloc_context
  BY <1>1, <1>3 DEF Alloc_context, Goto, Advance
<1>4. CASE Spawn_linux
  BY <1>1, <1>4 DEF Spawn_linux, Goto, Advance
<1>5. CASE Affinity_linux \/ Spawn_posix \/ Spawn_winuser
  BY <1>1, <1>5 DEF Affinity_linux, Spawn_posix, Spawn_winuser, Goto, Advance
<1>6. CASE Spawn_winkernel \/ ObReferenceObjectByHandle
  BY <1>1, <1>6 DEF Spawn_winkernel, ObReferenceObjectByHandle, Goto, FailAssert, Advance
<1>7. CASE KeGetProcessorNumberFromIndex
  BY <1>1, <1>7 DEF KeGetProcessorNumberFromIndex, Goto, Advance
<1>8. CASE Affinity_winkernel \/ Ideal_winkernel
  BY <1>1, <1>8 DEF Affinity_winkernel, Ideal_winkernel, Goto, FailAssert, Advance
<1>9. CASE Name_winkernel \/ ZwClose \/ Created
  BY <1>1, <1>9 DEF Name_winkernel, ZwClose, Created, Goto, Advance
<1>10. CASE Join_posix \/ Join_windows
  BY <1>1, <1>10 DEF Join_posix, Join_windows, Joined, Advance
<1>11. CASE WaitFor_return \/ Delete
  BY <1>1, <1>11 DEF WaitFor_return, Delete, Advance
<1> QED
  BY <1>2, <1>3, <1>4, <1>5, <1>6, <1>7, <1>8, <1>9, <1>10, <1>11 DEF CallerStep, CxPlatThreadCreate

(* Each step of a thread, from its start routine to its exit.              *)
LEMMA ThreadAdvances == ASSUME IInv, NEW a \in Asyncs, ThreadStep(a) PROVE Advance
<1> DEFINE rank == [none |-> 0, exited |-> 0, returned |-> 1, running |-> 2, entered |-> 3, started |-> 4]
<1>1. /\ rank["none"] = 0 /\ rank["exited"] = 0 /\ rank["returned"] = 1
      /\ rank["running"] = 2 /\ rank["entered"] = 3 /\ rank["started"] = 4
  OBVIOUS
<1>2. \A b \in Asyncs : Work(b) = rank[thr[b]] + (IF CustomContext[b] = "allocated" THEN 1 ELSE 0)
  BY DEF Work
<1>3. \A b \in Asyncs : Work(b)' = rank[thr'[b]] + (IF CustomContext'[b] = "allocated" THEN 1 ELSE 0)
  BY DEF Work
<1> HIDE DEF rank
<1>4. /\ thr \in [Asyncs -> {"none", "started", "entered", "running", "returned", "exited"}]
      /\ CustomContext \in [Asyncs -> {"none", "allocated", "freed"}]
  BY DEF IInv, TypeOK
<1>5. ASSUME UNCHANGED caller, \A b \in Asyncs \ {a} : thr'[b] = thr[b] /\ CustomContext'[b] = CustomContext[b],
             thr'[a] \in {"none", "started", "entered", "running", "returned", "exited"},
             \/ rank[thr'[a]] < rank[thr[a]] /\ CustomContext'[a] = CustomContext[a]
             \/ /\ thr'[a] = thr[a]
                /\ CustomContext[a] = "allocated" /\ CustomContext'[a] = "freed"
      PROVE  Advance
  <2>1. rank[thr[a]] \in Nat /\ rank[thr'[a]] \in Nat
    BY <1>1, <1>4, <1>5
  <2>2. Work(a) \in Nat /\ Work(a)' \in Nat /\ Work(a)' < Work(a)
    BY <1>2, <1>3, <1>5, <2>1
  <2>3. \A b \in Asyncs \ {a} : Work(b)' = Work(b)
    BY <1>2, <1>3, <1>5
  <2> QED
    BY <1>5, <2>2, <2>3 DEF Advance
<1>6. ASSUME NEW to \in {"entered", "running", "returned", "exited"}, Progress(a, to), rank[to] < rank[thr[a]]
      PROVE  Advance
  BY <1>4, <1>5, <1>6 DEF Progress
<1>7. CASE CxPlatThreadCustomStart(a)
  BY <1>1, <1>6, <1>7 DEF CxPlatThreadCustomStart, On, Stop, Advance
<1>8. CASE ThreadCallback(a)
  BY <1>1, <1>6, <1>8 DEF ThreadCallback, On, Stop, Advance
<1>9. CASE UserCallback(a) \/ Exit(a)
  BY <1>1, <1>6, <1>9 DEF UserCallback, Exit, On
<1>10. CASE FreeInThread(a)
  BY <1>4, <1>5, <1>10 DEF FreeInThread, On
<1> QED
  BY <1>7, <1>8, <1>9, <1>10 DEF ThreadStep

(* Every call on a CxPlatAsyncT, and every thread, takes a bounded number  *)
(* of steps, whatever fails in it: the safety half of CallsReturn.         *)
THEOREM NoCallRunsInCircles == Spec => CallsAdvance
<1>1. ASSUME IInv, Next PROVE Advance
  <2>1. ASSUME NEW a \in Asyncs, NewCall(a) PROVE Advance
    BY <2>1 DEF NewCall, Construct, Wait, WaitFor, Destroy, Call, At, Advance
  <2> QED
    BY <1>1, <2>1, CallerAdvances, ThreadAdvances DEF Next
<1>2. IInv /\ [Next]_vars => [Advance]_vars
  BY <1>1
<1> QED
  BY <1>2, Invariance, PTL DEF Spec, CallsAdvance
=============================================================================
