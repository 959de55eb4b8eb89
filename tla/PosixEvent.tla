----------------------------- MODULE PosixEvent -----------------------------
(***************************************************************************)
(* CXPLAT_EVENT on POSIX (inc/cxplat_posix.h): a flag guarded by a mutex,  *)
(* and a condition variable.  Every pthread call and every access to the   *)
(* flag is a step of the calling thread, so the threads interleave between *)
(* any two of them.                                                        *)
(*                                                                         *)
(* The clients are any number of threads calling any function at any time, *)
(* within what the platform asks of them: nobody calls before Initialize   *)
(* returned, and the event is uninitialized by a thread that knows nobody  *)
(* else uses it.  What such a thread may rely on is that a wait returned   *)
(* TRUE because of a Set: the comment in CxPlatInternalEventSet promises   *)
(* that the Set then has no use of the event left (acked, below).          *)
(*                                                                         *)
(* pthread calls succeed: the code bugchecks on every other result.        *)
(***************************************************************************)
EXTENDS Naturals

CONSTANTS Threads,
          NoThread    \* the owner of a mutex nobody holds

ASSUME NoThreadAssumption == NoThread \notin Threads

VARIABLES phase,          \* the CXPLAT_EVENT's memory: "raw", "live", "dying"
          Signaled,       \* Event->Signaled
          AutoReset,      \* Event->AutoReset
          owner,          \* the thread that holds Event->Mutex
          pc,             \* pc[t]: what thread t does next
          deadline,       \* deadline[t]: Ts of t's wait; "never" in WaitForever
          WaitSatisfied,  \* WaitSatisfied[t]: the result of t's wait
          setter,         \* history: whose unfinished Set raised the flag last
          acked           \* history: whose unfinished Set a wait has consumed

vars == <<phase, Signaled, AutoReset, owner, pc, deadline, WaitSatisfied, setter, acked>>
history == <<setter, acked>>

SetPC == {"Set_lock", "Set_write", "Set_broadcast", "Set_unlock"}
ResetPC == {"Reset_lock", "Reset_write", "Reset_unlock"}
WaitPC == {"Wait_lock", "Wait_test", "Wait_blocked", "Wait_woken",
           "Wait_timedout", "Wait_consume", "Wait_unlock"}

TypeOK ==
    /\ phase \in {"raw", "live", "dying"}
    /\ Signaled \in BOOLEAN
    /\ AutoReset \in BOOLEAN
    /\ owner \in Threads \cup {NoThread}
    /\ pc \in [Threads -> {"idle", "Uninit"} \cup SetPC \cup ResetPC \cup WaitPC]
    /\ deadline \in [Threads -> {"never", "pending", "passed"}]
    /\ WaitSatisfied \in [Threads -> BOOLEAN]
    /\ setter \in Threads \cup {NoThread}
    /\ acked \in SUBSET Threads

Init ==
    /\ phase = "raw"
    /\ Signaled \in BOOLEAN
    /\ AutoReset \in BOOLEAN
    /\ owner = NoThread
    /\ pc = [t \in Threads |-> "idle"]
    /\ deadline = [t \in Threads |-> "never"]
    /\ WaitSatisfied = [t \in Threads |-> FALSE]
    /\ setter = NoThread
    /\ acked = {}

-----------------------------------------------------------------------------
(* pthreads, as the event uses them *)

Goto(t, where) == pc' = [pc EXCEPT ![t] = where]

(* pthread_mutex_lock: the step is possible once the mutex is free. *)
Lock(t) == owner = NoThread /\ owner' = t

(* pthread_mutex_unlock. *)
Unlock(t) == owner' = NoThread

(* pthread_cond_wait and pthread_cond_timedwait: give up the mutex and    *)
(* block, in one indivisible step.                                        *)
CondWait(t) == Unlock(t) /\ Goto(t, "Wait_blocked")

(* pthread_cond_broadcast: every thread blocked on the condition wakes up *)
(* and competes for the mutex; the caller t goes on.                      *)
CondBroadcast(t, next) ==
    pc' = [s \in Threads |-> CASE s = t -> next
                               [] s # t /\ pc[s] = "Wait_blocked" -> "Wait_woken"
                               [] OTHER -> pc[s]]

(* A blocked thread wakes up although nobody signalled the condition. *)
SpuriousWakeup(t) ==
    /\ pc[t] = "Wait_blocked"
    /\ Goto(t, "Wait_woken")
    /\ UNCHANGED <<phase, Signaled, AutoReset, owner, deadline, WaitSatisfied, history>>

(* pthread_cond_timedwait gives up at its deadline.  It takes the mutex   *)
(* back before it returns ETIMEDOUT, so anything may happen in between.   *)
CondTimeout(t) ==
    /\ pc[t] = "Wait_blocked"
    /\ deadline[t] = "passed"
    /\ Goto(t, "Wait_timedout")
    /\ UNCHANGED <<phase, Signaled, AutoReset, owner, deadline, WaitSatisfied, history>>

(* The clock reaches the absolute time a wait computed on entry. *)
Expire(t) ==
    /\ pc[t] \in WaitPC \ {"Wait_unlock"}
    /\ deadline[t] = "pending"
    /\ deadline' = [deadline EXCEPT ![t] = "passed"]
    /\ UNCHANGED <<phase, Signaled, AutoReset, owner, pc, WaitSatisfied, history>>

-----------------------------------------------------------------------------
(* CxPlatEventInitialize and CxPlatInternalEventUninitialize *)

CxPlatEventInitialize(t, ManualReset, InitialState) ==
    /\ phase = "raw"
    /\ pc[t] = "idle"
    /\ phase' = "live"
    /\ AutoReset' = ~ManualReset
    /\ Signaled' = InitialState
    /\ owner' = NoThread
    /\ setter' = NoThread
    /\ acked' = {}
    /\ UNCHANGED <<pc, deadline, WaitSatisfied>>

(* The thread destroys the condition, then the mutex.  It may do so when  *)
(* every other thread is out of its calls, or is a setter whose Set a     *)
(* wait has already reported.                                             *)
Uninitialize_cond(t) ==
    /\ phase = "live"
    /\ pc[t] = "idle"
    /\ \A s \in Threads \ {t} : pc[s] = "idle" \/ (s \in acked /\ pc[s] \in SetPC)
    /\ phase' = "dying"
    /\ Goto(t, "Uninit")
    /\ UNCHANGED <<Signaled, AutoReset, owner, deadline, WaitSatisfied, history>>

Uninitialize_mutex(t) ==
    /\ pc[t] = "Uninit"
    /\ phase' = "raw"
    /\ Goto(t, "idle")
    /\ UNCHANGED <<Signaled, AutoReset, owner, deadline, WaitSatisfied, history>>

-----------------------------------------------------------------------------
(* CxPlatInternalEventSet *)

Set_call(t) ==
    /\ phase = "live" /\ pc[t] = "idle"
    /\ Goto(t, "Set_lock")
    /\ UNCHANGED <<phase, Signaled, AutoReset, owner, deadline, WaitSatisfied, history>>

Set_lock(t) ==
    /\ pc[t] = "Set_lock"
    /\ Lock(t)
    /\ Goto(t, "Set_write")
    /\ UNCHANGED <<phase, Signaled, AutoReset, deadline, WaitSatisfied, history>>

(* Mutation: the mutex is released before the broadcast. *)
UnlockBeforeBroadcast(t) ==
    /\ pc[t] = "Set_write"
    /\ Signaled' = TRUE
    /\ setter' = t
    /\ Unlock(t)
    /\ Goto(t, "Set_broadcast")
    /\ UNCHANGED <<phase, AutoReset, deadline, WaitSatisfied, acked>>

Set_write(t) ==
    /\ pc[t] = "Set_write"
    /\ Signaled' = TRUE
    /\ setter' = t
    /\ Goto(t, "Set_broadcast")
    /\ UNCHANGED <<phase, AutoReset, owner, deadline, WaitSatisfied, acked>>

(* Mutation: pthread_cond_signal, which wakes one waiter, if there is any. *)
SignalOne(t) ==
    /\ pc[t] = "Set_broadcast"
    /\ \/ /\ \A s \in Threads : pc[s] # "Wait_blocked"
          /\ Goto(t, "Set_unlock")
       \/ \E s \in Threads :
             /\ pc[s] = "Wait_blocked"
             /\ pc' = [pc EXCEPT ![t] = "Set_unlock", ![s] = "Wait_woken"]
    /\ UNCHANGED <<phase, Signaled, AutoReset, owner, deadline, WaitSatisfied, history>>

Set_broadcast(t) ==
    /\ pc[t] = "Set_broadcast"
    /\ CondBroadcast(t, "Set_unlock")
    /\ UNCHANGED <<phase, Signaled, AutoReset, owner, deadline, WaitSatisfied, history>>

Set_return(t) ==
    /\ Goto(t, "idle")
    /\ setter' = IF setter = t THEN NoThread ELSE setter
    /\ acked' = acked \ {t}

Set_unlock(t) ==
    /\ pc[t] = "Set_unlock"
    /\ Unlock(t)
    /\ Set_return(t)
    /\ UNCHANGED <<phase, Signaled, AutoReset, deadline, WaitSatisfied>>

CxPlatInternalEventSet(t) ==
    Set_call(t) \/ Set_lock(t) \/ Set_write(t) \/ Set_broadcast(t) \/ Set_unlock(t)

-----------------------------------------------------------------------------
(* CxPlatInternalEventReset *)

Reset_call(t) ==
    /\ phase = "live" /\ pc[t] = "idle"
    /\ Goto(t, "Reset_lock")
    /\ UNCHANGED <<phase, Signaled, AutoReset, owner, deadline, WaitSatisfied, history>>

Reset_lock(t) ==
    /\ pc[t] = "Reset_lock"
    /\ Lock(t)
    /\ Goto(t, "Reset_write")
    /\ UNCHANGED <<phase, Signaled, AutoReset, deadline, WaitSatisfied, history>>

Reset_write(t) ==
    /\ pc[t] = "Reset_write"
    /\ Signaled' = FALSE
    /\ Goto(t, "Reset_unlock")
    /\ UNCHANGED <<phase, AutoReset, owner, deadline, WaitSatisfied, history>>

Reset_unlock(t) ==
    /\ pc[t] = "Reset_unlock"
    /\ Unlock(t)
    /\ Goto(t, "idle")
    /\ UNCHANGED <<phase, Signaled, AutoReset, deadline, WaitSatisfied, history>>

CxPlatInternalEventReset(t) ==
    Reset_call(t) \/ Reset_lock(t) \/ Reset_write(t) \/ Reset_unlock(t)

-----------------------------------------------------------------------------
(* CxPlatInternalEventWaitForever and CxPlatInternalEventWaitWithTimeout:  *)
(* the same loop, entered without a deadline or with one that is computed  *)
(* before the mutex is requested.                                          *)

Wait_call(t, d) ==
    /\ phase = "live" /\ pc[t] = "idle"
    /\ deadline' = [deadline EXCEPT ![t] = d]
    /\ Goto(t, "Wait_lock")
    /\ UNCHANGED <<phase, Signaled, AutoReset, owner, WaitSatisfied, history>>

(* Mutation: if (!Event->Signaled) in place of the loop. *)
IfInsteadOfWhile(t) ==
    /\ pc[t] \in {"Wait_lock", "Wait_woken"}
    /\ Lock(t)
    /\ Goto(t, IF pc[t] = "Wait_lock" THEN "Wait_test" ELSE "Wait_consume")
    /\ UNCHANGED <<phase, Signaled, AutoReset, deadline, WaitSatisfied, history>>

(* On entry, and again inside the condition wait when it was woken. *)
Wait_lock(t) ==
    /\ pc[t] \in {"Wait_lock", "Wait_woken"}
    /\ Lock(t)
    /\ Goto(t, "Wait_test")
    /\ UNCHANGED <<phase, Signaled, AutoReset, deadline, WaitSatisfied, history>>

(* while (!Event->Signaled) *)
Wait_test(t) ==
    /\ pc[t] = "Wait_test"
    /\ \/ ~Signaled /\ CondWait(t)
       \/ Signaled /\ Goto(t, "Wait_consume") /\ UNCHANGED owner
    /\ UNCHANGED <<phase, Signaled, AutoReset, deadline, WaitSatisfied, history>>

(* Mutation: return FALSE in place of goto Exit. *)
TimeoutKeepsMutex(t) ==
    /\ pc[t] = "Wait_timedout"
    /\ Lock(t)
    /\ Goto(t, "idle")
    /\ deadline' = [deadline EXCEPT ![t] = "never"]
    /\ UNCHANGED <<phase, Signaled, AutoReset, WaitSatisfied, history>>

(* Mutation: the result of pthread_cond_timedwait is not looked at. *)
TimeoutIgnored(t) ==
    /\ pc[t] = "Wait_timedout"
    /\ Lock(t)
    /\ Goto(t, "Wait_test")
    /\ UNCHANGED <<phase, Signaled, AutoReset, deadline, WaitSatisfied, history>>

(* if (Result == ETIMEDOUT) goto Exit: the flag is neither read nor written. *)
Wait_timedout(t) ==
    /\ pc[t] = "Wait_timedout"
    /\ Lock(t)
    /\ WaitSatisfied' = [WaitSatisfied EXCEPT ![t] = FALSE]
    /\ Goto(t, "Wait_unlock")
    /\ UNCHANGED <<phase, Signaled, AutoReset, deadline, history>>

Wait_consume(t) ==
    /\ pc[t] = "Wait_consume"
    /\ Signaled' = IF AutoReset THEN FALSE ELSE Signaled
    /\ WaitSatisfied' = [WaitSatisfied EXCEPT ![t] = TRUE]
    /\ acked' = IF setter = NoThread THEN acked ELSE acked \cup {setter}
    /\ Goto(t, "Wait_unlock")
    /\ UNCHANGED <<phase, AutoReset, owner, deadline, setter>>

Wait_unlock(t) ==
    /\ pc[t] = "Wait_unlock"
    /\ Unlock(t)
    /\ Goto(t, "idle")
    /\ deadline' = [deadline EXCEPT ![t] = "never"]
    /\ WaitSatisfied' = [WaitSatisfied EXCEPT ![t] = FALSE]
    /\ UNCHANGED <<phase, Signaled, AutoReset, history>>

CxPlatInternalEventWaitForever(t) ==
    \/ Wait_call(t, "never")
    \/ deadline[t] = "never" /\ (Wait_lock(t) \/ Wait_test(t) \/ Wait_consume(t) \/ Wait_unlock(t))

CxPlatInternalEventWaitWithTimeout(t) ==
    \/ Wait_call(t, "pending")
    \/ deadline[t] # "never" /\ (Wait_lock(t) \/ Wait_test(t) \/ Wait_consume(t) \/ Wait_unlock(t))
    \/ Wait_timedout(t)

-----------------------------------------------------------------------------
Next ==
    \E t \in Threads :
        \/ \E ManualReset, InitialState \in BOOLEAN :
              CxPlatEventInitialize(t, ManualReset, InitialState)
        \/ Uninitialize_cond(t) \/ Uninitialize_mutex(t)
        \/ CxPlatInternalEventSet(t)
        \/ CxPlatInternalEventReset(t)
        \/ CxPlatInternalEventWaitForever(t)
        \/ CxPlatInternalEventWaitWithTimeout(t)
        \/ SpuriousWakeup(t) \/ CondTimeout(t) \/ Expire(t)

Spec == Init /\ [][Next]_vars

-----------------------------------------------------------------------------
(* Properties *)

(* No wake-up is lost: as long as the flag is up, a thread is asleep on the *)
(* condition only if the Set that raised the flag has still to broadcast.   *)
(* The loop of the two waits tests the flag and blocks without letting go   *)
(* of the mutex in between, and Set broadcasts rather than signals.         *)
NoLostWakeup ==
    Signaled => \A t \in Threads :
        pc[t] = "Wait_blocked" => \E s \in Threads : pc[s] = "Set_broadcast"

(* Set has no use of the event left once a wait has returned because of it: *)
(* a thread that waited for the Set may uninitialize the event at once.     *)
(* That is why CxPlatInternalEventSet broadcasts while it holds the mutex.  *)
NoUseAfterUninitialize ==
    phase # "live" => \A t \in Threads : pc[t] \in {"idle", "Uninit"}

(* The steps a thread takes with the mutex in hand. *)
Holding == {"Set_write", "Set_broadcast", "Set_unlock", "Reset_write", "Reset_unlock",
            "Wait_test", "Wait_consume", "Wait_unlock"}

(* What makes the two properties above, and the refinement below,           *)
(* inductive: the mutex is held exactly by the thread inside a critical     *)
(* section of Set, Reset or a wait; a wait that goes on to consume the flag *)
(* finds it still up; only a wait has a deadline, and times out only when   *)
(* it has passed; a Set that a wait could consume unfinished is between its *)
(* write and its unlock, hence none is; and one thread uninitializes.       *)
IInv ==
    /\ TypeOK
    /\ \A t \in Threads : owner = t <=> pc[t] \in Holding
    /\ \A t \in Threads : pc[t] = "Wait_consume" => Signaled
    /\ \A t \in Threads : pc[t] = "Wait_timedout" => deadline[t] = "passed"
    /\ \A t \in Threads : pc[t] \notin WaitPC => deadline[t] = "never"
    /\ \A t \in Threads : setter = t => pc[t] \in {"Set_broadcast", "Set_unlock"}
    /\ acked = {}
    /\ \A s, t \in Threads : pc[s] = "Uninit" => phase = "dying" /\ (pc[t] = "Uninit" => s = t)
    /\ NoLostWakeup
    /\ NoUseAfterUninitialize

(* The calls, seen from outside: each one takes effect in one step (see     *)
(* Event).  A Set is over when the flag is up, a wait when it has consumed  *)
(* the flag or has given up.                                                *)
OpOf(t) ==
    CASE pc[t] \in {"idle", "Uninit"} -> "idle"
      [] pc[t] \in {"Set_lock", "Set_write"} -> "set"
      [] pc[t] \in {"Reset_lock", "Reset_write"} -> "reset"
      [] pc[t] \in {"Set_broadcast", "Set_unlock", "Reset_unlock"} -> "done"
      [] pc[t] = "Wait_unlock" -> IF WaitSatisfied[t] THEN "satisfied" ELSE "timedout"
      [] OTHER -> "wait"

E == INSTANCE Event WITH exists <- (phase = "live"), op <- [t \in Threads |-> OpOf(t)]

(* CXPLAT_EVENT on POSIX is an event.  In particular one Set of an          *)
(* auto-reset event lets exactly one wait through although the broadcast    *)
(* wakes all of them, a wait that times out leaves the flag for the others  *)
(* even when the Set came between the timeout and the mutex, and no wait    *)
(* gives up before its deadline.                                            *)
ImplementsEvent == E!Spec
=============================================================================
