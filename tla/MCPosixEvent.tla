---------------------------- MODULE MCPosixEvent ----------------------------
(***************************************************************************)
(* PosixEvent with fair threads.  Each thread makes at most MaxCalls calls *)
(* and there are at most MaxSpurious spurious wakeups: with finitely many  *)
(* of both, weak fairness of the threads is enough and the mutex need not  *)
(* be fair, which pthread mutexes are not.                                 *)
(***************************************************************************)
EXTENDS PosixEvent

CONSTANTS t1, t2, t3, MaxCalls, MaxSpurious

VARIABLES calls,     \* calls[t]: how many calls t has made
          spurious   \* how many spurious wakeups there were

liveVars == <<vars, calls, spurious>>

LiveInit ==
    /\ Init
    /\ calls = [t \in Threads |-> 0]
    /\ spurious = 0

(* Thread t calls one of the four functions. *)
Call(t) ==
    /\ calls[t] < MaxCalls
    /\ \/ Set_call(t)
       \/ Reset_call(t)
       \/ \E d \in {"never", "pending"} : Wait_call(t, d)
    /\ calls' = [calls EXCEPT ![t] = @ + 1]
    /\ UNCHANGED spurious

(* Thread t goes on with the call it is in. *)
Step(t) ==
    /\ \/ Set_lock(t) \/ Set_write(t) \/ Set_broadcast(t) \/ Set_unlock(t)
       \/ Reset_lock(t) \/ Reset_write(t) \/ Reset_unlock(t)
       \/ Wait_lock(t) \/ Wait_test(t) \/ Wait_timedout(t) \/ Wait_consume(t) \/ Wait_unlock(t)
       \/ CondTimeout(t)
       \/ Uninitialize_mutex(t)
    /\ UNCHANGED <<calls, spurious>>

Tick(t) == Expire(t) /\ UNCHANGED <<calls, spurious>>

LiveNext ==
    \E t \in Threads :
        \/ /\ \/ \E ManualReset, InitialState \in BOOLEAN :
                    CxPlatEventInitialize(t, ManualReset, InitialState)
              \/ Uninitialize_cond(t)
           /\ UNCHANGED <<calls, spurious>>
        \/ Call(t)
        \/ Step(t)
        \/ Tick(t)
        \/ /\ spurious < MaxSpurious
           /\ SpuriousWakeup(t)
           /\ spurious' = spurious + 1
           /\ UNCHANGED calls

(* A thread that can go on is scheduled, and time passes.  Nobody has to   *)
(* call anything, and no spurious wakeup has to happen.                    *)
LiveSpec ==
    /\ LiveInit
    /\ [][LiveNext]_liveVars
    /\ \A t \in Threads : WF_liveVars(Step(t)) /\ WF_liveVars(Tick(t))

(* While the flag is up no thread stays in a wait: it returns, or the flag *)
(* is taken down (by a Reset, or by the wait that an auto-reset event let  *)
(* through).  CxPlatInternalEventSet wakes every waiter there is.          *)
SignaledWaitEnds ==
    \A t \in Threads :
        (Signaled /\ pc[t] \in WaitPC) ~> (~Signaled \/ pc[t] = "idle")

(* CxPlatInternalEventWaitWithTimeout returns, whatever the other threads  *)
(* do to the flag: its deadline is absolute and is not renewed by wakeups. *)
TimedWaitReturns ==
    \A t \in Threads : (deadline[t] # "never") ~> (pc[t] = "idle")

(* CxPlatInternalEventSet and CxPlatInternalEventReset return: a blocked   *)
(* wait does not keep the mutex.                                           *)
SetAndResetReturn ==
    \A t \in Threads : (pc[t] \in SetPC \cup ResetPC) ~> (pc[t] = "idle")
=============================================================================
