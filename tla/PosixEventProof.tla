-------------------------- MODULE PosixEventProof --------------------------
(***************************************************************************)
(* Proofs about CXPLAT_EVENT on POSIX, for any set of threads.             *)
(***************************************************************************)
EXTENDS PosixEvent, TLAPS

(* An event that is not initialized yet satisfies IInv: no thread is in a  *)
(* call of it.                                                             *)
LEMMA InitIInv == Init => IInv
  BY NoThreadAssumption DEF Init, IInv, TypeOK, Holding, NoLostWakeup, NoUseAfterUninitialize

(* Every step of Initialize, Uninitialize, Set, Reset and the two waits,   *)
(* and every wakeup, keeps IInv: one case per action.                      *)
LEMMA NextIInv == IInv /\ [Next]_vars => IInv'
<1> SUFFICES ASSUME IInv, [Next]_vars PROVE IInv'
  OBVIOUS
<1> USE NoThreadAssumption DEF IInv, TypeOK, Holding, NoLostWakeup, NoUseAfterUninitialize,
        SetPC, ResetPC, WaitPC, Goto, Lock, Unlock, history
<1>1. ASSUME NEW t \in Threads, NEW m \in BOOLEAN, NEW i \in BOOLEAN,
             CxPlatEventInitialize(t, m, i)
      PROVE  IInv'
  BY <1>1 DEF CxPlatEventInitialize
<1>2. ASSUME NEW t \in Threads, Uninitialize_cond(t) PROVE IInv'
  BY <1>2 DEF Uninitialize_cond
<1>3. ASSUME NEW t \in Threads, Uninitialize_mutex(t) PROVE IInv'
  BY <1>3 DEF Uninitialize_mutex
<1>4. ASSUME NEW t \in Threads, Set_call(t) PROVE IInv'
  BY <1>4 DEF Set_call
<1>5. ASSUME NEW t \in Threads, Set_lock(t) PROVE IInv'
  BY <1>5 DEF Set_lock
<1>6. ASSUME NEW t \in Threads, Set_write(t) PROVE IInv'
  BY <1>6 DEF Set_write
<1>7. ASSUME NEW t \in Threads, Set_broadcast(t) PROVE IInv'
  BY <1>7 DEF Set_broadcast, CondBroadcast
<1>8. ASSUME NEW t \in Threads, Set_unlock(t) PROVE IInv'
  BY <1>8 DEF Set_unlock, Set_return
<1>9. ASSUME NEW t \in Threads, Reset_call(t) PROVE IInv'
  BY <1>9 DEF Reset_call
<1>10. ASSUME NEW t \in Threads, Reset_lock(t) PROVE IInv'
  BY <1>10 DEF Reset_lock
<1>11. ASSUME NEW t \in Threads, Reset_write(t) PROVE IInv'
  BY <1>11, ZenonT(40) DEF Reset_write
<1>12. ASSUME NEW t \in Threads, Reset_unlock(t) PROVE IInv'
  BY <1>12 DEF Reset_unlock
<1>13. ASSUME NEW t \in Threads, NEW d \in {"never", "pending"}, Wait_call(t, d) PROVE IInv'
  BY <1>13 DEF Wait_call
<1>14. ASSUME NEW t \in Threads, Wait_lock(t) PROVE IInv'
  BY <1>14 DEF Wait_lock
<1>15. ASSUME NEW t \in Threads, Wait_test(t) PROVE IInv'
  BY <1>15 DEF Wait_test, CondWait
<1>16. ASSUME NEW t \in Threads, Wait_timedout(t) PROVE IInv'
  BY <1>16 DEF Wait_timedout
<1>17. ASSUME NEW t \in Threads, Wait_consume(t) PROVE IInv'
  <2>1. setter = NoThread /\ acked' = {}
    BY <1>17 DEF Wait_consume
  <2>2. TypeOK'
    BY <1>17, <2>1 DEF Wait_consume
  <2>3. \A s \in Threads : pc'[s] = IF s = t THEN "Wait_unlock" ELSE pc[s]
    BY <1>17 DEF Wait_consume
  <2>4. owner = t /\ owner' = t /\ phase' = phase /\ deadline' = deadline /\ setter' = setter
    BY <1>17 DEF Wait_consume
  <2>5. \A s \in Threads : owner' = s <=> pc'[s] \in Holding
    BY <2>3, <2>4
  <2>6. \A s \in Threads : pc'[s] = "Wait_consume" => Signaled'
    BY <2>3, <2>4
  <2>7. NoLostWakeup'
    BY <1>17, <2>3, <2>4 DEF Wait_consume
  <2>8. NoUseAfterUninitialize'
    BY <1>17, <2>3, <2>4 DEF Wait_consume
  <2>9. /\ \A s \in Threads : pc'[s] = "Wait_timedout" => deadline'[s] = "passed"
        /\ \A s \in Threads : pc'[s] \notin WaitPC => deadline'[s] = "never"
        /\ \A s \in Threads : setter' = s => pc'[s] \in {"Set_broadcast", "Set_unlock"}
        /\ \A r, s \in Threads :
              pc'[r] = "Uninit" => phase' = "dying" /\ (pc'[s] = "Uninit" => r = s)
    BY <1>17, <2>1, <2>3, <2>4 DEF Wait_consume
  <2> HIDE DEF TypeOK, NoLostWakeup, NoUseAfterUninitialize, Holding, WaitPC
  <2> QED
    BY <2>1, <2>2, <2>5, <2>6, <2>7, <2>8, <2>9
<1>18. ASSUME NEW t \in Threads, Wait_unlock(t) PROVE IInv'
  BY <1>18 DEF Wait_unlock
<1>19. ASSUME NEW t \in Threads, SpuriousWakeup(t) PROVE IInv'
  BY <1>19 DEF SpuriousWakeup
<1>20. ASSUME NEW t \in Threads, CondTimeout(t) PROVE IInv'
  BY <1>20 DEF CondTimeout
<1>21. ASSUME NEW t \in Threads, Expire(t) PROVE IInv'
  BY <1>21 DEF Expire
<1>22. CASE UNCHANGED vars
  BY <1>22 DEF vars
<1> HIDE DEF IInv
<1> QED
  BY <1>1, <1>2, <1>3, <1>4, <1>5, <1>6, <1>7, <1>8, <1>9, <1>10, <1>11, <1>12, <1>13,
     <1>14, <1>15, <1>16, <1>17, <1>18, <1>19, <1>20, <1>21, <1>22
     DEF Next, CxPlatInternalEventSet, CxPlatInternalEventReset,
         CxPlatInternalEventWaitForever, CxPlatInternalEventWaitWithTimeout

(* The mutex discipline of the event and what follows from it, IInv, hold  *)
(* however the calls of any number of threads interleave.                  *)
THEOREM Invariance == Spec => []IInv
  BY InitIInv, NextIInv, PTL DEF Spec

(* Every variable of the event keeps its type. *)
THEOREM TypeCorrect == Spec => []TypeOK
<1>1. IInv => TypeOK
  BY DEF IInv
<1> QED
  BY <1>1, Invariance, PTL

(* No thread sleeps on the condition while the flag is up, except while a  *)
(* Set is about to broadcast.                                              *)
THEOREM WakeupsAreNotLost == Spec => []NoLostWakeup
<1>1. IInv => NoLostWakeup
  BY DEF IInv
<1> QED
  BY <1>1, Invariance, PTL

(* CxPlatInternalEventSet makes no use of an event that the thread it woke *)
(* up has uninitialized.                                                   *)
THEOREM UninitializeIsSafe == Spec => []NoUseAfterUninitialize
<1>1. IInv => NoUseAfterUninitialize
  BY DEF IInv
<1> QED
  BY <1>1, Invariance, PTL

-----------------------------------------------------------------------------
(* The calls of all threads, as Event sees them. *)
opBar == [t \in Threads |-> OpOf(t)]

(* A step of thread t changes t's place in its call, as seen by Event, and  *)
(* nobody else's.                                                           *)
LEMMA OpStep ==
  ASSUME NEW t \in Threads,
         \A s \in Threads \ {t} : pc'[s] = pc[s] /\ WaitSatisfied'[s] = WaitSatisfied[s]
  PROVE  opBar' = [opBar EXCEPT ![t] = OpOf(t)']
<1>1. ASSUME NEW s \in Threads, s # t PROVE OpOf(s)' = OpOf(s)
  BY <1>1 DEF OpOf
<1> QED
  BY <1>1 DEF opBar

(* An event that is not initialized maps to one that does not exist.       *)
LEMMA InitRefines == Init => E!Init
  BY DEF Init, E!Init, OpOf

(* Every step of the code is a step of Event or invisible to its callers:  *)
(* Set takes effect at its write, a wait where it consumes the flag or     *)
(* finds that it has timed out.                                            *)
LEMMA NextRefines == IInv /\ IInv' /\ [Next]_vars => [E!Next]_(E!eventVars)
<1> SUFFICES ASSUME IInv, IInv', [Next]_vars PROVE [E!Next]_(E!eventVars)
  OBVIOUS
<1> DEFINE Stutter == UNCHANGED <<phase = "live", Signaled, AutoReset, opBar, deadline>>
<1> USE NoThreadAssumption DEF IInv, TypeOK, Holding, NoUseAfterUninitialize, SetPC, ResetPC, WaitPC, Goto, Lock, Unlock, history
<1>1. ASSUME NEW t \in Threads, NEW m \in BOOLEAN, NEW i \in BOOLEAN,
             CxPlatEventInitialize(t, m, i)
      PROVE  E!Initialize
  BY <1>1 DEF OpOf, opBar, CxPlatEventInitialize, E!Initialize, E!Quiet
<1>2. ASSUME NEW t \in Threads, Uninitialize_cond(t) PROVE E!Uninitialize
  BY <1>2 DEF OpOf, opBar, Uninitialize_cond, E!Uninitialize, E!Quiet
<1>3. ASSUME NEW t \in Threads, Uninitialize_mutex(t) PROVE Stutter
  BY <1>3 DEF OpOf, opBar, Uninitialize_mutex
<1>4. ASSUME NEW t \in Threads, Set_call(t) PROVE E!Invoke(t, "set")
  <2>1. OpOf(t) = "idle" /\ OpOf(t)' = "set"
    BY <1>4 DEF Set_call, OpOf
  <2>2. opBar' = [opBar EXCEPT ![t] = "set"]
    BY <1>4, <2>1, OpStep DEF Set_call
  <2> QED
    BY <1>4, <2>1, <2>2 DEF opBar, Set_call, E!Invoke, E!Goto
<1>5. ASSUME NEW t \in Threads, Set_lock(t) PROVE Stutter
  BY <1>5 DEF OpOf, opBar, Set_lock
<1>6. ASSUME NEW t \in Threads, Set_write(t) PROVE E!Set(t)
  <2>1. OpOf(t) = "set" /\ OpOf(t)' = "done"
    BY <1>6 DEF Set_write, OpOf
  <2>2. opBar' = [opBar EXCEPT ![t] = "done"]
    BY <1>6, <2>1, OpStep DEF Set_write
  <2> QED
    BY <1>6, <2>1, <2>2 DEF opBar, Set_write, E!Set, E!Goto
<1>7. ASSUME NEW t \in Threads, Set_broadcast(t) PROVE Stutter
  BY <1>7 DEF OpOf, opBar, Set_broadcast, CondBroadcast
<1>8. ASSUME NEW t \in Threads, Set_unlock(t) PROVE E!Return(t)
  <2>1. OpOf(t) = "done" /\ OpOf(t)' = "idle"
    BY <1>8 DEF Set_unlock, Set_return, OpOf
  <2>2. opBar' = [opBar EXCEPT ![t] = "idle"]
    BY <1>8, <2>1, OpStep DEF Set_unlock, Set_return
  <2> QED
    BY <1>8, <2>1, <2>2 DEF opBar, Set_unlock, Set_return, E!Return, E!Goto, E!Effects
<1>9. ASSUME NEW t \in Threads, Reset_call(t) PROVE E!Invoke(t, "reset")
  <2>1. OpOf(t) = "idle" /\ OpOf(t)' = "reset"
    BY <1>9 DEF Reset_call, OpOf
  <2>2. opBar' = [opBar EXCEPT ![t] = "reset"]
    BY <1>9, <2>1, OpStep DEF Reset_call
  <2> QED
    BY <1>9, <2>1, <2>2 DEF opBar, Reset_call, E!Invoke, E!Goto
<1>10. ASSUME NEW t \in Threads, Reset_lock(t) PROVE Stutter
  BY <1>10 DEF OpOf, opBar, Reset_lock
<1>11. ASSUME NEW t \in Threads, Reset_write(t) PROVE E!Reset(t)
  <2>1. OpOf(t) = "reset" /\ OpOf(t)' = "done"
    BY <1>11 DEF Reset_write, OpOf
  <2>2. opBar' = [opBar EXCEPT ![t] = "done"]
    BY <1>11, <2>1, OpStep DEF Reset_write
  <2> QED
    BY <1>11, <2>1, <2>2 DEF opBar, Reset_write, E!Reset, E!Goto
<1>12. ASSUME NEW t \in Threads, Reset_unlock(t) PROVE E!Return(t)
  <2>1. OpOf(t) = "done" /\ OpOf(t)' = "idle"
    BY <1>12 DEF Reset_unlock, OpOf
  <2>2. opBar' = [opBar EXCEPT ![t] = "idle"]
    BY <1>12, <2>1, OpStep DEF Reset_unlock
  <2> QED
    BY <1>12, <2>1, <2>2 DEF opBar, Reset_unlock, E!Return, E!Goto, E!Effects
<1>13. ASSUME NEW t \in Threads, NEW d \in {"never", "pending"}, Wait_call(t, d)
       PROVE  E!Invoke(t, "wait")
  <2>1. OpOf(t) = "idle" /\ OpOf(t)' = "wait"
    BY <1>13 DEF Wait_call, OpOf
  <2>2. opBar' = [opBar EXCEPT ![t] = "wait"]
    BY <1>13, <2>1, OpStep DEF Wait_call
  <2> QED
    BY <1>13, <2>1, <2>2 DEF opBar, Wait_call, E!Invoke, E!Goto
<1>14. ASSUME NEW t \in Threads, Wait_lock(t) PROVE Stutter
  BY <1>14 DEF OpOf, opBar, Wait_lock
<1>15. ASSUME NEW t \in Threads, Wait_test(t) PROVE Stutter
  BY <1>15 DEF OpOf, opBar, Wait_test, CondWait
<1>16. ASSUME NEW t \in Threads, Wait_timedout(t) PROVE E!GiveUp(t)
  <2>1. OpOf(t) = "wait" /\ OpOf(t)' = "timedout"
    BY <1>16 DEF Wait_timedout, OpOf
  <2>2. \A s \in Threads \ {t} : pc'[s] = pc[s] /\ WaitSatisfied'[s] = WaitSatisfied[s]
    BY <1>16 DEF Wait_timedout
  <2>3. opBar' = [opBar EXCEPT ![t] = "timedout"]
    BY <2>1, <2>2, OpStep
  <2> QED
    BY <1>16, <2>1, <2>3 DEF opBar, Wait_timedout, E!GiveUp, E!Goto
<1>17. ASSUME NEW t \in Threads, Wait_consume(t) PROVE E!Satisfy(t)
  <2>1. OpOf(t) = "wait" /\ OpOf(t)' = "satisfied"
    BY <1>17 DEF Wait_consume, OpOf
  <2>2. \A s \in Threads \ {t} : pc'[s] = pc[s] /\ WaitSatisfied'[s] = WaitSatisfied[s]
    BY <1>17 DEF Wait_consume
  <2>3. opBar' = [opBar EXCEPT ![t] = "satisfied"]
    BY <2>1, <2>2, OpStep
  <2> QED
    BY <1>17, <2>1, <2>3 DEF opBar, Wait_consume, E!Satisfy, E!Goto
<1>18. ASSUME NEW t \in Threads, Wait_unlock(t) PROVE E!Return(t)
  <2>1. OpOf(t) \in E!Effects /\ OpOf(t)' = "idle"
    BY <1>18 DEF Wait_unlock, OpOf, E!Effects
  <2>2. \A s \in Threads \ {t} : pc'[s] = pc[s] /\ WaitSatisfied'[s] = WaitSatisfied[s]
    BY <1>18 DEF Wait_unlock
  <2>3. opBar' = [opBar EXCEPT ![t] = "idle"]
    BY <2>1, <2>2, OpStep
  <2> QED
    BY <1>18, <2>1, <2>3 DEF opBar, Wait_unlock, E!Return, E!Goto, E!Effects
<1>19. ASSUME NEW t \in Threads, SpuriousWakeup(t) PROVE Stutter
  BY <1>19 DEF OpOf, opBar, SpuriousWakeup
<1>20. ASSUME NEW t \in Threads, CondTimeout(t) PROVE Stutter
  BY <1>20 DEF OpOf, opBar, CondTimeout
<1>21. ASSUME NEW t \in Threads, Expire(t) PROVE E!Expire(t)
  BY <1>21 DEF OpOf, opBar, Expire, E!Expire
<1>22. CASE UNCHANGED vars
  <2>1. Stutter
    BY <1>22 DEF vars, OpOf, opBar
  <2> QED
    BY <2>1 DEF E!eventVars, opBar
<1> HIDE DEF IInv
<1> QED
  BY <1>1, <1>2, <1>3, <1>4, <1>5, <1>6, <1>7, <1>8, <1>9, <1>10, <1>11, <1>12, <1>13,
     <1>14, <1>15, <1>16, <1>17, <1>18, <1>19, <1>20, <1>21, <1>22
     DEF Next, CxPlatInternalEventSet, CxPlatInternalEventReset,
         CxPlatInternalEventWaitForever, CxPlatInternalEventWaitWithTimeout,
         E!Next, E!eventVars, E!Calls, opBar

(* CXPLAT_EVENT on POSIX implements Event. *)
THEOREM Refinement == Spec => ImplementsEvent
  BY InitRefines, NextRefines, Invariance, PTL DEF Spec, ImplementsEvent, E!Spec

-----------------------------------------------------------------------------
(* How many steps the thread that holds the mutex is from its unlock.      *)
Steps(where) ==
    IF where \in {"Set_write", "Wait_test"} THEN 3
    ELSE IF where \in {"Set_broadcast", "Reset_write", "Wait_consume"} THEN 2 ELSE 1

(* The mutex of an event is soon released, whatever the other threads do:  *)
(* no step of theirs moves its holder, and the holder's own steps, none of *)
(* which blocks, lead from the lock to the unlock in Set, Reset and the    *)
(* waits without a way back.  A wait that has to sleep gives the mutex up. *)
MutexIsReleased ==
    [][\A t \in Threads : owner = t =>
          \/ owner' = t /\ pc'[t] = pc[t]
          \/ owner' = t /\ pc'[t] \in Holding /\ Steps(pc'[t]) < Steps(pc[t])
          \/ owner' = NoThread /\ pc'[t] \notin Holding]_vars

(* The step behind MutexIsReleased.                                        *)
LEMMA HolderStep ==
  ASSUME IInv, Next, NEW t \in Threads, owner = t
  PROVE  \/ owner' = t /\ pc'[t] = pc[t]
         \/ owner' = t /\ pc'[t] \in Holding /\ Steps(pc'[t]) < Steps(pc[t])
         \/ owner' = NoThread /\ pc'[t] \notin Holding
<1> USE NoThreadAssumption
<1>1. pc \in [Threads -> {"idle", "Uninit"} \cup SetPC \cup ResetPC \cup WaitPC]
  BY DEF IInv, TypeOK
<1>2. pc[t] \in Holding /\ \A s \in Threads \ {t} : pc[s] \notin Holding
  BY DEF IInv
<1>3. phase = "live"
  BY <1>2 DEF IInv, NoUseAfterUninitialize, Holding
<1>4. PICK s \in Threads :
        \/ \E ManualReset, InitialState \in BOOLEAN :
              CxPlatEventInitialize(s, ManualReset, InitialState)
        \/ Uninitialize_cond(s) \/ Uninitialize_mutex(s)
        \/ CxPlatInternalEventSet(s) \/ CxPlatInternalEventReset(s)
        \/ CxPlatInternalEventWaitForever(s) \/ CxPlatInternalEventWaitWithTimeout(s)
        \/ SpuriousWakeup(s) \/ CondTimeout(s) \/ Expire(s)
  BY DEF Next
<1>5. ~\E ManualReset, InitialState \in BOOLEAN :
          CxPlatEventInitialize(s, ManualReset, InitialState)
  BY <1>3 DEF CxPlatEventInitialize
<1>6. CASE s = t
  <2>1. \/ Set_write(s) \/ Set_broadcast(s) \/ Set_unlock(s) \/ Reset_write(s) \/ Reset_unlock(s)
        \/ Wait_test(s) \/ Wait_consume(s) \/ Wait_unlock(s) \/ Expire(s)
    BY <1>2, <1>4, <1>5, <1>6
       DEF Holding, Uninitialize_cond, Uninitialize_mutex, CxPlatInternalEventSet, CxPlatInternalEventReset,
           CxPlatInternalEventWaitForever, CxPlatInternalEventWaitWithTimeout, Set_call, Set_lock,
           Reset_call, Reset_lock, Wait_call, Wait_lock, Wait_timedout, SpuriousWakeup, CondTimeout
  <2>2. CASE Set_write(s) \/ Set_broadcast(s) \/ Set_unlock(s)
    BY <1>1, <1>6, <2>2
       DEF Set_write, Set_broadcast, Set_unlock, Set_return, CondBroadcast, Unlock, Goto, Holding, Steps
  <2>3. CASE Reset_write(s) \/ Reset_unlock(s)
    BY <1>1, <1>6, <2>3 DEF Reset_write, Reset_unlock, Unlock, Goto, Holding, Steps
  <2>4. CASE Wait_test(s) \/ Wait_consume(s) \/ Wait_unlock(s)
    <3>1. CASE Wait_test(s)
      BY <1>1, <1>6, <3>1 DEF Wait_test, CondWait, Unlock, Goto, Holding, Steps
    <3>2. CASE Wait_consume(s)
      BY <1>1, <1>6, <3>2 DEF Wait_consume, Goto, Holding, Steps
    <3>3. CASE Wait_unlock(s)
      BY <1>1, <1>6, <3>3 DEF Wait_unlock, Unlock, Goto, Holding
    <3> QED
      BY <2>4, <3>1, <3>2, <3>3
  <2>5. CASE Expire(s)
    BY <2>5 DEF Expire
  <2> QED
    BY <2>1, <2>2, <2>3, <2>4, <2>5
<1>7. CASE s # t
  <2>1. pc[s] \notin Holding /\ owner # NoThread
    BY <1>2, <1>7
  <2>2. \/ Uninitialize_cond(s) \/ Uninitialize_mutex(s) \/ Set_call(s) \/ Reset_call(s)
        \/ (\E d \in {"never", "pending"} : Wait_call(s, d))
        \/ SpuriousWakeup(s) \/ CondTimeout(s) \/ Expire(s)
    BY <1>4, <1>5, <2>1
       DEF Holding, Lock, CxPlatInternalEventSet, CxPlatInternalEventReset,
           CxPlatInternalEventWaitForever, CxPlatInternalEventWaitWithTimeout, Set_lock, Set_write,
           Set_broadcast, Set_unlock, Reset_lock, Reset_write, Reset_unlock, Wait_lock, Wait_test,
           Wait_consume, Wait_unlock, Wait_timedout
  <2>3. owner' = owner /\ pc'[t] = pc[t]
    BY <1>1, <1>7, <2>2
       DEF Uninitialize_cond, Uninitialize_mutex, Set_call, Reset_call, Wait_call, SpuriousWakeup,
           CondTimeout, Expire, Goto
  <2> QED
    BY <2>3
<1> QED
  BY <1>6, <1>7

(* No thread keeps the mutex of an event for more than three steps of its  *)
(* own: the part of SetAndResetReturn and TimedWaitReturns that is safety. *)
THEOREM NobodyKeepsTheMutex == Spec => MutexIsReleased
<1>1. IInv /\ [Next]_vars =>
        [\A t \in Threads : owner = t =>
            \/ owner' = t /\ pc'[t] = pc[t]
            \/ owner' = t /\ pc'[t] \in Holding /\ Steps(pc'[t]) < Steps(pc[t])
            \/ owner' = NoThread /\ pc'[t] \notin Holding]_vars
  BY HolderStep
<1> QED
  BY <1>1, Invariance, PTL DEF Spec, MutexIsReleased
=============================================================================
