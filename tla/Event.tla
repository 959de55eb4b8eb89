------------------------------- MODULE Event -------------------------------
(***************************************************************************)
(* What a CXPLAT_EVENT promises the threads that share it, whatever it is  *)
(* built from.  An event is a flag, Signaled.  Every call on it takes      *)
(* effect at ONE instant between its invocation and its return:            *)
(*                                                                         *)
(*   CxPlatEventSet              raises the flag                           *)
(*   CxPlatEventReset            lowers it                                 *)
(*   CxPlatEventWaitForever      needs the flag raised, and takes it down  *)
(*                               again if the event is auto-reset          *)
(*   CxPlatEventWaitWithTimeout  the same, or gives up, touching nothing,  *)
(*                               once its deadline has passed              *)
(*                                                                         *)
(* and the event is uninitialized only when nobody is inside a call.       *)
(***************************************************************************)
CONSTANT Threads

VARIABLES exists,     \* between CxPlatEventInitialize and ...Uninitialize
          Signaled,   \* the flag
          AutoReset,  \* the kind of event, fixed by CxPlatEventInitialize
          op,         \* op[t]: the call thread t is in, and how far it is
          deadline    \* deadline[t]: the deadline of t's wait, if any

eventVars == <<exists, Signaled, AutoReset, op, deadline>>

Calls == {"set", "reset", "wait"}
Effects == {"done", "satisfied", "timedout"}

Init ==
    /\ exists = FALSE
    /\ Signaled \in BOOLEAN
    /\ AutoReset \in BOOLEAN
    /\ op = [t \in Threads |-> "idle"]
    /\ deadline = [t \in Threads |-> "never"]

Goto(t, where) == op' = [op EXCEPT ![t] = where]

Quiet == \A t \in Threads : op[t] = "idle"

(* CxPlatEventInitialize, for any kind of event and any initial state. *)
Initialize ==
    /\ ~exists /\ Quiet
    /\ exists' = TRUE
    /\ Signaled' \in BOOLEAN
    /\ AutoReset' \in BOOLEAN
    /\ UNCHANGED <<op, deadline>>

Uninitialize ==
    /\ exists /\ Quiet
    /\ exists' = FALSE
    /\ UNCHANGED <<Signaled, AutoReset, op, deadline>>

(* A thread calls Set, Reset, WaitForever ("never") or WaitWithTimeout. *)
Invoke(t, call) ==
    /\ exists /\ op[t] = "idle"
    /\ Goto(t, call)
    /\ \/ call = "wait" /\ \E d \in {"never", "pending"} : deadline' = [deadline EXCEPT ![t] = d]
       \/ call # "wait" /\ UNCHANGED deadline
    /\ UNCHANGED <<exists, Signaled, AutoReset>>

Set(t) ==
    /\ op[t] = "set"
    /\ Signaled' = TRUE
    /\ Goto(t, "done")
    /\ UNCHANGED <<exists, AutoReset, deadline>>

Reset(t) ==
    /\ op[t] = "reset"
    /\ Signaled' = FALSE
    /\ Goto(t, "done")
    /\ UNCHANGED <<exists, AutoReset, deadline>>

Satisfy(t) ==
    /\ op[t] = "wait"
    /\ Signaled
    /\ Signaled' = ~AutoReset
    /\ Goto(t, "satisfied")
    /\ UNCHANGED <<exists, AutoReset, deadline>>

Expire(t) ==
    /\ op[t] = "wait"
    /\ deadline[t] = "pending"
    /\ deadline' = [deadline EXCEPT ![t] = "passed"]
    /\ UNCHANGED <<exists, Signaled, AutoReset, op>>

GiveUp(t) ==
    /\ op[t] = "wait"
    /\ deadline[t] = "passed"
    /\ Goto(t, "timedout")
    /\ UNCHANGED <<exists, Signaled, AutoReset, deadline>>

Return(t) ==
    /\ op[t] \in Effects
    /\ Goto(t, "idle")
    /\ deadline' = [deadline EXCEPT ![t] = "never"]
    /\ UNCHANGED <<exists, Signaled, AutoReset>>

Next ==
    \/ Initialize
    \/ Uninitialize
    \/ \E t \in Threads :
          \/ \E call \in Calls : Invoke(t, call)
          \/ Set(t) \/ Reset(t) \/ Satisfy(t)
          \/ Expire(t) \/ GiveUp(t) \/ Return(t)

Spec == Init /\ [][Next]_eventVars
=============================================================================
