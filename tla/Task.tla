-------------------------------- MODULE Task --------------------------------
(***************************************************************************)
(* What a user of CxPlatAsyncT (inc/cxplat.hpp) may expect of it: a task   *)
(* is started or refused when the object is constructed, is reported done  *)
(* only after its callback has ended, and the object goes away only then.  *)
(* A task that runs although its construction has failed is lost to the    *)
(* user, whatever becomes of it.                                           *)
(***************************************************************************)
CONSTANT Asyncs

VARIABLES task,       \* what has become of each task
          reported    \* the tasks a wait has reported as done

vars == <<task, reported>>

Init ==
    /\ task = [a \in Asyncs |-> "absent"]
    /\ reported = {}

Step(a, from, to) ==
    /\ task[a] = from
    /\ task' = [task EXCEPT ![a] = to]
    /\ UNCHANGED reported

Start(a) == Step(a, "absent", "running")

Refuse(a) == Step(a, "absent", "refused")

Finish(a) == Step(a, "running", "finished")

Lose(a) == Step(a, "running", "lost") \/ Step(a, "finished", "lost")

Report(a) ==
    /\ task[a] = "finished"
    /\ reported' = reported \cup {a}
    /\ UNCHANGED task

Drop(a) == Step(a, "finished", "gone") \/ Step(a, "refused", "gone")

Next == \E a \in Asyncs : Start(a) \/ Refuse(a) \/ Finish(a) \/ Lose(a) \/ Report(a) \/ Drop(a)

Spec == Init /\ [][Next]_vars
=============================================================================
