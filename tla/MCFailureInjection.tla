-------------------------- MODULE MCFailureInjection --------------------------
(* FailureInjection as the test of the failure injection uses it: one      *)
(* thread, FailureIter = 6, and ten allocations.                           *)
EXTENDS FailureInjection

TestDenominators == {0, -6}
=============================================================================
