---------------------------- MODULE MCInterlocked ----------------------------
(***************************************************************************)
(* The interlocked operations for TLC, in the two uses there are of them:  *)
(* the threads of a protocol, and the callers of CxPlatAlloc, whose        *)
(* counter is incremented by InterlockedIncrement.  A behaviour has one of *)
(* the two, chosen at its start, and leaves the other as it began.  The    *)
(* threads, which are also the objects and the bits, are interchangeable,  *)
(* and so are the callers.                                                 *)
(***************************************************************************)
EXTENDS Interlocked, FailureInjection, TLC

VARIABLE use   \* "protocol" or "CxPlatAlloc"

\* None, one in one, one in two, every second and every third.
MCDenominators == {0, 1, 2, -2, -3}

Symmetry == Permutations(Threads) \cup Permutations(Callers)

\* The protocol that has one initial state stands for those that do not run.
MCInit ==
    /\ Init /\ AllocInit
    /\ use \in {"protocol", "CxPlatAlloc"}
    /\ use = "CxPlatAlloc" => protocol = "flag"

InProtocol == use = "protocol" /\ UNCHANGED <<use, allocVars>>

InAlloc == use = "CxPlatAlloc" /\ UNCHANGED <<use, vars>>

\* Next and AllocNext, action by action.
ProtocolNext ==
    \E t \in Threads :
       \/ InProtocol /\ AddReference(t)
       \/ InProtocol /\ DropReference(t)
       \/ InProtocol /\ SetBit(t)
       \/ InProtocol /\ ClearBit(t)
       \/ InProtocol /\ Enter(t)
       \/ InProtocol /\ Leave(t)
       \/ InProtocol /\ Put(t)
       \/ InProtocol /\ Take(t)
       \/ InProtocol /\ \E n \in Addends : Draw(t, n)
       \/ InProtocol /\ ReadOld(t)
       \/ InProtocol /\ \E new \in Values(width) : Replace(t, new)

CallersNext ==
    \E t \in Callers :
       \/ InAlloc /\ Alloc_call(t)
       \/ InAlloc /\ Alloc_random(t)
       \/ InAlloc /\ Alloc_negative(t)
       \/ InAlloc /\ InterlockedIncrement(t)
       \/ InAlloc /\ Alloc_remainder(t)
       \/ InAlloc /\ Set_counter(t)
       \/ InAlloc /\ \E Value \in Denominators : Set_denominator(t, Value)

MCSpec == MCInit /\ [][ProtocolNext \/ CallersNext]_<<use, vars, allocVars>>
=============================================================================
