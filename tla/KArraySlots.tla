----------------------------- MODULE KArraySlots -----------------------------
(***************************************************************************)
(* The buffer of a KArray (inc/karray.h), and what its callers expect of   *)
(* moveElements.                                                           *)
(*                                                                         *)
(* A slot of the buffer is raw storage, a live object, or a live object    *)
(* whose value has been moved away.  C++ allows a constructor on raw       *)
(* storage only, a destructor on a live object only, and a move from an    *)
(* object that still has its value only.                                   *)
(***************************************************************************)
EXTENDS Integers

CONSTANTS Values,     \* what an object may hold
          Raw,        \* a slot without an object
          Moved       \* an object that was moved from

ASSUME SlotAssumption == Raw \notin Values /\ Moved \notin Values /\ Raw # Moved

(* The calls moveElements(from, to, number) is made for, on a buffer c     *)
(* that holds size slots: the tail of the array's n elements moves, by at  *)
(* most its own length, up to open a gap (insertAt), or down over a gap    *)
(* whose objects were destroyed before (eraseAt).                          *)
Movable(c, size, n, from, to, number) ==
    LET Slots == 0 .. size - 1
        delta == IF from < to THEN to - from ELSE from - to
    IN  /\ n \in 0 .. size
        /\ from \in 0 .. n
        /\ to \in 0 .. size
        /\ number = n - from
        /\ from # to
        /\ number >= delta
        /\ to + number <= size
        /\ c \in [Slots -> Values \cup {Raw}]
        /\ \A k \in Slots : c[k] = Raw <=> k >= n \/ (to <= k /\ k < from)

(* What they rely on afterwards: the elements sit at their new places in   *)
(* their old order, the slots they left and did not get refilled are raw,  *)
(* and nothing else changed.                                               *)
Shift(c, from, to, number) ==
    [k \in DOMAIN c |->
        IF to <= k /\ k < to + number THEN c[k - to + from]
        ELSE IF from <= k /\ k < from + number THEN Raw
        ELSE c[k]]
=============================================================================
