----------------------------- MODULE KArrayMove -----------------------------
(***************************************************************************)
(* KArray::moveElements (inc/karray.h) for a T that is not trivially       *)
(* copyable: one step per iteration of its six loops.                      *)
(*                                                                         *)
(* fault records a breach of the rules of object lifetime (KArraySlots).   *)
(***************************************************************************)
EXTENDS KArraySlots

CONSTANT MaxBuffer   \* bound on m_bufferSize

ASSUME BufferAssumption == MaxBuffer \in Nat

VARIABLES m_bufferSize, m_numElements, from, to, number,   \* the call
          orig,    \* history: the buffer when moveElements was called
          p,       \* the buffer
          i,       \* the loop variable
          pc,      \* which loop, of the branch from < to (R) or to < from (L)
          fault    \* an object's lifetime was breached

args == <<m_bufferSize, m_numElements, from, to, number, orig>>
vars == <<args, p, i, pc, fault>>

Slots == 0 .. m_bufferSize - 1
delta == IF from < to THEN to - from ELSE from - to

(* moveElements is called by insertAt and eraseAt with a delta of 1; the   *)
(* loops are written for a gap of any width.                               *)
Called ==
    /\ m_bufferSize \in 0 .. MaxBuffer
    /\ Movable(orig, m_bufferSize, m_numElements, from, to, number)

Init ==
    /\ Called
    /\ p = orig
    /\ fault = FALSE
    /\ \/ from < to /\ i = to + number /\ pc = "R_construct"
       \/ to < from /\ i = to /\ pc = "L_construct"

-----------------------------------------------------------------------------
HasValue(k) == k \in Slots /\ p[k] \in Values

(* new (&p[k]) T(move(p[k - d])), after p[k].~T() if replace *)
MoveInto(k, src, replace) ==
    /\ p' = [p EXCEPT ![k] = p[src], ![src] = Moved]
    /\ fault' = (fault \/ ~HasValue(src) \/ k \notin Slots \/ (p[k] = Raw) = replace)

Destroy(k) ==
    /\ p' = [p EXCEPT ![k] = Raw]
    /\ fault' = (fault \/ k \notin Slots \/ p[k] = Raw)

(* Open a gap: from the last element down. *)
R_construct ==
    /\ pc = "R_construct"
    /\ \/ /\ i - 1 >= m_numElements
          /\ MoveInto(i - 1, i - delta - 1, FALSE)
          /\ i' = i - 1
          /\ UNCHANGED pc
       \/ /\ i - 1 < m_numElements
          /\ pc' = "R_replace"
          /\ UNCHANGED <<i, p, fault>>
    /\ UNCHANGED args

(* Mutation of R_replace: the destructor call is forgotten. *)
ConstructOver ==
    /\ pc = "R_replace"
    /\ \/ /\ i > to
          /\ MoveInto(i - 1, i - delta - 1, FALSE)
          /\ i' = i - 1
          /\ UNCHANGED pc
       \/ /\ i <= to
          /\ pc' = "R_destroy"
          /\ UNCHANGED <<i, p, fault>>
    /\ UNCHANGED args

R_replace ==
    /\ pc = "R_replace"
    /\ \/ /\ i > to
          /\ MoveInto(i - 1, i - delta - 1, TRUE)
          /\ i' = i - 1
          /\ UNCHANGED pc
       \/ /\ i <= to
          /\ pc' = "R_destroy"
          /\ UNCHANGED <<i, p, fault>>
    /\ UNCHANGED args

R_destroy ==
    /\ pc = "R_destroy"
    /\ \/ /\ i > from
          /\ Destroy(i - 1)
          /\ i' = i - 1
          /\ UNCHANGED pc
       \/ /\ i <= from
          /\ pc' = "done"
          /\ UNCHANGED <<i, p, fault>>
    /\ UNCHANGED args

(* Close a gap: from its first slot up. *)
L_construct ==
    /\ pc = "L_construct"
    /\ \/ /\ i < from
          /\ MoveInto(i, i + delta, FALSE)
          /\ i' = i + 1
          /\ UNCHANGED pc
       \/ /\ i >= from
          /\ pc' = "L_replace"
          /\ UNCHANGED <<i, p, fault>>
    /\ UNCHANGED args

(* Mutation of L_replace: i++ is forgotten. *)
NoIncrement ==
    /\ pc = "L_replace"
    /\ \/ /\ i < to + number
          /\ MoveInto(i, i + delta, TRUE)
          /\ UNCHANGED <<i, pc>>
       \/ /\ i >= to + number
          /\ pc' = "L_destroy"
          /\ UNCHANGED <<i, p, fault>>
    /\ UNCHANGED args

L_replace ==
    /\ pc = "L_replace"
    /\ \/ /\ i < to + number
          /\ MoveInto(i, i + delta, TRUE)
          /\ i' = i + 1
          /\ UNCHANGED pc
       \/ /\ i >= to + number
          /\ pc' = "L_destroy"
          /\ UNCHANGED <<i, p, fault>>
    /\ UNCHANGED args

L_destroy ==
    /\ pc = "L_destroy"
    /\ \/ /\ i < from + number
          /\ Destroy(i)
          /\ i' = i + 1
          /\ UNCHANGED pc
       \/ /\ i >= from + number
          /\ pc' = "done"
          /\ UNCHANGED <<i, p, fault>>
    /\ UNCHANGED args

Next == R_construct \/ R_replace \/ R_destroy \/ L_construct \/ L_replace \/ L_destroy

Spec == Init /\ [][Next]_vars /\ WF_vars(Next)

-----------------------------------------------------------------------------
Shifted == Shift(orig, from, to, number)

(* moveElements moves every element and respects every object's lifetime:  *)
(* nothing is constructed over a live object, destroyed twice, read after  *)
(* it was moved from, or touched outside the buffer; the unsigned i - 1 of *)
(* the first loop does not wrap around; and when the function returns the  *)
(* buffer is Shifted.                                                      *)
MovesElements ==
    /\ ~fault
    /\ pc = "R_construct" => i >= 1
    /\ pc = "done" => p = Shifted

(* moveElements returns. *)
Terminates == <>(pc = "done")

(* How far the work is, loop by loop: the slots already refilled, the      *)
(* objects moved from and not yet destroyed, the slots already raw.        *)
Slot(k) ==
    CASE pc \in {"R_construct", "R_replace"} ->
             IF i <= k /\ k < to + number THEN orig[k - delta]
             ELSE IF i - delta <= k /\ k < m_numElements THEN Moved ELSE orig[k]
      [] pc = "R_destroy" ->
             IF to <= k /\ k < to + number THEN orig[k - delta]
             ELSE IF i <= k /\ k < to THEN Raw
             ELSE IF from <= k /\ k < i THEN Moved ELSE orig[k]
      [] pc \in {"L_construct", "L_replace"} ->
             IF to <= k /\ k < i THEN orig[k + delta]
             ELSE IF from <= k /\ k < i + delta THEN Moved ELSE orig[k]
      [] pc = "L_destroy" ->
             IF to <= k /\ k < to + number THEN orig[k + delta]
             ELSE IF to + number <= k /\ k < i THEN Raw
             ELSE IF i <= k /\ k < m_numElements THEN Moved ELSE orig[k]
      [] OTHER -> Shifted[k]

(* The inductive invariant of the six loops. *)
IInv ==
    /\ Called
    /\ fault = FALSE
    /\ i \in Int
    /\ pc \in {"R_construct", "R_replace", "R_destroy", "L_construct", "L_replace", "L_destroy", "done"}
    /\ pc \in {"R_construct", "R_replace", "R_destroy"} => from < to
    /\ pc \in {"L_construct", "L_replace", "L_destroy"} => to < from
    /\ pc = "R_construct" => m_numElements <= i /\ i <= to + number
    /\ pc = "R_replace" => to <= i /\ i <= m_numElements
    /\ pc = "R_destroy" => from <= i /\ i <= to
    /\ pc = "L_construct" => to <= i /\ i <= from
    /\ pc = "L_replace" => from <= i /\ i <= to + number
    /\ pc = "L_destroy" => to + number <= i /\ i <= m_numElements
    /\ p = [k \in Slots |-> Slot(k)]
=============================================================================
