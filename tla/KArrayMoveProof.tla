---------------------------- MODULE KArrayMoveProof ----------------------------
(***************************************************************************)
(* The proof that moveElements shifts the elements of an array of any size *)
(* without breaching the lifetime of an object (KArrayMove).               *)
(***************************************************************************)
EXTENDS KArrayMove, TLAPS

(* The loops start with nothing done: the buffer is what the caller left   *)
(* at the call of moveElements.                                            *)
LEMMA InitIInv == Init => IInv
  BY SlotAssumption, BufferAssumption DEF Init, IInv, Called, Movable, Slot, Slots, delta

(* No loop of moveElements assigns its parameters or the two counters.     *)
LEMMA CalledStep == Called /\ UNCHANGED args => Called'
  BY DEF Called, Movable, args, Slots, delta

(* Each iteration of the six loops of moveElements, and each passage to    *)
(* the next loop, keeps the account of the slots that IInv gives.          *)
LEMMA NextIInv == IInv /\ [Next]_vars => IInv'
<1> SUFFICES ASSUME IInv, [Next]_vars
             PROVE  IInv'
  OBVIOUS
<1> USE SlotAssumption, BufferAssumption
<1>1. /\ from \in Int /\ to \in Int /\ number \in Int
      /\ m_numElements \in Int /\ m_bufferSize \in Int
      /\ from >= 0 /\ to >= 0
      /\ m_numElements = from + number
      /\ m_numElements <= m_bufferSize
      /\ to + number <= m_bufferSize
      /\ from < to => delta = to - from
      /\ to < from => delta = from - to
      /\ number >= delta
  BY DEF IInv, Called, Movable, delta
<1>2. /\ \A k \in Slots : orig[k] \in Values \cup {Raw}
      /\ \A k \in Slots : orig[k] = Raw <=> k >= m_numElements \/ (to <= k /\ k < from)
      /\ DOMAIN orig = Slots
  BY DEF IInv, Called, Movable, Slots
<1>3. ASSUME UNCHANGED args
      PROVE  Called' /\ Slots' = Slots /\ delta' = delta
  BY <1>3, CalledStep DEF IInv, args, Slots, delta
<1>4. CASE R_construct
  <2> DEFINE Now(j, k) == IF j <= k /\ k < to + number THEN orig[k - delta]
                       ELSE IF j - delta <= k /\ k < m_numElements THEN Moved ELSE orig[k]
  <2>1. pc = "R_construct" /\ from < to /\ m_numElements <= i /\ i <= to + number /\ i \in Int
    BY <1>4 DEF IInv, R_construct
  <2>2. p = [k \in Slots |-> Now(i, k)]
    BY <2>1 DEF IInv, Slot
  <2>3. UNCHANGED args /\ Called' /\ Slots' = Slots /\ delta' = delta
    BY <1>4, <1>3 DEF R_construct
  <2>4. CASE i - 1 >= m_numElements /\ MoveInto(i - 1, i - delta - 1, FALSE) /\ i' = i - 1 /\ UNCHANGED pc
    <3>1. i - 1 \in Slots /\ i - delta - 1 \in Slots
      BY <1>1, <2>1, <2>4 DEF Slots
    <3>2. p[i - 1] = Raw /\ p[i - delta - 1] = orig[i - delta - 1] /\ orig[i - delta - 1] \in Values
      BY <1>1, <1>2, <2>1, <2>2, <2>4, <3>1
    <3>3. p' = [p EXCEPT ![i - 1] = p[i - delta - 1], ![i - delta - 1] = Moved]
      BY <2>4 DEF MoveInto
    <3>4. fault' = FALSE
      BY <2>4, <3>1, <3>2 DEF MoveInto, HasValue, IInv
    <3>5. p' = [k \in Slots |-> Now(i - 1, k)]
      <4> SUFFICES ASSUME NEW k \in Slots
                   PROVE  p'[k] = Now(i - 1, k)
        BY <2>2, <3>3
      <4>1. k \in Int
        BY <1>1 DEF Slots
      <4>2. CASE k = i - 1
        BY <1>1, <2>1, <2>2, <2>4, <3>1, <3>2, <3>3, <4>1, <4>2
      <4>3. CASE k = i - delta - 1
        BY <1>1, <2>1, <2>2, <2>4, <3>1, <3>2, <3>3, <4>1, <4>3
      <4>4. CASE k # i - 1 /\ k # i - delta - 1
        BY <1>1, <2>1, <2>2, <2>4, <3>1, <3>3, <4>1, <4>4
      <4> QED
        BY <4>2, <4>3, <4>4
    <3>6. p' = [k \in Slots |-> Slot(k)]'
      BY <2>1, <2>3, <2>4, <3>5 DEF Slot, args
    <3> QED
      BY <1>1, <2>1, <2>3, <2>4, <3>4, <3>6 DEF IInv, args
  <2>5. CASE i - 1 < m_numElements /\ pc' = "R_replace" /\ UNCHANGED <<i, p, fault>>
    <3>1. p' = [k \in Slots |-> Slot(k)]'
      BY <1>1, <2>1, <2>2, <2>3, <2>5 DEF Slot, args, Slots
    <3> QED
      BY <1>1, <2>1, <2>3, <2>5, <3>1 DEF IInv, args
  <2> QED
    BY <1>4, <2>4, <2>5 DEF R_construct
<1>5. CASE R_replace
  <2> DEFINE Now(j, k) == IF j <= k /\ k < to + number THEN orig[k - delta]
                       ELSE IF j - delta <= k /\ k < m_numElements THEN Moved ELSE orig[k]
  <2>1. pc = "R_replace" /\ from < to /\ to <= i /\ i <= m_numElements /\ i \in Int
    BY <1>5 DEF IInv, R_replace
  <2>2. p = [k \in Slots |-> Now(i, k)]
    BY <2>1 DEF IInv, Slot
  <2>3. UNCHANGED args /\ Called' /\ Slots' = Slots /\ delta' = delta
    BY <1>5, <1>3 DEF R_replace
  <2>4. CASE i > to /\ MoveInto(i - 1, i - delta - 1, TRUE) /\ i' = i - 1 /\ UNCHANGED pc
    <3>1. i - 1 \in Slots /\ i - delta - 1 \in Slots
      BY <1>1, <2>1, <2>4 DEF Slots
    <3>2. p[i - 1] = Moved /\ p[i - delta - 1] = orig[i - delta - 1] /\ orig[i - delta - 1] \in Values
      BY <1>1, <1>2, <2>1, <2>2, <2>4, <3>1
    <3>3. p' = [p EXCEPT ![i - 1] = p[i - delta - 1], ![i - delta - 1] = Moved]
      BY <2>4 DEF MoveInto
    <3>4. fault' = FALSE
      BY <2>4, <3>1, <3>2 DEF MoveInto, HasValue, IInv
    <3>5. p' = [k \in Slots |-> Now(i - 1, k)]
      <4> SUFFICES ASSUME NEW k \in Slots
                   PROVE  p'[k] = Now(i - 1, k)
        BY <2>2, <3>3
      <4>1. k \in Int
        BY <1>1 DEF Slots
      <4>2. CASE k = i - 1
        BY <1>1, <2>1, <2>2, <2>4, <3>1, <3>2, <3>3, <4>1, <4>2
      <4>3. CASE k = i - delta - 1
        BY <1>1, <2>1, <2>2, <2>4, <3>1, <3>2, <3>3, <4>1, <4>3
      <4>4. CASE k # i - 1 /\ k # i - delta - 1
        BY <1>1, <2>1, <2>2, <2>4, <3>1, <3>3, <4>1, <4>4
      <4> QED
        BY <4>2, <4>3, <4>4
    <3>6. p' = [k \in Slots |-> Slot(k)]'
      BY <2>1, <2>3, <2>4, <3>5 DEF Slot, args
    <3> QED
      BY <1>1, <2>1, <2>3, <2>4, <3>4, <3>6 DEF IInv, args
  <2>5. CASE i <= to /\ pc' = "R_destroy" /\ UNCHANGED <<i, p, fault>>
    <3>1. p' = [k \in Slots |-> Slot(k)]'
      BY <1>1, <2>1, <2>2, <2>3, <2>5 DEF Slot, args, Slots
    <3> QED
      BY <1>1, <2>1, <2>3, <2>5, <3>1 DEF IInv, args
  <2> QED
    BY <1>5, <2>4, <2>5 DEF R_replace
<1>6. CASE R_destroy
  <2> DEFINE Now(j, k) == IF to <= k /\ k < to + number THEN orig[k - delta]
                       ELSE IF j <= k /\ k < to THEN Raw
                       ELSE IF from <= k /\ k < j THEN Moved ELSE orig[k]
  <2>1. pc = "R_destroy" /\ from < to /\ from <= i /\ i <= to /\ i \in Int
    BY <1>6 DEF IInv, R_destroy
  <2>2. p = [k \in Slots |-> Now(i, k)]
    BY <2>1 DEF IInv, Slot
  <2>3. UNCHANGED args /\ Called' /\ Slots' = Slots /\ delta' = delta
    BY <1>6, <1>3 DEF R_destroy
  <2>4. CASE i > from /\ Destroy(i - 1) /\ i' = i - 1 /\ UNCHANGED pc
    <3>1. i - 1 \in Slots
      BY <1>1, <2>1, <2>4 DEF Slots
    <3>2. p[i - 1] = Moved
      BY <1>1, <2>1, <2>2, <2>4, <3>1
    <3>3. p' = [p EXCEPT ![i - 1] = Raw]
      BY <2>4 DEF Destroy
    <3>4. fault' = FALSE
      BY <2>4, <3>1, <3>2 DEF Destroy, IInv
    <3>5. p' = [k \in Slots |-> Now(i - 1, k)]
      <4> SUFFICES ASSUME NEW k \in Slots
                   PROVE  p'[k] = Now(i - 1, k)
        BY <2>2, <3>3
      <4>1. k \in Int
        BY <1>1 DEF Slots
      <4>2. CASE k = i - 1
        BY <1>1, <2>1, <2>2, <2>4, <3>1, <3>2, <3>3, <4>1, <4>2
      <4>3. CASE k # i - 1
        BY <1>1, <2>1, <2>2, <2>4, <3>1, <3>3, <4>1, <4>3
      <4> QED
        BY <4>2, <4>3
    <3>6. p' = [k \in Slots |-> Slot(k)]'
      BY <2>1, <2>3, <2>4, <3>5 DEF Slot, args
    <3> QED
      BY <1>1, <2>1, <2>3, <2>4, <3>4, <3>6 DEF IInv, args
  <2>5. CASE i <= from /\ pc' = "done" /\ UNCHANGED <<i, p, fault>>
    <3>1. p = Shifted
      <4>1. Shifted = [k \in Slots |-> Shifted[k]]
        BY <1>2 DEF Shifted, Shift
      <4> SUFFICES ASSUME NEW k \in Slots
                   PROVE  Now(i, k) = Shifted[k]
        BY <2>2, <4>1
      <4>2. k \in Int
        BY <1>1 DEF Slots
      <4>3. Shifted[k] = IF to <= k /\ k < to + number THEN orig[k - to + from]
                         ELSE IF from <= k /\ k < from + number THEN Raw ELSE orig[k]
        BY <1>2 DEF Shifted, Shift
      <4> QED
        BY <1>1, <1>2, <2>1, <2>5, <4>2, <4>3
    <3>2. Shifted' = Shifted /\ p' = p /\ pc' = "done"
      BY <2>3, <2>5 DEF Shifted, Shift, args
    <3>3. p' = [k \in Slots |-> Slot(k)]'
      BY <1>2, <2>2, <2>3, <3>1, <3>2 DEF Slot, Shifted, Shift
    <3> QED
      BY <1>1, <2>1, <2>3, <2>5, <3>3 DEF IInv, args
  <2> QED
    BY <1>6, <2>4, <2>5 DEF R_destroy
<1>7. CASE L_construct
  <2> DEFINE Now(j, k) == IF to <= k /\ k < j THEN orig[k + delta]
                       ELSE IF from <= k /\ k < j + delta THEN Moved ELSE orig[k]
  <2>1. pc = "L_construct" /\ to < from /\ to <= i /\ i <= from /\ i \in Int
    BY <1>7 DEF IInv, L_construct
  <2>2. p = [k \in Slots |-> Now(i, k)]
    BY <2>1 DEF IInv, Slot
  <2>3. UNCHANGED args /\ Called' /\ Slots' = Slots /\ delta' = delta
    BY <1>7, <1>3 DEF L_construct
  <2>4. CASE i < from /\ MoveInto(i, i + delta, FALSE) /\ i' = i + 1 /\ UNCHANGED pc
    <3>1. i \in Slots /\ i + delta \in Slots
      BY <1>1, <2>1, <2>4 DEF Slots
    <3>2. p[i] = Raw /\ p[i + delta] = orig[i + delta] /\ orig[i + delta] \in Values
      BY <1>1, <1>2, <2>1, <2>2, <2>4, <3>1
    <3>3. p' = [p EXCEPT ![i] = p[i + delta], ![i + delta] = Moved]
      BY <2>4 DEF MoveInto
    <3>4. fault' = FALSE
      BY <2>4, <3>1, <3>2 DEF MoveInto, HasValue, IInv
    <3>5. p' = [k \in Slots |-> Now(i + 1, k)]
      <4> SUFFICES ASSUME NEW k \in Slots
                   PROVE  p'[k] = Now(i + 1, k)
        BY <2>2, <3>3
      <4>1. k \in Int
        BY <1>1 DEF Slots
      <4>2. CASE k = i
        BY <1>1, <2>1, <2>2, <2>4, <3>1, <3>2, <3>3, <4>1, <4>2
      <4>3. CASE k = i + delta
        BY <1>1, <2>1, <2>2, <2>4, <3>1, <3>2, <3>3, <4>1, <4>3
      <4>4. CASE k # i /\ k # i + delta
        BY <1>1, <2>1, <2>2, <2>4, <3>1, <3>3, <4>1, <4>4
      <4> QED
        BY <4>2, <4>3, <4>4
    <3>6. p' = [k \in Slots |-> Slot(k)]'
      BY <2>1, <2>3, <2>4, <3>5 DEF Slot, args
    <3> QED
      BY <1>1, <2>1, <2>3, <2>4, <3>4, <3>6 DEF IInv, args
  <2>5. CASE i >= from /\ pc' = "L_replace" /\ UNCHANGED <<i, p, fault>>
    <3>1. p' = [k \in Slots |-> Slot(k)]'
      BY <1>1, <2>1, <2>2, <2>3, <2>5 DEF Slot, args, Slots
    <3> QED
      BY <1>1, <2>1, <2>3, <2>5, <3>1 DEF IInv, args
  <2> QED
    BY <1>7, <2>4, <2>5 DEF L_construct
<1>8. CASE L_replace
  <2> DEFINE Now(j, k) == IF to <= k /\ k < j THEN orig[k + delta]
                       ELSE IF from <= k /\ k < j + delta THEN Moved ELSE orig[k]
  <2>1. pc = "L_replace" /\ to < from /\ from <= i /\ i <= to + number /\ i \in Int
    BY <1>8 DEF IInv, L_replace
  <2>2. p = [k \in Slots |-> Now(i, k)]
    BY <2>1 DEF IInv, Slot
  <2>3. UNCHANGED args /\ Called' /\ Slots' = Slots /\ delta' = delta
    BY <1>8, <1>3 DEF L_replace
  <2>4. CASE i < to + number /\ MoveInto(i, i + delta, TRUE) /\ i' = i + 1 /\ UNCHANGED pc
    <3>1. i \in Slots /\ i + delta \in Slots
      BY <1>1, <2>1, <2>4 DEF Slots
    <3>2. p[i] = Moved /\ p[i + delta] = orig[i + delta] /\ orig[i + delta] \in Values
      BY <1>1, <1>2, <2>1, <2>2, <2>4, <3>1
    <3>3. p' = [p EXCEPT ![i] = p[i + delta], ![i + delta] = Moved]
      BY <2>4 DEF MoveInto
    <3>4. fault' = FALSE
      BY <2>4, <3>1, <3>2 DEF MoveInto, HasValue, IInv
    <3>5. p' = [k \in Slots |-> Now(i + 1, k)]
      <4> SUFFICES ASSUME NEW k \in Slots
                   PROVE  p'[k] = Now(i + 1, k)
        BY <2>2, <3>3
      <4>1. k \in Int
        BY <1>1 DEF Slots
      <4>2. CASE k = i
        BY <1>1, <2>1, <2>2, <2>4, <3>1, <3>2, <3>3, <4>1, <4>2
      <4>3. CASE k = i + delta
        BY <1>1, <2>1, <2>2, <2>4, <3>1, <3>2, <3>3, <4>1, <4>3
      <4>4. CASE k # i /\ k # i + delta
        BY <1>1, <2>1, <2>2, <2>4, <3>1, <3>3, <4>1, <4>4
      <4> QED
        BY <4>2, <4>3, <4>4
    <3>6. p' = [k \in Slots |-> Slot(k)]'
      BY <2>1, <2>3, <2>4, <3>5 DEF Slot, args
    <3> QED
      BY <1>1, <2>1, <2>3, <2>4, <3>4, <3>6 DEF IInv, args
  <2>5. CASE i >= to + number /\ pc' = "L_destroy" /\ UNCHANGED <<i, p, fault>>
    <3>1. p' = [k \in Slots |-> Slot(k)]'
      BY <1>1, <2>1, <2>2, <2>3, <2>5 DEF Slot, args, Slots
    <3> QED
      BY <1>1, <2>1, <2>3, <2>5, <3>1 DEF IInv, args
  <2> QED
    BY <1>8, <2>4, <2>5 DEF L_replace
<1>9. CASE L_destroy
  <2> DEFINE Now(j, k) == IF to <= k /\ k < to + number THEN orig[k + delta]
                       ELSE IF to + number <= k /\ k < j THEN Raw
                       ELSE IF j <= k /\ k < m_numElements THEN Moved ELSE orig[k]
  <2>1. pc = "L_destroy" /\ to < from /\ to + number <= i /\ i <= m_numElements /\ i \in Int
    BY <1>9 DEF IInv, L_destroy
  <2>2. p = [k \in Slots |-> Now(i, k)]
    BY <2>1 DEF IInv, Slot
  <2>3. UNCHANGED args /\ Called' /\ Slots' = Slots /\ delta' = delta
    BY <1>9, <1>3 DEF L_destroy
  <2>4. CASE i < from + number /\ Destroy(i) /\ i' = i + 1 /\ UNCHANGED pc
    <3>1. i \in Slots
      BY <1>1, <2>1, <2>4 DEF Slots
    <3>2. p[i] = Moved
      BY <1>1, <2>1, <2>2, <2>4, <3>1
    <3>3. p' = [p EXCEPT ![i] = Raw]
      BY <2>4 DEF Destroy
    <3>4. fault' = FALSE
      BY <2>4, <3>1, <3>2 DEF Destroy, IInv
    <3>5. p' = [k \in Slots |-> Now(i + 1, k)]
      <4> SUFFICES ASSUME NEW k \in Slots
                   PROVE  p'[k] = Now(i + 1, k)
        BY <2>2, <3>3
      <4>1. k \in Int
        BY <1>1 DEF Slots
      <4>2. CASE k = i
        BY <1>1, <2>1, <2>2, <2>4, <3>1, <3>2, <3>3, <4>1, <4>2
      <4>3. CASE k # i
        BY <1>1, <2>1, <2>2, <2>4, <3>1, <3>3, <4>1, <4>3
      <4> QED
        BY <4>2, <4>3
    <3>6. p' = [k \in Slots |-> Slot(k)]'
      BY <2>1, <2>3, <2>4, <3>5 DEF Slot, args
    <3> QED
      BY <1>1, <2>1, <2>3, <2>4, <3>4, <3>6 DEF IInv, args
  <2>5. CASE i >= from + number /\ pc' = "done" /\ UNCHANGED <<i, p, fault>>
    <3>1. p = Shifted
      <4>1. Shifted = [k \in Slots |-> Shifted[k]]
        BY <1>2 DEF Shifted, Shift
      <4> SUFFICES ASSUME NEW k \in Slots
                   PROVE  Now(i, k) = Shifted[k]
        BY <2>2, <4>1
      <4>2. k \in Int
        BY <1>1 DEF Slots
      <4>3. Shifted[k] = IF to <= k /\ k < to + number THEN orig[k - to + from]
                         ELSE IF from <= k /\ k < from + number THEN Raw ELSE orig[k]
        BY <1>2 DEF Shifted, Shift
      <4> QED
        BY <1>1, <1>2, <2>1, <2>5, <4>2, <4>3
    <3>2. Shifted' = Shifted /\ p' = p /\ pc' = "done"
      BY <2>3, <2>5 DEF Shifted, Shift, args
    <3>3. p' = [k \in Slots |-> Slot(k)]'
      BY <1>2, <2>2, <2>3, <3>1, <3>2 DEF Slot, Shifted, Shift
    <3> QED
      BY <1>1, <2>1, <2>3, <2>5, <3>3 DEF IInv, args
  <2> QED
    BY <1>9, <2>4, <2>5 DEF L_destroy
<1>10. CASE UNCHANGED vars
  BY <1>10 DEF IInv, vars, args, Called, Movable, Slots, delta, Slot, Shifted, Shift
<1> QED
  BY <1>4, <1>5, <1>6, <1>7, <1>8, <1>9, <1>10 DEF Next

(* IInv holds at every iteration of moveElements, for buffers of any size  *)
(* and any number of slots the gap is wide.                                *)
THEOREM Invariance == Spec => []IInv
  BY InitIInv, NextIInv, PTL DEF Spec

(* moveElements, as insertAt and eraseAt call it, never breaches the       *)
(* lifetime of an object or the bounds of the buffer, and leaves every     *)
(* element at its new place.                                               *)
THEOREM ElementsAreMoved == Spec => []MovesElements
<1>1. IInv => MovesElements
  <2> SUFFICES ASSUME IInv
               PROVE  MovesElements
    OBVIOUS
  <2>1. pc = "R_construct" => i >= 1
    BY DEF IInv, Called, Movable, delta
  <2>2. ASSUME pc = "done"
        PROVE  p = Shifted
    <3>1. DOMAIN orig = Slots
      BY DEF IInv, Called, Movable, Slots
    <3>2. \A k \in Slots : Slot(k) = Shifted[k]
      BY <2>2 DEF Slot
    <3> QED
      BY <3>1, <3>2 DEF IInv, Shifted, Shift
  <2> QED
    BY <2>1, <2>2 DEF MovesElements, IInv
<1> QED
  BY <1>1, Invariance, PTL

-----------------------------------------------------------------------------
(* The steps moveElements has still to take: one for each slot that the    *)
(* three loops of its branch have yet to visit, and one for the end of     *)
(* each of them.                                                           *)
Left ==
    LET slots == IF from < to THEN i - from ELSE m_numElements - i
        loops == IF pc \in {"R_construct", "L_construct"} THEN 3
                 ELSE IF pc \in {"R_replace", "L_replace"} THEN 2 ELSE 1
    IN  IF pc = "done" THEN 0 ELSE slots + loops

(* Each iteration brings the return of moveElements nearer: none of the    *)
(* six loops repeats without moving i, and no two of them together visit a *)
(* slot twice.                                                             *)
CountsDown == [][Left' < Left /\ Left' \in Nat]_vars

(* moveElements is never more than as many steps from its return as the    *)
(* buffer has slots, and the ends of three loops.                          *)
WithinBuffer == Left \in 0 .. m_bufferSize + 3

(* i stays within the slots that the loops of its branch have to visit.    *)
LEMMA LoopRanges ==
  ASSUME IInv
  PROVE  /\ from \in Int /\ to \in Int /\ m_numElements \in Int /\ i \in Int
         /\ pc \in {"R_construct", "R_replace", "R_destroy"} => from < to /\ from <= i /\ i <= m_bufferSize
         /\ pc \in {"L_construct", "L_replace", "L_destroy"} => ~(from < to) /\ 0 <= i /\ i <= m_numElements
         /\ pc \in {"R_construct", "R_replace", "R_destroy", "L_construct", "L_replace", "L_destroy", "done"}
<1>1. /\ from \in Int /\ to \in Int /\ number \in Int
      /\ m_numElements \in Int /\ m_bufferSize \in Int
      /\ from >= 0 /\ to >= 0 /\ number >= 0
      /\ m_numElements = from + number
      /\ m_numElements <= m_bufferSize
      /\ to + number <= m_bufferSize
  BY SlotAssumption, BufferAssumption DEF IInv, Called, Movable, delta
<1>2. /\ i \in Int
      /\ pc \in {"R_construct", "R_replace", "R_destroy", "L_construct", "L_replace", "L_destroy", "done"}
      /\ pc \in {"R_construct", "R_replace", "R_destroy"} => from < to
      /\ pc \in {"L_construct", "L_replace", "L_destroy"} => to < from
      /\ pc = "R_construct" => m_numElements <= i /\ i <= to + number
      /\ pc = "R_replace" => to <= i /\ i <= m_numElements
      /\ pc = "R_destroy" => from <= i /\ i <= to
      /\ pc = "L_construct" => to <= i /\ i <= from
      /\ pc = "L_replace" => from <= i /\ i <= to + number
      /\ pc = "L_destroy" => to + number <= i /\ i <= m_numElements
  BY Zenon DEF IInv
<1> QED
  BY <1>1, <1>2

(* What is left is bounded in the same way.                                *)
LEMMA LeftIsBounded == IInv => WithinBuffer
<1> SUFFICES ASSUME IInv
             PROVE  WithinBuffer
  OBVIOUS
<1>1. /\ from \in Int /\ to \in Int /\ number \in Int /\ i \in Int
      /\ m_numElements \in Int /\ m_bufferSize \in Int
      /\ from >= 0 /\ to >= 0
      /\ m_numElements = from + number
      /\ m_numElements <= m_bufferSize
      /\ to + number <= m_bufferSize
      /\ 0 <= m_bufferSize
  BY SlotAssumption, BufferAssumption DEF IInv, Called, Movable, delta
<1>2. /\ pc \in {"R_construct", "R_replace", "R_destroy"} => from < to /\ from <= i /\ i <= m_bufferSize
      /\ pc \in {"L_construct", "L_replace", "L_destroy"} => ~(from < to) /\ 0 <= i /\ i <= m_numElements
      /\ pc \in {"R_construct", "R_replace", "R_destroy", "L_construct", "L_replace", "L_destroy", "done"}
  BY <1>1, LoopRanges
<1>3. CASE pc = "done"
  BY <1>1, <1>3 DEF WithinBuffer, Left
<1>4. CASE pc \in {"R_construct", "R_replace", "R_destroy"}
  BY <1>1, <1>2, <1>4 DEF WithinBuffer, Left
<1>5. CASE pc \in {"L_construct", "L_replace", "L_destroy"}
  BY <1>1, <1>2, <1>5 DEF WithinBuffer, Left
<1> QED
  BY <1>2, <1>3, <1>4, <1>5

(* Each step of moveElements is one of those left.                         *)
LEMMA LeftStep == IInv /\ Next => Left' < Left
<1> SUFFICES ASSUME IInv, Next
             PROVE  Left' < Left
  OBVIOUS
<1>1. /\ i \in Int /\ from \in Int /\ to \in Int /\ m_numElements \in Int
      /\ pc \in {"R_construct", "R_replace", "R_destroy"} => from < to /\ from <= i
      /\ pc \in {"L_construct", "L_replace", "L_destroy"} => ~(from < to) /\ i <= m_numElements
  BY LoopRanges
<1>2. from' = from /\ to' = to /\ m_numElements' = m_numElements
  BY DEF Next, R_construct, R_replace, R_destroy, L_construct, L_replace, L_destroy, args
<1>3. \/ i' = i - 1 /\ pc' = pc /\ pc \in {"R_construct", "R_replace", "R_destroy"}
      \/ i' = i + 1 /\ pc' = pc /\ pc \in {"L_construct", "L_replace", "L_destroy"}
      \/ /\ i' = i
         /\ <<pc, pc'>> \in {<<"R_construct", "R_replace">>, <<"R_replace", "R_destroy">>, <<"R_destroy", "done">>,
                             <<"L_construct", "L_replace">>, <<"L_replace", "L_destroy">>, <<"L_destroy", "done">>}
  BY DEF Next, R_construct, R_replace, R_destroy, L_construct, L_replace, L_destroy
<1>4. CASE i' = i - 1 /\ pc' = pc /\ pc \in {"R_construct", "R_replace", "R_destroy"}
  BY <1>1, <1>2, <1>4 DEF Left
<1>5. CASE i' = i + 1 /\ pc' = pc /\ pc \in {"L_construct", "L_replace", "L_destroy"}
  BY <1>1, <1>2, <1>5 DEF Left
<1>6. CASE i' = i /\ pc' \in {"R_replace", "R_destroy", "L_replace", "L_destroy", "done"} /\ pc # pc'
  BY <1>1, <1>2, <1>3, <1>6 DEF Left
<1> QED
  BY <1>3, <1>4, <1>5, <1>6

(* moveElements runs out of steps, whatever it moves: the safety half of   *)
(* Terminates, for buffers of any size.                                    *)
THEOREM StepsRunOut == Spec => []WithinBuffer /\ CountsDown
<1>1. IInv /\ [Next]_vars => [Left' < Left /\ Left' \in Nat]_vars
  <2> SUFFICES ASSUME IInv, Next
               PROVE  Left' < Left /\ Left' \in Nat
    OBVIOUS
  <2>1. IInv'
    BY NextIInv
  <2>2. WithinBuffer /\ WithinBuffer'
    BY <2>1, LeftIsBounded, PTL
  <2>3. m_bufferSize \in Int /\ m_bufferSize' \in Int
    BY <2>1, BufferAssumption DEF IInv, Called
  <2> QED
    BY <2>2, <2>3, LeftStep DEF WithinBuffer
<1> QED
  BY <1>1, Invariance, LeftIsBounded, PTL DEF Spec, CountsDown
=============================================================================
