------------------------------- MODULE KArray -------------------------------
(***************************************************************************)
(* KArray (inc/karray.h), the container of kernel-mode code: the arrays,   *)
(* the pool blocks that hold their elements, and every member function     *)
(* that changes them.  One call is one step; the loops of moveElements are *)
(* KArrayMove's.                                                           *)
(*                                                                         *)
(* The pool may refuse any request.  fault records a breach of the rules   *)
(* of object lifetime (KArraySlots), which is undefined behaviour.         *)
(***************************************************************************)
EXTENDS KArraySlots, Sequences

CONSTANTS Arrays,     \* the variables of type KArray
          Blocks,     \* the blocks of the pool
          NULL,       \* the null pointer
          Freed,      \* the contents of a block that is not allocated
          Zero,       \* the value of T()
          ULONG_MAX,  \* (ULONG)(-1)
          SIZE_MAX,   \* (size_t)(-1)
          Counts      \* the counts and indices its users pass

ASSUME PointerAssumption == NULL \notin Blocks
ASSUME FreedAssumption == \A n \in 1 .. ULONG_MAX : Freed \notin [0 .. n - 1 -> Values \cup {Raw}]
ASSUME ValueAssumption == Values \subseteq Int /\ Zero \in Values
ASSUME SizeAssumption ==
    /\ ULONG_MAX \in Nat \ {0}
    /\ SIZE_MAX \in Nat
    /\ ULONG_MAX <= SIZE_MAX
    /\ Counts \subseteq 0 .. SIZE_MAX

VARIABLES live,           \* the arrays whose lifetime has begun
          p,              \* the member _p
          m_numElements,
          m_bufferSize,
          heap,           \* what is in each block
          call,           \* the last call: function, arguments, results
          stopped,        \* RtlFailFast, or an access through the null pointer
          fault

members == <<p, m_numElements, m_bufferSize, heap>>
vars == <<live, members, call, stopped, fault>>

Call(op, a, n, v, ret, moved) ==
    [op |-> op, arr |-> a, n |-> n, v |-> v, ret |-> ret, moved |-> moved]

Init ==
    /\ live = {}
    /\ p = [a \in Arrays |-> NULL]
    /\ m_numElements = [a \in Arrays |-> 0]
    /\ m_bufferSize = [a \in Arrays |-> 0]
    /\ heap = [b \in Blocks |-> Freed]
    /\ \E a \in Arrays : call = Call("none", a, 0, Zero, TRUE, FALSE)
    /\ stopped = FALSE
    /\ fault = FALSE

-----------------------------------------------------------------------------
(* The slots of a's buffer. *)
Buffer(a) == IF p[a] = NULL THEN <<>> ELSE heap[p[a]]

(* What a call of reserve leads to: its result, _p, m_bufferSize, slots.   *)
Outcome(ok, ptr, size, slots) == [ok |-> ok, p |-> ptr, size |-> size, slots |-> slots]
AsIs(a, ok) == Outcome(ok, p[a], m_bufferSize[a], Buffer(a))

(* ExAllocatePoolUninitialized returns a block that is not in use, or NULL *)
FreeBlocks == {b \in Blocks : heap[b] = Freed}

reserve(a, count) ==
    IF m_bufferSize[a] >= count
    THEN {AsIs(a, TRUE)}
    ELSE {AsIs(a, FALSE)} \cup
         {Outcome(TRUE, b, count,
                  [k \in 0 .. count - 1 |-> IF k < m_numElements[a] THEN Buffer(a)[k] ELSE Raw]) :
          b \in {x \in FreeBlocks : count < ULONG_MAX}}

grow(a, count) ==
    LET atLeast == IF count < 4 THEN 4 ELSE count
        exponentialGrowth == m_bufferSize[a] + m_bufferSize[a] \div 2
    IN  IF m_bufferSize[a] >= count
        THEN {AsIs(a, TRUE)}
        ELSE reserve(a, IF atLeast < exponentialGrowth THEN exponentialGrowth ELSE atLeast)

(* Mutation of Assign: the block that r replaced is not freed. *)
AssignAndLeak(a, r, slots, n) ==
    /\ heap' = [b \in Blocks |-> IF b = r.p THEN slots ELSE heap[b]]
    /\ p' = [p EXCEPT ![a] = r.p]
    /\ m_bufferSize' = [m_bufferSize EXCEPT ![a] = r.size]
    /\ m_numElements' = [m_numElements EXCEPT ![a] = n]

(* The members after outcome r, with these slots and n elements; the block *)
(* that r replaced is freed.                                               *)
Assign(a, r, slots, n) ==
    /\ heap' = [b \in Blocks |-> IF b = r.p THEN slots
                                 ELSE IF b = p[a] THEN Freed ELSE heap[b]]
    /\ p' = [p EXCEPT ![a] = r.p]
    /\ m_bufferSize' = [m_bufferSize EXCEPT ![a] = r.size]
    /\ m_numElements' = [m_numElements EXCEPT ![a] = n]

(* moveElements for an array of n elements *)
Moves(from, to, number) == from # to /\ number # 0
moveElements(slots, from, to, number) ==
    IF Moves(from, to, number) THEN Shift(slots, from, to, number) ELSE slots
CanMove(r, slots, n, from, to, number) ==
    Moves(from, to, number) => Movable(slots, r.size, n, from, to, number)

-----------------------------------------------------------------------------
(* KArray(count, value).  The result of grow is ignored: without a buffer  *)
(* the first assignment goes through the null pointer.  The assignments    *)
(* are to raw storage, which is defined for a T such as the integers the   *)
(* repository keeps in a KArray.                                           *)
KArray_fill(a, count, value) ==
    /\ a \notin live
    /\ call' = Call("KArray", a, count, value, TRUE, FALSE)
    /\ \E r \in IF count > 0 THEN grow(a, count) ELSE {AsIs(a, TRUE)} :
          \/ /\ r.ok
             /\ Assign(a, r, [k \in DOMAIN r.slots |-> IF k < count THEN value ELSE r.slots[k]], count)
             /\ live' = live \cup {a}
             /\ UNCHANGED stopped
          \/ /\ ~r.ok
             /\ stopped' = TRUE
             /\ UNCHANGED <<live, members>>
    /\ UNCHANGED fault

(* reset() *)
Reset(a) ==
    /\ heap' = [b \in Blocks |-> IF b = p[a] THEN Freed ELSE heap[b]]
    /\ p' = [p EXCEPT ![a] = NULL]
    /\ m_numElements' = [m_numElements EXCEPT ![a] = 0]
    /\ m_bufferSize' = [m_bufferSize EXCEPT ![a] = 0]

KArray_destroy(a) ==
    /\ a \in live
    /\ call' = Call("~KArray", a, 0, Zero, TRUE, FALSE)
    /\ Reset(a)
    /\ live' = live \ {a}
    /\ UNCHANGED <<stopped, fault>>

(* a takes over the members of rhs, which becomes empty *)
KArray_move(a, rhs) ==
    /\ a \notin live /\ rhs \in live
    /\ call' = Call("move", a, 0, Zero, TRUE, FALSE)
    /\ live' = live \cup {a}
    /\ p' = [p EXCEPT ![a] = p[rhs], ![rhs] = NULL]
    /\ m_numElements' = [m_numElements EXCEPT ![a] = m_numElements[rhs], ![rhs] = 0]
    /\ m_bufferSize' = [m_bufferSize EXCEPT ![a] = m_bufferSize[rhs], ![rhs] = 0]
    /\ UNCHANGED <<heap, stopped, fault>>

(* reset() comes first, so that an array assigned to itself loses its     *)
(* buffer before it is read.                                               *)
KArray_assign(a, rhs) ==
    /\ a \in live /\ rhs \in live
    /\ call' = Call("move", a, 0, Zero, TRUE, FALSE)
    /\ IF a = rhs
       THEN Reset(a)
       ELSE /\ heap' = [b \in Blocks |-> IF b = p[a] THEN Freed ELSE heap[b]]
            /\ p' = [p EXCEPT ![a] = p[rhs], ![rhs] = NULL]
            /\ m_numElements' = [m_numElements EXCEPT ![a] = m_numElements[rhs], ![rhs] = 0]
            /\ m_bufferSize' = [m_bufferSize EXCEPT ![a] = m_bufferSize[rhs], ![rhs] = 0]
    /\ UNCHANGED <<live, stopped, fault>>

KArray_reserve(a, count) ==
    /\ a \in live
    /\ \E r \in reserve(a, count) :
          /\ call' = Call("reserve", a, count, Zero, r.ok, FALSE)
          /\ Assign(a, r, r.slots, m_numElements[a])
    /\ UNCHANGED <<live, stopped, fault>>

(* Mutation of Resized: the destructors are not called. *)
ResizedKeepsTail(r, n, count) ==
    [k \in DOMAIN r.slots |-> IF k >= n /\ k < count THEN Zero ELSE r.slots[k]]

(* The slots after resize(count) of n elements, when reserve succeeded *)
Resized(r, n, count) ==
    [k \in DOMAIN r.slots |-> IF k >= count THEN Raw ELSE IF k >= n THEN Zero ELSE r.slots[k]]

resize(a, count, r) ==
    IF r.ok
    THEN /\ Assign(a, r, Resized(r, m_numElements[a], count), count)
         /\ fault' = (fault \/ \E k \in DOMAIN r.slots :
                                  k >= m_numElements[a] /\ k < count /\ r.slots[k] # Raw)
    ELSE UNCHANGED <<members, fault>>

(* resize(count), and clear(), which is resize(0) *)
KArray_resize(a, count) ==
    /\ a \in live
    /\ \E r \in reserve(a, count) :
          /\ call' = Call("resize", a, count, Zero, r.ok, FALSE)
          /\ resize(a, count, r)
    /\ UNCHANGED <<live, stopped>>

(* count() - 1 of an empty array is SIZE_MAX, which reserve refuses *)
pop_back(a) ==
    LET count == IF m_numElements[a] = 0 THEN SIZE_MAX ELSE m_numElements[a] - 1
    IN  /\ a \in live
        /\ call' = Call("pop_back", a, 0, Zero, TRUE, FALSE)
        /\ \E r \in reserve(a, count) : resize(a, count, r)
        /\ UNCHANGED <<live, stopped>>

(* What a reference reads once there is room: t when it is to an object    *)
(* elsewhere, and when it is to element k what is in that slot by now; the *)
(* slot may be raw and the buffer gone, and then it may read anything.     *)
Elsewhere == -1
Read(a, r, opened, t, k) ==
    IF k = Elsewhere THEN {t}
    ELSE IF r.p # p[a] \/ opened[k] = Raw THEN Values ELSE {opened[k]}

(* Make room at index, where a slot must then be raw, and construct a T    *)
(* there from t, moving t when it is an rvalue.                            *)
Insert(op, a, n, index, t, rvalue, k) ==
    \E r \in grow(a, m_numElements[a] + 1) :
       LET number == m_numElements[a] - index
           opened == moveElements(r.slots, index, index + 1, number)
       IN  /\ call' = Call(op, a, n, t, r.ok, r.ok /\ rvalue)
           /\ IF r.ok
              THEN /\ \E new \in Read(a, r, opened, t, k) :
                         Assign(a, r, [opened EXCEPT ![index] = new], m_numElements[a] + 1)
                   /\ fault' = (fault \/ opened[index] # Raw
                                 \/ ~CanMove(r, r.slots, m_numElements[a], index, index + 1, number))
              ELSE UNCHANGED <<members, fault>>

(* append and push_back; push_back(T &&) calls append(T const &) *)
append(a, t, rvalue) ==
    /\ a \in live
    /\ Insert("append", a, 0, m_numElements[a], t, rvalue, Elsewhere)
    /\ UNCHANGED <<live, stopped>>

(* append(a[k]) and insertAt(index, a[k]) *)
append_own(a, k) ==
    /\ a \in live /\ k < m_numElements[a]
    /\ Insert("append own", a, 0, m_numElements[a], Buffer(a)[k], FALSE, k)
    /\ UNCHANGED <<live, stopped>>

insertAt_own(a, index, k) ==
    /\ a \in live /\ k < m_numElements[a] /\ index < m_numElements[a]
    /\ Insert("insertAt own", a, index, index, Buffer(a)[k], FALSE, k)
    /\ UNCHANGED <<live, stopped>>

insertAt(a, index, t, rvalue) ==
    /\ a \in live
    /\ IF index > m_numElements[a]
       THEN /\ call' = Call("insertAt", a, index, t, FALSE, FALSE)
            /\ UNCHANGED <<members, fault>>
       ELSE Insert("insertAt", a, index, index, t, rvalue, Elsewhere)
    /\ UNCHANGED <<live, stopped>>

(* The first element that is not less than t, or the end; the predicate is *)
(* the order of the numbers.                                               *)
NotLess(a, t) == {k \in 0 .. m_numElements[a] - 1 : ~(Buffer(a)[k] < t)}

(* Mutation of Position: the last such element. *)
LastPosition(a, t) ==
    IF NotLess(a, t) = {} THEN m_numElements[a]
    ELSE CHOOSE k \in NotLess(a, t) : \A j \in NotLess(a, t) : j <= k

Position(a, t) ==
    IF NotLess(a, t) = {} THEN m_numElements[a]
    ELSE CHOOSE k \in NotLess(a, t) : \A j \in NotLess(a, t) : k <= j

insertSorted(a, t, rvalue) ==
    /\ a \in live
    /\ Insert("insertSorted", a, 0, Position(a, t), t, rvalue, Elsewhere)
    /\ UNCHANGED <<live, stopped>>

insertSortedUnique(a, t, rvalue) ==
    /\ a \in live
    /\ IF NotLess(a, t) # {} /\ ~(t < Buffer(a)[Position(a, t)])
       THEN /\ call' = Call("insertSortedUnique", a, 0, t, TRUE, FALSE)
            /\ UNCHANGED <<members, fault>>
       ELSE Insert("insertSortedUnique", a, 0, Position(a, t), t, rvalue, Elsewhere)
    /\ UNCHANGED <<live, stopped>>

eraseAt(a, index) ==
    /\ a \in live
    /\ call' = Call("eraseAt", a, index, Zero, TRUE, FALSE)
    /\ \/ /\ index >= m_numElements[a]
          /\ stopped' = TRUE
          /\ UNCHANGED <<members, fault>>
       \/ /\ index < m_numElements[a]
          /\ LET r == AsIs(a, TRUE)
                 destroyed == [r.slots EXCEPT ![index] = Raw]
                 number == m_numElements[a] - index - 1
             IN  /\ Assign(a, r, moveElements(destroyed, index + 1, index, number), m_numElements[a] - 1)
                 /\ fault' = (fault \/ r.slots[index] = Raw
                               \/ ~CanMove(r, destroyed, m_numElements[a], index + 1, index, number))
          /\ UNCHANGED stopped
    /\ UNCHANGED live

(* operator[], which the iterators use too: an index that is too large     *)
(* stops the program.                                                      *)
subscript(a, index) ==
    /\ a \in live
    /\ stopped' = (index >= m_numElements[a])
    /\ call' = Call("subscript", a, index, IF stopped' THEN Zero ELSE Buffer(a)[index], TRUE, FALSE)
    /\ UNCHANGED <<live, members, fault>>

Next ==
    /\ ~stopped
    /\ \E a \in Arrays :
          \/ \E count \in Counts, t \in Values : KArray_fill(a, count, t)
          \/ KArray_destroy(a)
          \/ \E rhs \in Arrays : KArray_move(a, rhs)
          \/ \E rhs \in Arrays : KArray_assign(a, rhs)
          \/ \E count \in Counts : KArray_reserve(a, count)
          \/ \E count \in Counts : KArray_resize(a, count)
          \/ pop_back(a)
          \/ \E t \in Values, rvalue \in BOOLEAN : append(a, t, rvalue)
          \/ \E t \in Values, rvalue \in BOOLEAN, index \in Counts : insertAt(a, index, t, rvalue)
          \/ \E t \in Values, rvalue \in BOOLEAN : insertSorted(a, t, rvalue)
          \/ \E t \in Values, rvalue \in BOOLEAN : insertSortedUnique(a, t, rvalue)
          \/ \E index \in Counts : eraseAt(a, index)
          \/ \E k \in Counts : append_own(a, k)
          \/ \E index, k \in Counts : insertAt_own(a, index, k)
          \/ \E index \in Counts : subscript(a, index)

Spec == Init /\ [][Next]_vars

-----------------------------------------------------------------------------
(* Every block is the buffer of one array at most, and an allocated block  *)
(* of one array exactly: reserve, reset and the two moves neither leak a   *)
(* block nor leave two arrays that would free the same one.                *)
BlocksAreOwned ==
    \A b \in Blocks :
       /\ heap[b] # Freed <=> \E a \in live : p[a] = b
       /\ \A a1, a2 \in Arrays : p[a1] = b /\ p[a2] = b => a1 = a2

(* The members agree with the buffer: it has m_bufferSize slots, the first *)
(* m_numElements of them hold objects that have their value, and the       *)
(* others are raw, so that the next construction finds raw storage and     *)
(* reset destroys each object once.                                        *)
WellFormed ==
    \A a \in Arrays :
       /\ m_numElements[a] <= m_bufferSize[a]
       /\ m_bufferSize[a] < ULONG_MAX
       /\ p[a] = NULL <=> m_bufferSize[a] = 0
       /\ a \notin live => p[a] = NULL
       /\ DOMAIN Buffer(a) = 0 .. m_bufferSize[a] - 1
       /\ \A k \in 0 .. m_bufferSize[a] - 1 :
             IF k < m_numElements[a] THEN Buffer(a)[k] \in Values ELSE Buffer(a)[k] = Raw

(* No member function constructs over a live object, destroys or moves     *)
(* from what is not one, or calls moveElements outside the cases its loops *)
(* handle (KArrayMove); the assignments of KArray(count, value) apart.     *)
LifetimesRespected == ~fault

(* The elements of a. *)
Elements(a) == [i \in 1 .. m_numElements[a] |-> Buffer(a)[i - 1]]

V == INSTANCE Vector WITH
        vec <- [a \in Arrays |-> Elements(a)], capacity <- m_bufferSize, Limit <- ULONG_MAX

(* KArray keeps the promises of a vector: each call has the effect of its  *)
(* namesake on the sequence, fails only when it needs more capacity,       *)
(* changes nothing when it fails, and keeps sorted arrays sorted and       *)
(* duplicate-free arrays duplicate-free.                                   *)
ImplementsVector == V!Spec
=============================================================================
