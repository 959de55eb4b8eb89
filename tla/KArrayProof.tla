----------------------------- MODULE KArrayProof -----------------------------
(***************************************************************************)
(* The member functions of KArray keep its members, its buffer and the     *)
(* pool's blocks consistent and respect the lifetimes of the elements, for *)
(* any number of arrays, blocks and elements; and KArray implements        *)
(* Vector.                                                                 *)
(***************************************************************************)
EXTENDS KArray, WellFoundedInduction, TLAPS

(* The contents of a buffer of that many slots, with n elements. *)
Contents(size, n) ==
    {c \in [0 .. size - 1 -> Values \cup {Raw}] : \A k \in 0 .. size - 1 : c[k] = Raw <=> k >= n}

(* A value of the members of an array. *)
Possible(q, n, size, slots) ==
    /\ size \in 0 .. ULONG_MAX - 1 /\ n \in 0 .. size
    /\ q = NULL <=> size = 0
    /\ q # NULL => q \in Blocks /\ slots \in Contents(size, n)

Typed ==
    /\ live \subseteq Arrays
    /\ p \in [Arrays -> Blocks \cup {NULL}]
    /\ m_numElements \in [Arrays -> Nat]
    /\ m_bufferSize \in [Arrays -> Nat]
    /\ heap = [b \in Blocks |-> heap[b]]

Consistent(a) ==
    /\ Possible(p[a], m_numElements[a], m_bufferSize[a], heap[p[a]])
    /\ a \notin live => p[a] = NULL

Owned ==
    /\ \A b \in Blocks : heap[b] # Freed => \E a \in live : p[a] = b
    /\ \A a1, a2 \in Arrays : p[a1] = p[a2] /\ p[a1] # NULL => a1 = a2

(* The inductive invariant, but for the lifetimes. *)
KInv == Typed /\ (\A a \in Arrays : Consistent(a)) /\ Owned

-----------------------------------------------------------------------------
(* A buffer is not the contents of a block that is not allocated. *)
LEMMA ContentsAreNotFreed ==
    ASSUME NEW size \in 1 .. ULONG_MAX - 1, NEW n, NEW c \in Contents(size, n)
    PROVE  c # Freed
  BY FreedAssumption, SizeAssumption DEF Contents

(* What Assign and Reset have in common: the members of one array change,  *)
(* its old block is freed unless it keeps it, and its new one is either    *)
(* the old one or one that was not allocated.                              *)
Becomes(a, q, n, size, slots) ==
    /\ heap' = [b \in Blocks |-> IF b = q THEN slots ELSE IF b = p[a] THEN Freed ELSE heap[b]]
    /\ p' = [p EXCEPT ![a] = q]
    /\ m_numElements' = [m_numElements EXCEPT ![a] = n]
    /\ m_bufferSize' = [m_bufferSize EXCEPT ![a] = size]

May(a, q, n, size, slots) ==
    /\ q \in {NULL, p[a]} \/ (q \in Blocks /\ heap[q] = Freed)
    /\ Possible(q, n, size, slots)

(* The other arrays and their buffers are left alone. *)
LEMMA Others ==
    ASSUME KInv, NEW a \in Arrays, NEW q, NEW n, NEW size, NEW slots,
           May(a, q, n, size, slots), Becomes(a, q, n, size, slots)
    PROVE  /\ p'[a] = q /\ m_numElements'[a] = n /\ m_bufferSize'[a] = size
           /\ \A b \in Arrays \ {a} : /\ p'[b] = p[b] /\ m_numElements'[b] = m_numElements[b]
                                      /\ m_bufferSize'[b] = m_bufferSize[b]
           /\ \A b \in Arrays \ {a} : p[b] # NULL =>
                 p[b] \in Blocks /\ p[b] # q /\ p[b] # p[a] /\ heap'[p[b]] = heap[p[b]]
<1>1. Typed /\ Owned /\ \A b \in Arrays : Consistent(b)
  BY DEF KInv
<1>2. ASSUME NEW b \in Arrays \ {a}, p[b] # NULL
      PROVE  p[b] \in Blocks /\ p[b] # q /\ p[b] # p[a] /\ heap'[p[b]] = heap[p[b]]
  <2>1. p[b] \in Blocks /\ m_bufferSize[b] \in 1 .. ULONG_MAX - 1
        /\ heap[p[b]] \in Contents(m_bufferSize[b], m_numElements[b])
    BY <1>1, <1>2 DEF Consistent, Possible, Typed
  <2>2. heap[p[b]] # Freed
    BY <2>1, ContentsAreNotFreed
  <2>3. p[b] # p[a]
    BY <1>1, <1>2 DEF Owned
  <2>4. QED
    BY <1>2, <2>1, <2>2, <2>3 DEF May, Becomes
<1>3. QED
  BY <1>1, <1>2 DEF Typed, Becomes

LEMMA Changed ==
    ASSUME KInv, NEW a \in Arrays, NEW q, NEW n, NEW size, NEW slots,
           May(a, q, n, size, slots), Becomes(a, q, n, size, slots),
           live' \subseteq Arrays, live' \cup {a} = live \cup {a}, a \in live' \/ q = NULL
    PROVE  KInv'
<1> USE PointerAssumption
<1>1. /\ Typed /\ Owned /\ \A b \in Arrays : Consistent(b)
      /\ q \in Blocks \cup {NULL} /\ n \in Nat /\ size \in Nat
      /\ heap' = [b \in Blocks |-> IF b = q THEN slots ELSE IF b = p[a] THEN Freed ELSE heap[b]]
  BY SizeAssumption DEF KInv, May, Possible, Becomes, Typed
<1>2. Typed'
  BY <1>1 DEF Typed, Becomes
<1>3. p'[a] = q /\ m_numElements'[a] = n /\ m_bufferSize'[a] = size
      /\ \A b \in Arrays \ {a} : /\ p'[b] = p[b] /\ m_numElements'[b] = m_numElements[b]
                                 /\ m_bufferSize'[b] = m_bufferSize[b]
                                 /\ b \in live' <=> b \in live
  BY Others
<1>4. \A b \in Arrays \ {a} : p[b] # NULL =>
         p[b] \in Blocks /\ p[b] # q /\ p[b] # p[a] /\ heap'[p[b]] = heap[p[b]]
  BY Others
<1>5. ASSUME NEW b \in Arrays
      PROVE  Consistent(b)'
  <2>1. CASE b = a
    <3>1. q # NULL => heap'[q] = slots
      BY <1>1
    <3>2. Possible(q, n, size, heap'[q])
      BY <3>1 DEF Possible, May
    <3>3. QED
      BY <1>3, <2>1, <3>2 DEF Consistent
  <2>2. CASE b # a
    <3>1. Consistent(b)
      BY <1>1
    <3>2. p[b] # NULL => heap'[p[b]] = heap[p[b]]
      BY <1>4, <2>2
    <3>3. Possible(p[b], m_numElements[b], m_bufferSize[b], heap'[p[b]])
      BY <3>1, <3>2 DEF Consistent, Possible
    <3>4. QED
      BY <1>3, <2>2, <3>1, <3>3 DEF Consistent
  <2>3. QED
    BY <2>1, <2>2
<1>6. Owned'
  <2>1. ASSUME NEW b \in Blocks, heap'[b] # Freed
        PROVE  \E x \in live' : p'[x] = b
    <3>1. CASE b = q
      BY <1>3, <3>1
    <3>2. CASE b # q
      <4>1. b # p[a] /\ heap[b] # Freed
        BY <1>1, <2>1, <3>2
      <4>2. PICK x \in live : p[x] = b
        BY <1>1, <4>1 DEF Owned
      <4>3. x \in Arrays \ {a}
        BY <1>1, <4>1, <4>2 DEF Typed
      <4>4. QED
        BY <1>3, <4>2, <4>3
    <3>3. QED
      BY <3>1, <3>2
  <2>2. ASSUME NEW a1 \in Arrays, NEW a2 \in Arrays, p'[a1] = p'[a2], p'[a1] # NULL
        PROVE  a1 = a2
    BY <1>1, <1>3, <1>4, <2>2 DEF Owned
  <2>3. QED
    BY <2>1, <2>2 DEF Owned
<1>7. QED
  BY <1>2, <1>5, <1>6 DEF KInv

-----------------------------------------------------------------------------
(* The buffer of an array is as its members say. *)
LEMMA Buffers ==
    ASSUME KInv, NEW a \in Arrays
    PROVE  /\ m_numElements[a] \in Nat /\ m_bufferSize[a] \in Nat
           /\ m_numElements[a] <= m_bufferSize[a] /\ m_bufferSize[a] < ULONG_MAX
           /\ p[a] = NULL <=> m_bufferSize[a] = 0
           /\ Buffer(a) \in Contents(m_bufferSize[a], m_numElements[a])
           /\ p[a] # NULL => p[a] \in Blocks /\ heap[p[a]] = Buffer(a) /\ heap[p[a]] # Freed
<1>1. Typed /\ Consistent(a)
  BY DEF KInv
<1>2. /\ m_numElements[a] \in Nat /\ m_bufferSize[a] \in Nat
      /\ m_numElements[a] <= m_bufferSize[a] /\ m_bufferSize[a] < ULONG_MAX
      /\ p[a] = NULL <=> m_bufferSize[a] = 0
      /\ p[a] # NULL => p[a] \in Blocks /\ heap[p[a]] \in Contents(m_bufferSize[a], m_numElements[a])
  BY <1>1, SizeAssumption DEF Consistent, Possible, Typed
<1>3. CASE p[a] = NULL
  <2>1. Buffer(a) = <<>> /\ m_bufferSize[a] = 0
    BY <1>2, <1>3 DEF Buffer
  <2>2. 0 .. 0 - 1 = {}
    OBVIOUS
  <2>3. <<>> \in [{} -> Values \cup {Raw}]
    OBVIOUS
  <2>4. <<>> \in Contents(0, m_numElements[a])
    BY <2>2, <2>3 DEF Contents
  <2>5. QED
    BY <1>2, <1>3, <2>1, <2>4
<1>4. CASE p[a] # NULL
  <2>1. m_bufferSize[a] \in 1 .. ULONG_MAX - 1
    BY <1>2, <1>4, SizeAssumption
  <2>2. heap[p[a]] # Freed
    BY <1>2, <1>4, <2>1, ContentsAreNotFreed
  <2>3. QED
    BY <1>2, <1>4, <2>2 DEF Buffer
<1>5. QED
  BY <1>3, <1>4

(* What a successful reserve(count) or grow(count) has done: the buffer is *)
(* the old one if that is large enough, and otherwise one that was not     *)
(* allocated and has the elements moved to it.                             *)
Granted(a, r, count) ==
    /\ r.size \in Nat /\ r.size >= count /\ r.size < ULONG_MAX
    /\ m_numElements[a] <= r.size
    /\ r.p = NULL <=> r.size = 0
    /\ r.p # NULL => r.p \in Blocks
    /\ r.slots \in Contents(r.size, m_numElements[a])
    /\ \A k \in 0 .. m_numElements[a] - 1 : r.slots[k] = Buffer(a)[k]
    /\ IF count <= m_bufferSize[a]
       THEN r.p = p[a] /\ r.size = m_bufferSize[a] /\ r.slots = Buffer(a)
       ELSE r.p \in Blocks /\ heap[r.p] = Freed /\ r.p # p[a]

(* reserve fails without effect, and only if the buffer is too small. *)
LEMMA Reserved ==
    ASSUME KInv, NEW a \in Arrays, NEW count \in Nat, NEW r \in reserve(a, count)
    PROVE  \/ /\ r.ok = TRUE /\ Granted(a, r, count)
              /\ r.size = IF m_bufferSize[a] >= count THEN m_bufferSize[a] ELSE count
           \/ r.ok = FALSE /\ count > m_bufferSize[a] /\ r = AsIs(a, FALSE)
<1> DEFINE n == m_numElements[a]
           s == m_bufferSize[a]
<1>1. /\ n \in Nat /\ s \in Nat /\ n <= s /\ s < ULONG_MAX
      /\ p[a] = NULL <=> s = 0
      /\ Buffer(a) \in Contents(s, n)
      /\ p[a] # NULL => p[a] \in Blocks /\ heap[p[a]] # Freed
  BY Buffers
<1>2. CASE s >= count
  <2>1. r = Outcome(TRUE, p[a], s, Buffer(a))
    BY <1>2, Zenon DEF reserve, AsIs
  <2>2. r.ok = TRUE /\ r.p = p[a] /\ r.size = s /\ r.slots = Buffer(a)
    BY <2>1 DEF Outcome
  <2>3. QED
    BY <1>1, <1>2, <2>2, Zenon DEF Granted
<1>3. CASE s < count /\ r = AsIs(a, FALSE)
  <2>1. r.ok = FALSE
    BY <1>3 DEF AsIs, Outcome
  <2>2. QED
    BY <1>1, <1>3, <2>1, Zenon
<1>4. CASE s < count /\ r # AsIs(a, FALSE)
  <2> DEFINE new == [k \in 0 .. count - 1 |-> IF k < n THEN Buffer(a)[k] ELSE Raw]
  <2>1. PICK b \in FreeBlocks : count < ULONG_MAX /\ r = Outcome(TRUE, b, count, new)
    <3>1. ~(m_bufferSize[a] >= count)
      BY <1>1, <1>4
    <3>2. r \in {Outcome(TRUE, b, count, new) : b \in {x \in FreeBlocks : count < ULONG_MAX}}
      BY <1>4, <3>1, Zenon DEF reserve
    <3>3. QED
      BY <3>2, Zenon
  <2>2. r.ok = TRUE /\ r.p = b /\ r.size = count /\ r.slots = new
    BY <2>1 DEF Outcome
  <2>3. b \in Blocks /\ heap[b] = Freed
    BY DEF FreeBlocks
  <2>4. ASSUME NEW k \in 0 .. n - 1
        PROVE  Buffer(a)[k] \in Values /\ Buffer(a)[k] # Raw
    BY <1>1, SlotAssumption DEF Contents
  <2>5. new \in Contents(count, n)
    BY <1>1, <1>4, <2>4 DEF Contents
  <2>6. \A k \in 0 .. n - 1 : new[k] = Buffer(a)[k]
    BY <1>1, <1>4
  <2> HIDE DEF new
  <2>7. /\ count \in Nat /\ count < ULONG_MAX /\ n <= count /\ b # NULL /\ count # 0
        /\ ~(count <= s) /\ ~(s >= count) /\ b # p[a]
    BY <1>1, <1>4, <2>1, <2>3, PointerAssumption
  <2>8. Granted(a, r, count)
    BY <2>2, <2>3, <2>5, <2>6, <2>7 DEF Granted
  <2>9. QED
    BY <2>2, <2>7, <2>8, Zenon
<1>5. s >= count \/ s < count
  BY <1>1
<1>6. QED
  BY <1>2, <1>3, <1>4, <1>5, Zenon

(* grow fails without effect, and only if the buffer is too small. *)
LEMMA Grown ==
    ASSUME KInv, NEW a \in Arrays, NEW count \in Nat, NEW r \in grow(a, count)
    PROVE  \/ r.ok = TRUE /\ Granted(a, r, count)
           \/ r.ok = FALSE /\ count > m_bufferSize[a] /\ r = AsIs(a, FALSE)
<1>1. m_bufferSize[a] \in Nat
  BY Buffers
<1>2. CASE m_bufferSize[a] >= count
  <2>1. r \in reserve(a, count)
    BY <1>2, Zenon DEF grow, reserve
  <2>2. QED
    BY <2>1, Reserved, Zenon
<1>3. CASE m_bufferSize[a] < count
  <2>1. PICK more \in Nat : more >= count /\ more > m_bufferSize[a] /\ r \in reserve(a, more)
    <3> DEFINE atLeast == IF count < 4 THEN 4 ELSE count
               exponentialGrowth == m_bufferSize[a] + m_bufferSize[a] \div 2
               most == IF atLeast < exponentialGrowth THEN exponentialGrowth ELSE atLeast
    <3>1. most \in Nat /\ most >= count
      BY <1>1
    <3>2. r \in reserve(a, most)
      <4>1. ~(m_bufferSize[a] >= count)
        BY <1>1, <1>3
      <4>2. QED
        BY <4>1, Zenon DEF grow
    <3>3. QED
      BY <1>1, <1>3, <3>1, <3>2
  <2>2. \/ r.ok = TRUE /\ Granted(a, r, more)
        \/ r.ok = FALSE /\ r = AsIs(a, FALSE)
    BY <2>1, Reserved, Zenon
  <2>3. Granted(a, r, more) => Granted(a, r, count)
    BY <1>1, <1>3, <2>1 DEF Granted
  <2>4. QED
    BY <1>3, <2>2, <2>3, Zenon
<1>4. m_bufferSize[a] >= count \/ m_bufferSize[a] < count
  BY <1>1
<1>5. QED
  BY <1>2, <1>3, <1>4, Zenon

-----------------------------------------------------------------------------
(* The contents a member function leaves. *)
LEMMA Slots ==
    ASSUME NEW size \in Nat, NEW n \in Nat, n <= size, NEW c \in Contents(size, n)
    PROVE  /\ DOMAIN c = 0 .. size - 1
           /\ c = [k \in 0 .. size - 1 |-> c[k]]
           /\ \A k \in 0 .. size - 1 : c[k] \in Values \cup {Raw} /\ (c[k] = Raw <=> k >= n)
           /\ \A k \in 0 .. n - 1 : c[k] \in Values
  BY DEF Contents

LEMMA ResizedContents ==
    ASSUME NEW size \in Nat, NEW n \in Nat, n <= size, NEW count \in Nat, count <= size,
           NEW r, r.slots \in Contents(size, n)
    PROVE  /\ Resized(r, n, count) \in Contents(size, count)
           /\ \A k \in 0 .. count - 1 :
                 Resized(r, n, count)[k] = IF k < n THEN r.slots[k] ELSE Zero
           /\ \A k \in DOMAIN r.slots : k >= n => r.slots[k] = Raw
<1>1. /\ DOMAIN r.slots = 0 .. size - 1
      /\ \A k \in 0 .. size - 1 : r.slots[k] \in Values \cup {Raw} /\ (r.slots[k] = Raw <=> k >= n)
  BY Slots
<1>2. QED
  BY <1>1, SlotAssumption, ValueAssumption, SMTT(20), SMTT(30) DEF Resized, Contents

(* Insert makes room at index: moveElements is called as it may be, and    *)
(* leaves that slot raw.                                                   *)
Opens(r, c, n, index) ==
    LET opened == moveElements(c, index, index + 1, n - index)
    IN  /\ CanMove(r, c, n, index, index + 1, n - index)
        /\ opened \in [0 .. r.size - 1 -> Values \cup {Raw}]
        /\ \A k \in 0 .. r.size - 1 :
              opened[k] = IF k < index THEN c[k]
                          ELSE IF k = index \/ k > n THEN Raw ELSE c[k - 1]

LEMMA Opened ==
    ASSUME NEW r, r.size \in Nat, NEW n \in Nat, n < r.size, NEW c \in Contents(r.size, n),
           NEW index \in 0 .. n
    PROVE  Opens(r, c, n, index)
<1> DEFINE size == r.size
           opened == moveElements(c, index, index + 1, n - index)
<1>1. /\ DOMAIN c = 0 .. size - 1 /\ c \in [0 .. size - 1 -> Values \cup {Raw}]
      /\ \A k \in 0 .. size - 1 : c[k] \in Values \cup {Raw} /\ (c[k] = Raw <=> k >= n)
  BY Slots DEF Contents
<1>2. CASE index = n
  <2>1. opened = c
    BY <1>2 DEF moveElements, Moves
  <2>2. CanMove(r, c, n, index, index + 1, n - index)
    BY <1>2 DEF CanMove, Moves
  <2>3. QED
    BY <1>1, <1>2, <2>1, <2>2 DEF Opens
<1>3. CASE index < n
  <2>1. opened = Shift(c, index, index + 1, n - index)
    BY <1>3 DEF moveElements, Moves
  <2>2. \A k \in 0 .. size - 1 :
           opened[k] = IF k < index THEN c[k] ELSE IF k = index \/ k > n THEN Raw ELSE c[k - 1]
    BY <1>1, <1>3, <2>1 DEF Shift
  <2>3. opened \in [0 .. size - 1 -> Values \cup {Raw}]
    BY <1>1, <1>3, <2>1 DEF Shift
  <2>4. CanMove(r, c, n, index, index + 1, n - index)
    BY <1>1, <1>3 DEF CanMove, Movable
  <2>5. QED
    BY <2>2, <2>3, <2>4 DEF Opens
<1>4. QED
  BY <1>2, <1>3

(* eraseAt closes the gap that the destructor has left.                    *)
Closes(r, c, n, index) ==
    LET destroyed == [c EXCEPT ![index] = Raw]
        closed == moveElements(destroyed, index + 1, index, n - index - 1)
    IN  /\ CanMove(r, destroyed, n, index + 1, index, n - index - 1)
        /\ closed \in Contents(r.size, n - 1)
        /\ \A k \in 0 .. n - 2 : closed[k] = IF k < index THEN c[k] ELSE c[k + 1]

LEMMA Closed ==
    ASSUME NEW r, r.size \in Nat, NEW n \in Nat, n <= r.size, NEW c \in Contents(r.size, n),
           NEW index \in 0 .. n - 1
    PROVE  Closes(r, c, n, index)
<1> DEFINE size == r.size
           destroyed == [c EXCEPT ![index] = Raw]
           closed == moveElements(destroyed, index + 1, index, n - index - 1)
<1>1. /\ DOMAIN c = 0 .. size - 1 /\ c \in [0 .. size - 1 -> Values \cup {Raw}]
      /\ \A k \in 0 .. size - 1 : c[k] \in Values \cup {Raw} /\ (c[k] = Raw <=> k >= n)
  BY Slots DEF Contents
<1>2. /\ destroyed \in [0 .. size - 1 -> Values \cup {Raw}]
      /\ \A k \in 0 .. size - 1 : destroyed[k] = IF k = index THEN Raw ELSE c[k]
  BY <1>1
<1> HIDE DEF destroyed
<1>3. CASE index = n - 1
  <2>1. closed = destroyed
    BY <1>3 DEF moveElements, Moves
  <2>2. CanMove(r, destroyed, n, index + 1, index, n - index - 1)
    BY <1>3 DEF CanMove, Moves
  <2>3. destroyed \in Contents(size, n - 1)
    BY <1>1, <1>2, <1>3 DEF Contents
  <2> HIDE DEF closed
  <2>4. \A k \in 0 .. n - 2 : closed[k] = IF k < index THEN c[k] ELSE c[k + 1]
    BY <1>2, <1>3, <2>1
  <2>5. QED
    BY <2>1, <2>2, <2>3, <2>4, Zenon DEF destroyed, closed, Closes
<1>4. CASE index < n - 1
  <2>1. closed = Shift(destroyed, index + 1, index, n - index - 1)
    BY <1>4 DEF moveElements, Moves
  <2>2. \A k \in 0 .. size - 1 :
           closed[k] = IF k < index THEN c[k] ELSE IF k >= n - 1 THEN Raw ELSE c[k + 1]
    BY <1>1, <1>2, <1>4, <2>1 DEF Shift
  <2>3. closed \in [0 .. size - 1 -> Values \cup {Raw}]
    <3>1. closed = [k \in 0 .. size - 1 |-> closed[k]]
      BY <1>2, <2>1, SMTT(20), SMTT(30) DEF Shift
    <3>2. ASSUME NEW k \in 0 .. size - 1
          PROVE  closed[k] \in Values \cup {Raw}
      <4> HIDE DEF closed
      <4>1. ~(k < index) /\ ~(k >= n - 1) => k + 1 \in 0 .. size - 1
        BY <1>4
      <4>2. QED
        BY <1>1, <2>2, <3>2, <4>1
    <3> HIDE DEF closed
    <3>3. QED
      BY <3>1, <3>2, Zenon
  <2>4. CanMove(r, destroyed, n, index + 1, index, n - index - 1)
    BY <1>1, <1>2, <1>4 DEF CanMove, Movable
  <2> HIDE DEF closed
  <2>5. closed \in Contents(size, n - 1)
    BY <1>1, <1>4, <2>2, <2>3 DEF Contents
  <2>6. \A k \in 0 .. n - 2 : closed[k] = IF k < index THEN c[k] ELSE c[k + 1]
    BY <1>4, <2>2
  <2>7. QED
    BY <2>4, <2>5, <2>6, Zenon DEF destroyed, closed, Closes
<1>5. index = n - 1 \/ index < n - 1
  OBVIOUS
<1>6. QED
  BY <1>3, <1>4, <1>5, Zenon

-----------------------------------------------------------------------------
(* The elements of the arrays, which are what Vector is about. *)
LEMMA ChangedElements ==
    ASSUME KInv, NEW a \in Arrays, NEW q, NEW n, NEW size, NEW slots,
           May(a, q, n, size, slots), Becomes(a, q, n, size, slots)
    PROVE  /\ [x \in Arrays |-> Elements(x)]' =
                 [[x \in Arrays |-> Elements(x)] EXCEPT ![a] = [i \in 1 .. n |-> slots[i - 1]]]
           /\ m_bufferSize' = [m_bufferSize EXCEPT ![a] = size]
<1>1. /\ p'[a] = q /\ m_numElements'[a] = n
      /\ \A b \in Arrays \ {a} : p'[b] = p[b] /\ m_numElements'[b] = m_numElements[b]
      /\ \A b \in Arrays \ {a} : p[b] # NULL => heap'[p[b]] = heap[p[b]]
  BY Others
<1>2. Elements(a)' = [i \in 1 .. n |-> slots[i - 1]]
  <2>1. CASE q = NULL
    <3>1. n = 0
      BY <2>1 DEF May, Possible
    <3>2. 1 .. 0 = {}
      OBVIOUS
    <3>3. QED
      BY <1>1, <3>1, <3>2 DEF Elements
  <2>2. CASE q # NULL
    <3>1. Buffer(a)' = slots
      BY <1>1, <2>2 DEF Buffer, May, Possible, Becomes
    <3>2. QED
      BY <1>1, <3>1 DEF Elements
  <2>3. QED
    BY <2>1, <2>2
<1>3. ASSUME NEW b \in Arrays \ {a}
      PROVE  Elements(b)' = Elements(b)
  <2>1. Buffer(b)' = Buffer(b)
    BY <1>1 DEF Buffer
  <2>2. QED
    BY <1>1, <2>1 DEF Elements
<1>4. QED
  BY <1>2, <1>3, Zenon DEF Becomes

(* A successful reserve or grow lets the elements be what follows. *)
LEMMA Assigned ==
    ASSUME KInv, NEW a \in Arrays, NEW count, NEW r, Granted(a, r, count),
           NEW n \in 0 .. r.size, NEW slots \in Contents(r.size, n)
    PROVE  /\ May(a, r.p, n, r.size, slots)
           /\ Assign(a, r, slots, n) => Becomes(a, r.p, n, r.size, slots)
<1>1. r.p = p[a] \/ (r.p \in Blocks /\ heap[r.p] = Freed)
  BY DEF Granted
<1>2. Possible(r.p, n, r.size, slots)
  BY SizeAssumption DEF Granted, Possible
<1>3. QED
  BY <1>1, <1>2 DEF May, Assign, Becomes

LEMMA Emptied ==
    ASSUME KInv, NEW a \in Arrays
    PROVE  /\ May(a, NULL, 0, 0, <<>>)
           /\ Reset(a) => Becomes(a, NULL, 0, 0, <<>>)
<1>1. May(a, NULL, 0, 0, <<>>)
  BY SizeAssumption DEF May, Possible
<1>2. ASSUME Reset(a)
      PROVE  Becomes(a, NULL, 0, 0, <<>>)
  BY <1>2, PointerAssumption DEF Reset, Becomes
<1>3. QED
  BY <1>1, <1>2

(* The elements of each array, as Vector has them. *)
Vec == [x \in Arrays |-> Elements(x)]

LEMMA Kept ==
    ASSUME UNCHANGED members
    PROVE  Vec' = Vec /\ m_bufferSize' = m_bufferSize
           /\ (KInv /\ UNCHANGED live => KInv')
<1>1. p' = p /\ m_numElements' = m_numElements /\ m_bufferSize' = m_bufferSize /\ heap' = heap
  BY DEF members
<1>2. \A x \in Arrays : Buffer(x)' = Buffer(x)
  BY <1>1 DEF Buffer
<1>3. \A x \in Arrays : Elements(x)' = Elements(x)
  BY <1>1, <1>2 DEF Elements
<1>4. Vec' = Vec
  BY <1>3 DEF Vec
<1>5. ASSUME KInv, UNCHANGED live
      PROVE  KInv'
  BY <1>1, <1>5 DEF KInv, Typed, Consistent, Owned
<1>6. QED
  BY <1>1, <1>4, <1>5

(* The elements of an array are a sequence. *)
LEMMA ElementsOf ==
    ASSUME KInv, NEW a \in Arrays
    PROVE  /\ Vec[a] = Elements(a)
           /\ Elements(a) \in Seq(Values)
           /\ Len(Elements(a)) = m_numElements[a]
           /\ DOMAIN Elements(a) = 1 .. m_numElements[a]
           /\ \A i \in 1 .. m_numElements[a] : Elements(a)[i] = Buffer(a)[i - 1]
           /\ \A k \in 0 .. m_numElements[a] - 1 :
                 Elements(a)[k + 1] = Buffer(a)[k] /\ Buffer(a)[k] \in Values
<1>1. /\ m_numElements[a] \in Nat /\ m_bufferSize[a] \in Nat
      /\ m_numElements[a] <= m_bufferSize[a]
      /\ Buffer(a) \in Contents(m_bufferSize[a], m_numElements[a])
  BY Buffers
<1>2. \A k \in 0 .. m_numElements[a] - 1 : Buffer(a)[k] \in Values
  BY <1>1, Slots
<1>3. Elements(a) \in [1 .. m_numElements[a] -> Values]
  BY <1>1, <1>2 DEF Elements
<1>4. Elements(a) \in Seq(Values) /\ Len(Elements(a)) = m_numElements[a]
  BY <1>1, <1>3
<1>5. \A i \in 1 .. m_numElements[a] : Elements(a)[i] = Buffer(a)[i - 1]
  BY DEF Elements
<1>6. \A k \in 0 .. m_numElements[a] - 1 : Elements(a)[k + 1] = Buffer(a)[k]
  BY <1>1, <1>5
<1>7. QED
  BY <1>2, <1>3, <1>4, <1>5, <1>6 DEF Vec

(* Becoming what it was changes nothing. *)
LEMMA StaysAsIs ==
    ASSUME KInv, NEW a \in Arrays, NEW ok, NEW count \in Nat, count <= m_bufferSize[a]
    PROVE  Granted(a, AsIs(a, ok), count) /\ AsIs(a, ok).ok = ok
<1>1. /\ m_numElements[a] \in Nat /\ m_bufferSize[a] \in Nat
      /\ m_numElements[a] <= m_bufferSize[a] /\ m_bufferSize[a] < ULONG_MAX
      /\ p[a] = NULL <=> m_bufferSize[a] = 0
      /\ Buffer(a) \in Contents(m_bufferSize[a], m_numElements[a])
      /\ p[a] # NULL => p[a] \in Blocks
  BY Buffers
<1>2. QED
  BY <1>1 DEF Granted, AsIs, Outcome

(* A live array is assigned what it may be. *)
LEMMA Step ==
    ASSUME KInv, NEW a \in Arrays, NEW count, NEW r, Granted(a, r, count),
           NEW n \in 0 .. r.size, NEW slots \in Contents(r.size, n), Assign(a, r, slots, n),
           live' = live \cup {a}
    PROVE  /\ KInv'
           /\ Vec' = [Vec EXCEPT ![a] = [i \in 1 .. n |-> slots[i - 1]]]
           /\ m_bufferSize' = [m_bufferSize EXCEPT ![a] = r.size]
<1>1. May(a, r.p, n, r.size, slots) /\ Becomes(a, r.p, n, r.size, slots)
  BY Assigned
<1>2. live' \subseteq Arrays
  BY DEF KInv, Typed
<1>3. KInv'
  BY <1>1, <1>2, Changed
<1>4. QED
  BY <1>1, <1>3, ChangedElements DEF Vec

LEMMA ReserveStep ==
    ASSUME KInv, NEW a \in Arrays, NEW count \in Counts, KArray_reserve(a, count)
    PROVE  /\ KInv' /\ UNCHANGED fault
           /\ \E ret \in BOOLEAN : /\ call' = Call("reserve", a, count, Zero, ret, FALSE)
                                   /\ V!Reserve(a, count, ret)
<1>1. PICK r \in reserve(a, count) :
         /\ call' = Call("reserve", a, count, Zero, r.ok, FALSE)
         /\ Assign(a, r, r.slots, m_numElements[a])
  BY Zenon DEF KArray_reserve
<1>2. a \in live /\ UNCHANGED <<live, stopped, fault>> /\ live' = live \cup {a}
  BY DEF KArray_reserve
<1>3. count \in Nat
  BY SizeAssumption
<1>4. \/ /\ r.ok = TRUE /\ Granted(a, r, count)
         /\ r.size = IF m_bufferSize[a] >= count THEN m_bufferSize[a] ELSE count
      \/ r.ok = FALSE /\ count > m_bufferSize[a] /\ r = AsIs(a, FALSE)
  BY <1>3, Reserved, Zenon
<1>5. PICK c \in Nat : Granted(a, r, c)
  <2>1. 0 <= m_bufferSize[a]
    BY Buffers
  <2>2. QED
    BY <1>3, <1>4, <2>1, StaysAsIs, Zenon
<1>6. /\ m_numElements[a] \in 0 .. r.size /\ r.slots \in Contents(r.size, m_numElements[a])
      /\ m_bufferSize \in [Arrays -> Nat] /\ m_numElements[a] \in Nat
      /\ \A k \in 0 .. m_numElements[a] - 1 : r.slots[k] = Buffer(a)[k]
  BY <1>5, Buffers DEF Granted, KInv, Typed
<1>7. /\ KInv'
      /\ Vec' = [Vec EXCEPT ![a] = [i \in 1 .. m_numElements[a] |-> r.slots[i - 1]]]
      /\ m_bufferSize' = [m_bufferSize EXCEPT ![a] = r.size]
  BY <1>1, <1>2, <1>5, <1>6, Step, SMTT(20), SMTT(30)
<1>8. [i \in 1 .. m_numElements[a] |-> r.slots[i - 1]] = Elements(a)
  BY <1>6 DEF Elements
<1>9. Vec' = Vec
  BY <1>7, <1>8, Zenon DEF Vec
<1>10. CASE r.ok = FALSE
  <2>1. r.size = m_bufferSize[a]
    <3>1. r = AsIs(a, FALSE)
      BY <1>4, <1>10, Zenon
    <3>2. QED
      BY <3>1 DEF AsIs, Outcome
  <2>2. m_bufferSize' = m_bufferSize
    BY <1>6, <1>7, <2>1
  <2>3. V!Reserve(a, count, FALSE)
    BY <1>1, <1>2, <1>4, <1>9, <1>10, <2>2, Zenon DEF V!Reserve, V!MayFail, V!Unchanged, V!Call, Call, Vec
  <2>4. QED
    BY <1>1, <1>2, <1>7, <1>10, <2>3, Zenon
<1>11. CASE r.ok = TRUE
  <2>1. m_bufferSize[a] >= count => m_bufferSize' = m_bufferSize
    BY <1>4, <1>6, <1>7, <1>11, Zenon
  <2>2. ~(m_bufferSize[a] >= count) => m_bufferSize' = [m_bufferSize EXCEPT ![a] = count]
    BY <1>4, <1>7, <1>11, Zenon
  <2>3. (m_bufferSize[a] >= count <=> count <= m_bufferSize[a])
        /\ (~(m_bufferSize[a] >= count) => count > m_bufferSize[a])
    BY <1>3, <1>6
  <2>4. V!Reserve(a, count, TRUE)
    BY <1>1, <1>2, <1>9, <1>11, <2>1, <2>2, <2>3, Zenon DEF V!Reserve, V!Unchanged, V!Call, Call, Vec
  <2>5. QED
    BY <1>1, <1>2, <1>7, <1>11, <2>4, Zenon
<1>12. QED
  BY <1>4, <1>10, <1>11, Zenon

(* A live array gets new elements, in the way Vector says. *)
LEMMA Becoming ==
    ASSUME KInv, NEW a \in live, NEW n \in Nat, NEW r, Granted(a, r, n),
           NEW slots \in Contents(r.size, n), Assign(a, r, slots, n),
           UNCHANGED <<live, stopped>>
    PROVE  KInv' /\ V!Become(a, [i \in 1 .. n |-> slots[i - 1]])
<1> DEFINE s == [i \in 1 .. n |-> slots[i - 1]]
<1>1. a \in Arrays /\ live' = live \cup {a} /\ m_bufferSize \in [Arrays -> Nat]
  BY DEF KInv, Typed
<1>2. n \in 0 .. r.size
  BY DEF Granted
<1>3. /\ KInv'
      /\ Vec' = [Vec EXCEPT ![a] = s]
      /\ m_bufferSize' = [m_bufferSize EXCEPT ![a] = r.size]
  BY <1>1, <1>2, Step
<1>4. Len(s) = n
  OBVIOUS
<1>5. n <= m_bufferSize[a] => m_bufferSize' = m_bufferSize
  BY <1>1, <1>3 DEF Granted
<1>6. r.size \in n .. ULONG_MAX - 1
  BY SizeAssumption DEF Granted
<1> HIDE DEF s
<1>7. V!Become(a, s)
  BY <1>3, <1>4, <1>5, <1>6, Zenon DEF V!Become, Vec
<1>8. QED
  BY <1>3, <1>7 DEF s

(* resize, which KArray_resize and pop_back call *)
LEMMA ResizeEffect ==
    ASSUME KInv, NEW a \in live, NEW count \in Nat, NEW r \in reserve(a, count),
           resize(a, count, r), UNCHANGED <<live, stopped>>, fault = FALSE
    PROVE  /\ KInv' /\ fault' = FALSE
           /\ \/ r.ok = FALSE /\ V!MayFail(a, count, FALSE)
              \/ /\ r.ok = TRUE
                 /\ V!Become(a, [i \in 1 .. count |-> IF i <= m_numElements[a] THEN Elements(a)[i] ELSE Zero])
<1>1. a \in Arrays
  BY DEF KInv, Typed
<1>2. \/ r.ok = TRUE /\ Granted(a, r, count)
      \/ r.ok = FALSE /\ count > m_bufferSize[a]
  BY <1>1, Reserved, Zenon
<1>3. CASE r.ok = FALSE
  <2>1. UNCHANGED <<members, fault>>
    BY <1>3 DEF resize
  <2>2. KInv' /\ Vec' = Vec /\ m_bufferSize' = m_bufferSize
    BY <2>1, Kept
  <2>3. V!MayFail(a, count, FALSE)
    BY <1>2, <1>3, <2>2 DEF V!MayFail, V!Unchanged, Vec
  <2>4. QED
    BY <1>3, <2>1, <2>2, <2>3, Zenon
<1>4. CASE r.ok = TRUE
  <2> DEFINE n == m_numElements[a]
             slots == Resized(r, n, count)
  <2>1. Granted(a, r, count) /\ n \in Nat
    BY <1>1, <1>2, <1>4, Buffers
  <2>2. /\ Assign(a, r, slots, count)
        /\ fault' = (fault \/ \E k \in DOMAIN r.slots : k >= n /\ k < count /\ r.slots[k] # Raw)
    BY <1>4 DEF resize
  <2>3. /\ r.size \in Nat /\ n <= r.size /\ count <= r.size /\ r.slots \in Contents(r.size, n)
        /\ \A k \in 0 .. n - 1 : r.slots[k] = Buffer(a)[k]
    BY <2>1 DEF Granted
  <2>4. /\ slots \in Contents(r.size, count)
        /\ \A k \in 0 .. count - 1 : slots[k] = IF k < n THEN r.slots[k] ELSE Zero
        /\ \A k \in DOMAIN r.slots : k >= n => r.slots[k] = Raw
    BY <2>1, <2>3, ResizedContents
  <2> HIDE DEF slots
  <2>5. fault' = FALSE
    BY <2>2, <2>4, Zenon
  <2>6. KInv' /\ V!Become(a, [i \in 1 .. count |-> slots[i - 1]])
    BY <2>1, <2>2, <2>4, Becoming, SMTT(20)
  <2>7. \A i \in 1 .. count : slots[i - 1] = IF i <= n THEN Elements(a)[i] ELSE Zero
    BY <2>1, <2>3, <2>4, SMTT(20), SMTT(30) DEF Elements
  <2>8. [i \in 1 .. count |-> slots[i - 1]]
           = [i \in 1 .. count |-> IF i <= m_numElements[a] THEN Elements(a)[i] ELSE Zero]
    BY <2>7
  <2>9. QED
    BY <1>4, <2>5, <2>6, <2>8, Zenon
<1>5. QED
  BY <1>2, <1>3, <1>4, Zenon

LEMMA ResizeStep ==
    ASSUME KInv, NEW a \in Arrays, NEW count \in Counts, KArray_resize(a, count), fault = FALSE
    PROVE  /\ KInv' /\ fault' = FALSE
           /\ \E ret \in BOOLEAN : /\ call' = Call("resize", a, count, Zero, ret, FALSE)
                                   /\ V!Resize(a, count, ret)
<1>1. PICK r \in reserve(a, count) :
         /\ call' = Call("resize", a, count, Zero, r.ok, FALSE)
         /\ resize(a, count, r)
  BY Zenon DEF KArray_resize
<1>2. a \in live /\ UNCHANGED <<live, stopped>> /\ count \in Nat
  BY SizeAssumption DEF KArray_resize
<1>3. /\ KInv' /\ fault' = FALSE
      /\ \/ r.ok = FALSE /\ V!MayFail(a, count, FALSE)
         \/ /\ r.ok = TRUE
            /\ V!Become(a, [i \in 1 .. count |-> IF i <= m_numElements[a] THEN Elements(a)[i] ELSE Zero])
  BY <1>1, <1>2, ResizeEffect, Zenon
<1>4. Vec[a] = Elements(a) /\ Len(Vec[a]) = m_numElements[a]
  BY ElementsOf
<1>5. V!Resize(a, count, r.ok)
  BY <1>1, <1>2, <1>3, <1>4, Zenon DEF V!Resize, V!Call, Call, Vec
<1>6. QED
  BY <1>1, <1>3, <1>5, Zenon

LEMMA PopBackStep ==
    ASSUME KInv, NEW a \in Arrays, pop_back(a), fault = FALSE
    PROVE  /\ KInv' /\ fault' = FALSE
           /\ call' = Call("pop_back", a, 0, Zero, TRUE, FALSE)
           /\ V!PopBack(a)
<1> DEFINE n == m_numElements[a]
           count == IF n = 0 THEN SIZE_MAX ELSE n - 1
<1>1. PICK r \in reserve(a, count) : resize(a, count, r)
  BY DEF pop_back
<1>2. a \in live /\ UNCHANGED <<live, stopped>> /\ call' = Call("pop_back", a, 0, Zero, TRUE, FALSE)
  BY DEF pop_back
<1>3. n \in Nat /\ n <= m_bufferSize[a] /\ m_bufferSize[a] \in Nat /\ m_bufferSize[a] < ULONG_MAX
  BY Buffers
<1>4. count \in Nat
  BY <1>3, SizeAssumption
<1>5. /\ KInv' /\ fault' = FALSE
      /\ \/ r.ok = FALSE /\ V!MayFail(a, count, FALSE)
         \/ /\ r.ok = TRUE
            /\ V!Become(a, [i \in 1 .. count |-> IF i <= m_numElements[a] THEN Elements(a)[i] ELSE Zero])
  BY <1>1, <1>2, <1>4, ResizeEffect, Zenon
<1>6. Vec[a] = Elements(a) /\ Len(Vec[a]) = n /\ Vec[a] \in Seq(Values)
  BY ElementsOf
<1>7. V!Become(a, SubSeq(Vec[a], 1, n - 1))
  <2>1. CASE n = 0
    <3>1. r.ok = FALSE
      <4>1. r.ok = TRUE => Granted(a, r, count)
        BY <1>4, Reserved, Zenon
      <4>2. QED
        BY <1>3, <1>5, <2>1, <4>1, SizeAssumption DEF Granted
    <3>2. Vec' = Vec /\ m_bufferSize' = m_bufferSize
      BY <1>5, <3>1 DEF V!MayFail, V!Unchanged, Vec
    <3>3. SubSeq(Vec[a], 1, n - 1) = Vec[a] /\ Vec = [x \in Arrays |-> Vec[x]]
      BY <1>6, <2>1 DEF Vec
    <3>4. Vec' = [Vec EXCEPT ![a] = Vec[a]] /\ Len(Vec[a]) <= m_bufferSize[a]
      BY <1>3, <1>6, <3>2, <3>3
    <3>5. QED
      BY <1>2, <3>2, <3>3, <3>4, Zenon DEF V!Become, Vec
  <2>2. CASE n # 0
    <3>1. r.ok = TRUE /\ count = n - 1
      <4>1. r.ok = FALSE => count > m_bufferSize[a]
        BY <1>4, Reserved, Zenon
      <4>2. QED
        BY <1>3, <1>5, <2>2, <4>1
    <3>2. [i \in 1 .. count |-> IF i <= m_numElements[a] THEN Elements(a)[i] ELSE Zero]
             = SubSeq(Vec[a], 1, n - 1)
      BY <1>3, <1>6, <2>2, <3>1
    <3>3. QED
      BY <1>5, <3>1, <3>2, Zenon
  <2>3. QED
    BY <2>1, <2>2
<1>8. V!PopBack(a)
  BY <1>2, <1>6, <1>7 DEF V!PopBack, V!Call, Call, Vec
<1>9. QED
  BY <1>2, <1>5, <1>8

-----------------------------------------------------------------------------
(* What concatenation and the operations of Vector do to a sequence. *)
LEMMA Concatenated ==
    ASSUME NEW S, NEW x \in Seq(S), NEW y \in Seq(S)
    PROVE  /\ x \o y \in Seq(S) /\ Len(x \o y) = Len(x) + Len(y)
           /\ \A j \in 1 .. Len(x) + Len(y) : (x \o y)[j] = IF j <= Len(x) THEN x[j] ELSE y[j - Len(x)]
<1>1. x \o y \in Seq(S)
  OBVIOUS
<1>2. Len(x \o y) = Len(x) + Len(y)
  OBVIOUS
<1>3. ASSUME NEW j \in 1 .. Len(x) + Len(y)
      PROVE  (x \o y)[j] = IF j <= Len(x) THEN x[j] ELSE y[j - Len(x)]
  OBVIOUS
<1>4. QED
  BY <1>1, <1>2, <1>3

With(s, i, v) == [j \in 1 .. Len(s) + 1 |-> IF j < i THEN s[j] ELSE IF j = i THEN v ELSE s[j - 1]]
Without(s, i) == [j \in 1 .. Len(s) - 1 |-> IF j < i THEN s[j] ELSE s[j + 1]]

LEMMA InsertAtElements ==
    ASSUME NEW S, NEW s \in Seq(S), NEW i \in 1 .. Len(s) + 1, NEW v \in S
    PROVE  V!InsertAt(s, i, v) = With(s, i, v)
<1> DEFINE n == Len(s)
           u == SubSeq(s, 1, i - 1)
           w == SubSeq(s, i, Len(s))
           x == u \o <<v>>
           t == x \o w
<1>1. n \in Nat /\ i \in 1 .. n + 1
  OBVIOUS
<1>2. u \in Seq(S) /\ Len(u) = i - 1 /\ \A j \in 1 .. i - 1 : u[j] = s[j]
  OBVIOUS
<1>3. w \in Seq(S) /\ Len(w) = n - i + 1 /\ \A j \in 1 .. n - i + 1 : w[j] = s[i + j - 1]
  OBVIOUS
<1> HIDE DEF u, w
<1>4. x \in Seq(S) /\ Len(x) = i /\ \A j \in 1 .. i : x[j] = IF j < i THEN u[j] ELSE v
  BY <1>1, <1>2
<1> HIDE DEF x
<1>5. /\ t \in Seq(S) /\ Len(t) = Len(x) + Len(w)
      /\ \A j \in 1 .. Len(x) + Len(w) : t[j] = IF j <= Len(x) THEN x[j] ELSE w[j - Len(x)]
  BY <1>3, <1>4, Concatenated
<1> HIDE DEF n, t
<1>6. Len(t) = n + 1 /\ \A j \in 1 .. n + 1 : t[j] = IF j <= i THEN x[j] ELSE w[j - i]
  <2>1. Len(x) + Len(w) = n + 1 /\ Len(x) = i
    BY <1>1, <1>3, <1>4
  <2>2. QED
    BY <1>5, <2>1
<1>7. ASSUME NEW j \in 1 .. n + 1
      PROVE  t[j] = IF j < i THEN s[j] ELSE IF j = i THEN v ELSE s[j - 1]
  <2>1. CASE j <= i
    BY <1>1, <1>2, <1>4, <1>6, <2>1
  <2>2. CASE j > i
    <3>1. j - i \in 1 .. n - i + 1 /\ i + (j - i) - 1 = j - 1 /\ ~(j <= i) /\ ~(j < i) /\ j # i
      BY <1>1, <2>2
    <3>2. t[j] = w[j - i] /\ w[j - i] = s[i + (j - i) - 1]
      BY <1>3, <1>6, <3>1
    <3>3. QED
      BY <3>1, <3>2, SMTT(20), SMTT(30)
  <2>3. QED
    BY <1>1, <2>1, <2>2
<1>8. t = [j \in 1 .. n + 1 |-> t[j]]
  BY <1>5, <1>6
<1>9. V!InsertAt(s, i, v) = t
  BY DEF V!InsertAt, u, w, x, t
<1>10. QED
  BY <1>7, <1>8, <1>9 DEF n, With

LEMMA RemoveAtElements ==
    ASSUME NEW S, NEW s \in Seq(S), NEW i \in 1 .. Len(s)
    PROVE  V!RemoveAt(s, i) = Without(s, i)
<1> DEFINE n == Len(s)
           u == SubSeq(s, 1, i - 1)
           w == SubSeq(s, i + 1, Len(s))
           t == u \o w
<1>1. n \in Nat /\ i \in 1 .. n
  OBVIOUS
<1>2. u \in Seq(S) /\ Len(u) = i - 1 /\ \A j \in 1 .. i - 1 : u[j] = s[j]
  OBVIOUS
<1>3. w \in Seq(S) /\ Len(w) = n - i /\ \A j \in 1 .. n - i : w[j] = s[i + j]
  OBVIOUS
<1> HIDE DEF u, w
<1>4. /\ t \in Seq(S) /\ Len(t) = Len(u) + Len(w)
      /\ \A j \in 1 .. Len(u) + Len(w) : t[j] = IF j <= Len(u) THEN u[j] ELSE w[j - Len(u)]
  BY <1>2, <1>3, Concatenated, Zenon
<1> HIDE DEF n, t
<1>5. Len(t) = n - 1 /\ \A j \in 1 .. n - 1 : t[j] = IF j <= i - 1 THEN u[j] ELSE w[j - (i - 1)]
  <2>1. Len(u) + Len(w) = n - 1 /\ Len(u) = i - 1
    BY <1>1, <1>2, <1>3
  <2>2. QED
    BY <1>4, <2>1
<1>6. ASSUME NEW j \in 1 .. n - 1
      PROVE  t[j] = IF j < i THEN s[j] ELSE s[j + 1]
  <2>1. CASE j < i
    BY <1>1, <1>2, <1>5, <2>1
  <2>2. CASE ~(j < i)
    <3>1. j - (i - 1) \in 1 .. n - i /\ i + (j - (i - 1)) = j + 1 /\ ~(j <= i - 1)
      BY <1>1, <2>2
    <3>2. t[j] = w[j - (i - 1)] /\ w[j - (i - 1)] = s[i + (j - (i - 1))]
      BY <1>3, <1>5, <3>1
    <3>3. QED
      BY <2>2, <3>1, <3>2
  <2>3. QED
    BY <2>1, <2>2
<1>7. t = [j \in 1 .. n - 1 |-> t[j]]
  BY <1>4, <1>5
<1>8. V!RemoveAt(s, i) = t
  BY DEF V!RemoveAt, u, w, t
<1>9. QED
  BY <1>6, <1>7, <1>8 DEF n, Without

LEMMA AppendElements ==
    ASSUME NEW S, NEW s \in Seq(S), NEW v \in S
    PROVE  With(s, Len(s) + 1, v) = Append(s, v)
<1> DEFINE n == Len(s)
           u == With(s, Len(s) + 1, v)
           t == Append(s, v)
<1>1. n \in Nat
  OBVIOUS
<1>2. t \in Seq(S) /\ Len(t) = n + 1 /\ \A j \in 1 .. n + 1 : t[j] = IF j = n + 1 THEN v ELSE s[j]
  OBVIOUS
<1>3. DOMAIN u = 1 .. n + 1 /\ u = [j \in 1 .. n + 1 |-> u[j]]
  BY DEF With
<1>4. \A j \in 1 .. n + 1 : u[j] = IF j = n + 1 THEN v ELSE s[j]
  BY <1>1 DEF With
<1> HIDE DEF u, t, n
<1>5. t = [j \in 1 .. n + 1 |-> t[j]]
  BY <1>2
<1>6. u = t
  BY <1>2, <1>3, <1>4, <1>5
<1>7. QED
  BY <1>6 DEF u, t

(* Insert, which is what append, insertAt and insertSorted come to: it     *)
(* either fails without effect or inserts what the reference reads by then *)
Inserted(a, index, t, k) ==
    \E w \in Values :
       /\ V!Become(a, V!InsertAt(Vec[a], index + 1, w))
       /\ k = Elsewhere => w = t
       /\ k # Elsewhere /\ m_numElements[a] < m_bufferSize[a] /\ k < index => w = Buffer(a)[k]
       /\ k # Elsewhere /\ m_numElements[a] < m_bufferSize[a] /\ k > index => w = Buffer(a)[k - 1]

LEMMA InsertEffect ==
    ASSUME KInv, fault = FALSE, NEW a \in live, NEW op, NEW pos, NEW index \in 0 .. m_numElements[a],
           NEW t \in Values, NEW rvalue \in BOOLEAN,
           NEW k, k = Elsewhere \/ k \in 0 .. m_numElements[a] - 1,
           Insert(op, a, pos, index, t, rvalue, k), UNCHANGED <<live, stopped>>
    PROVE  /\ KInv' /\ fault' = FALSE
           /\ \/ /\ call' = Call(op, a, pos, t, FALSE, FALSE)
                 /\ V!MayFail(a, m_numElements[a] + 1, FALSE)
              \/ call' = Call(op, a, pos, t, TRUE, rvalue) /\ Inserted(a, index, t, k)
<1> DEFINE n == m_numElements[a]
           size == m_bufferSize[a]
<1>1. PICK r \in grow(a, m_numElements[a] + 1) :
         LET opened == moveElements(r.slots, index, index + 1, m_numElements[a] - index)
         IN  /\ call' = Call(op, a, pos, t, r.ok, r.ok /\ rvalue)
             /\ IF r.ok
                THEN /\ \E new \in Read(a, r, opened, t, k) :
                           Assign(a, r, [opened EXCEPT ![index] = new], m_numElements[a] + 1)
                     /\ fault' = (fault \/ opened[index] # Raw
                          \/ ~CanMove(r, r.slots, m_numElements[a], index, index + 1,
                                      m_numElements[a] - index))
                ELSE UNCHANGED <<members, fault>>
  BY Zenon DEF Insert
<1>2. a \in Arrays
  BY DEF KInv, Typed
<1>3. /\ n \in Nat /\ size \in Nat /\ n <= size /\ size < ULONG_MAX
      /\ Buffer(a) \in Contents(size, n)
  BY <1>2, Buffers
<1>4. \/ r.ok = TRUE /\ Granted(a, r, n + 1)
      \/ r.ok = FALSE /\ n + 1 > size
  <2>1. n + 1 \in Nat
    BY <1>3
  <2>2. QED
    BY <1>1, <1>2, <2>1, Grown, Zenon
<1>5. CASE r.ok = FALSE
  <2>1. UNCHANGED <<members, fault>> /\ call' = Call(op, a, pos, t, FALSE, FALSE)
    BY <1>1, <1>5, Zenon
  <2>2. KInv' /\ Vec' = Vec /\ m_bufferSize' = m_bufferSize
    BY <2>1, Kept
  <2>3. V!MayFail(a, n + 1, FALSE)
    BY <1>4, <1>5, <2>2 DEF V!MayFail, V!Unchanged, Vec
  <2>4. QED
    BY <2>1, <2>2, <2>3, Zenon
<1>6. CASE r.ok = TRUE
  <2> DEFINE opened == moveElements(r.slots, index, index + 1, m_numElements[a] - index)
  <2>1. /\ Granted(a, r, n + 1)
        /\ r.size \in Nat /\ n + 1 <= r.size /\ r.slots \in Contents(r.size, n)
        /\ \A j \in 0 .. n - 1 : r.slots[j] = Buffer(a)[j]
        /\ n < size => r.p = p[a]
    BY <1>3, <1>4, <1>6, SMTT(20), SMTT(30) DEF Granted
  <2>2. /\ CanMove(r, r.slots, n, index, index + 1, n - index)
        /\ opened \in [0 .. r.size - 1 -> Values \cup {Raw}]
        /\ \A j \in 0 .. r.size - 1 :
              opened[j] = IF j < index THEN r.slots[j]
                          ELSE IF j = index \/ j > n THEN Raw ELSE r.slots[j - 1]
    <3>1. /\ r.size \in Nat /\ n \in Nat /\ n < r.size /\ r.slots \in Contents(r.size, n)
          /\ index \in 0 .. n
      BY <1>3, <2>1
    <3>2. Opens(r, r.slots, n, index)
      BY <3>1, Opened
    <3>3. QED
      BY <3>2 DEF Opens
  <2>3. /\ call' = Call(op, a, pos, t, TRUE, rvalue)
        /\ \E new \in Read(a, r, opened, t, k) :
              Assign(a, r, [opened EXCEPT ![index] = new], m_numElements[a] + 1)
        /\ fault' = (fault \/ opened[index] # Raw
                     \/ ~CanMove(r, r.slots, n, index, index + 1, n - index))
    <3>1. (r.ok /\ rvalue) = rvalue
      BY <1>6, Zenon
    <3>2. QED
      BY <1>1, <1>6, <3>1, Zenon
  <2> HIDE DEF opened
  <2>4. PICK w \in Read(a, r, opened, t, k) :
           Assign(a, r, [opened EXCEPT ![index] = w], m_numElements[a] + 1)
    BY <2>3, SMTT(20), SMTT(30)
  <2>5. opened[index] = Raw /\ index \in 0 .. r.size - 1
    BY <1>3, <2>1, <2>2, SMTT(20), SMTT(30)
  <2>6. fault' = FALSE
    BY <2>2, <2>3, <2>5, Zenon
  <2>7. /\ \A j \in 0 .. n - 1 : r.slots[j] \in Values
        /\ \A j \in 0 .. r.size - 1 : r.slots[j] = Raw <=> j >= n
    <3>1. r.size \in Nat /\ n \in Nat /\ n <= r.size /\ r.slots \in Contents(r.size, n)
      BY <1>3, <2>1
    <3>2. QED
      BY <3>1, Slots, SMTT(20), SMTT(30)
  <2>8. \A j \in 0 .. n - 1 : r.slots[j] # Raw
    BY <2>7, SlotAssumption
  <2>9. /\ w \in Values
        /\ k = Elsewhere => w = t
        /\ k # Elsewhere /\ n < size /\ k < index => w = Buffer(a)[k]
        /\ k # Elsewhere /\ n < size /\ k > index => w = Buffer(a)[k - 1]
    <3>1. CASE k = Elsewhere
      BY <2>4, <3>1 DEF Read
    <3>2. CASE k # Elsewhere
      <4>1. k \in 0 .. n - 1 /\ k \in 0 .. r.size - 1
        BY <1>3, <2>1, <3>2
      <4>2. w \in IF r.p # p[a] \/ opened[k] = Raw THEN Values ELSE {opened[k]}
        BY <2>4, <3>2 DEF Read
      <4>3. w \in Values
        BY <2>2, <4>1, <4>2, SMTT(20), SMTT(30)
      <4>4. n < size /\ k < index => w = Buffer(a)[k]
        <5>1. k < index => opened[k] = r.slots[k] /\ r.slots[k] # Raw
          BY <2>2, <2>8, <4>1, SMTT(20), SMTT(30)
        <5>2. QED
          BY <2>1, <4>1, <4>2, <5>1, SMTT(20), SMTT(30)
      <4>5. n < size /\ k > index => w = Buffer(a)[k - 1]
        <5>1. k > index => opened[k] = r.slots[k - 1] /\ r.slots[k - 1] # Raw /\ k - 1 \in 0 .. n - 1
          <6>1. k > index => ~(k < index) /\ k # index /\ ~(k > n) /\ k - 1 \in 0 .. n - 1
            BY <1>3, <4>1
          <6>2. QED
            BY <2>2, <2>8, <4>1, <6>1, SMTT(20), SMTT(30)
        <5>2. QED
          BY <2>1, <4>1, <4>2, <5>1, SMTT(20), SMTT(30)
      <4>6. QED
        BY <3>2, <4>3, <4>4, <4>5, SMTT(20), SMTT(30)
    <3>3. QED
      BY <3>1, <3>2
  <2> DEFINE slots == [opened EXCEPT ![index] = w]
  <2>10. slots \in Contents(r.size, n + 1)
    <3>1. slots \in [0 .. r.size - 1 -> Values \cup {Raw}]
      BY <2>2, <2>9, Zenon
    <3>2. ASSUME NEW j \in 0 .. r.size - 1
          PROVE  slots[j] = Raw <=> j >= n + 1
      BY <1>3, <2>2, <2>5, <2>7, <2>9, <3>2, SlotAssumption, SMTT(20), SMTT(30)
    <3>3. QED
      BY <3>1, <3>2 DEF Contents
  <2>11. KInv' /\ V!Become(a, [i \in 1 .. n + 1 |-> slots[i - 1]])
    <3> HIDE DEF slots
    <3>1. Assign(a, r, slots, n + 1)
      BY <2>4 DEF slots
    <3>2. n + 1 \in Nat
      BY <1>3
    <3>3. QED
      BY <2>1, <2>10, <3>1, <3>2, Becoming, Zenon
  <2>12. [i \in 1 .. n + 1 |-> slots[i - 1]] = V!InsertAt(Vec[a], index + 1, w)
    <3>1. /\ Len(Vec[a]) = n /\ Vec[a] \in Seq(Values)
          /\ \A i \in 1 .. n : Vec[a][i] = Buffer(a)[i - 1]
      BY <1>2, ElementsOf
    <3>2. ASSUME NEW i \in 1 .. n + 1
          PROVE  slots[i - 1] = IF i < index + 1 THEN Vec[a][i]
                                ELSE IF i = index + 1 THEN w ELSE Vec[a][i - 1]
      <4>1. i - 1 \in 0 .. r.size - 1 /\ ~(i - 1 > n)
        BY <1>3, <2>1
      <4>2. slots[i - 1] = IF i - 1 = index THEN w ELSE opened[i - 1]
        BY <2>2, <4>1, SMTT(20), SMTT(30)
      <4> HIDE DEF slots
      <4>3. i < index + 1 => opened[i - 1] = Vec[a][i] /\ i - 1 # index
        <5>1. SUFFICES ASSUME i < index + 1
                       PROVE  opened[i - 1] = Vec[a][i] /\ i - 1 # index
          OBVIOUS
        <5>2. i - 1 < index /\ i - 1 \in 0 .. n - 1 /\ i \in 1 .. n /\ i - 1 # index
          BY <1>3, <5>1, SMTT(20), SMTT(30)
        <5>3. opened[i - 1] = r.slots[i - 1] /\ r.slots[i - 1] = Buffer(a)[i - 1]
          BY <2>1, <2>2, <4>1, <5>2
        <5>4. QED
          BY <3>1, <5>2, <5>3
      <4>4. ~(i < index + 1) /\ i # index + 1 => opened[i - 1] = Vec[a][i - 1] /\ i - 1 # index
        <5>1. SUFFICES ASSUME ~(i < index + 1), i # index + 1
                       PROVE  opened[i - 1] = Vec[a][i - 1] /\ i - 1 # index
          OBVIOUS
        <5>2. /\ ~(i - 1 < index) /\ i - 1 # index /\ (i - 1) - 1 \in 0 .. n - 1
              /\ i - 1 \in 1 .. n
          BY <1>3, <5>1, SMTT(20), SMTT(30)
        <5>3. opened[i - 1] = r.slots[(i - 1) - 1] /\ r.slots[(i - 1) - 1] = Buffer(a)[(i - 1) - 1]
          BY <2>1, <2>2, <4>1, <5>2
        <5>4. QED
          BY <3>1, <5>2, <5>3, Zenon
      <4>5. QED
        BY <4>2, <4>3, <4>4, SMTT(20), SMTT(30)
    <3>3. QED
      <4>1. index + 1 \in 1 .. Len(Vec[a]) + 1
        BY <1>3, <3>1, SMTT(20), SMTT(30)
      <4>2. V!InsertAt(Vec[a], index + 1, w) = With(Vec[a], index + 1, w)
        BY <2>9, <3>1, <4>1, InsertAtElements, SMTT(20), SMTT(30)
      <4>3. QED
        BY <3>1, <3>2, <4>2, Zenon DEF With
  <2>13. QED
    BY <2>3, <2>6, <2>9, <2>11, <2>12, Zenon DEF Inserted
<1>7. QED
  BY <1>4, <1>5, <1>6, Zenon

-----------------------------------------------------------------------------
(* The position at which insertSorted and insertSortedUnique insert. *)
LEMMA Least ==
    ASSUME NEW T \in SUBSET Nat, T # {}
    PROVE  \E x \in T : \A y \in T : x <= y
<1>1. IsWellFoundedOn(OpToRel(<, Nat), Nat)
  BY NatLessThanWellFounded, Zenon
<1>2. PICK x \in T : \A y \in T : ~(<<y, x>> \in OpToRel(<, Nat))
  BY <1>1, WFMin, Zenon
<1>3. ASSUME NEW y \in T
      PROVE  x <= y
  <2>1. x \in Nat /\ y \in Nat
    OBVIOUS
  <2>2. ~(<<y, x>> \in OpToRel(<, Nat))
    BY <1>2, Zenon
  <2>3. ~(y < x)
    BY <2>1, <2>2 DEF OpToRel
  <2>4. QED
    BY <2>1, <2>3
<1>4. QED
  BY <1>3

LEMMA PositionIs ==
    ASSUME KInv, NEW a \in Arrays, NEW t \in Values
    PROVE  /\ Position(a, t) \in 0 .. m_numElements[a]
           /\ \A k \in 0 .. Position(a, t) - 1 : Buffer(a)[k] < t
           /\ NotLess(a, t) # {} => Position(a, t) < m_numElements[a]
           /\ Position(a, t) < m_numElements[a] =>
                 NotLess(a, t) # {} /\ ~(Buffer(a)[Position(a, t)] < t)
<1> DEFINE n == m_numElements[a]
           T == NotLess(a, t)
           q == Position(a, t)
<1>1. n \in Nat
  BY Buffers
<1>2. T \in SUBSET (0 .. n - 1) /\ T \in SUBSET Nat
  BY DEF NotLess
<1>3. \A k \in 0 .. n - 1 : k \notin T <=> Buffer(a)[k] < t
  BY DEF NotLess
<1>4. CASE T = {}
  <2>1. q = n
    BY <1>4 DEF Position
  <2> HIDE DEF T, q
  <2>2. QED
    BY <1>1, <1>3, <1>4, <2>1 DEF q, T
<1>5. CASE T # {}
  <2> DEFINE IsLeast(x) == \A y \in T : x <= y
  <2>1. \E x \in T : IsLeast(x)
    <3> HIDE DEF T
    <3>1. QED
      BY <1>2, <1>5, Least
  <2>2. q = CHOOSE x \in T : IsLeast(x)
    BY <1>5 DEF Position
  <2> HIDE DEF T, q
  <2>3. q \in T /\ IsLeast(q)
    BY <2>1, <2>2, Zenon
  <2>4. q \in 0 .. n - 1 /\ \A k \in 0 .. q - 1 : k \notin T
    BY <1>1, <1>2, <2>3
  <2>5. ~(Buffer(a)[q] < t)
    BY <1>3, <2>3, <2>4
  <2>6. \A k \in 0 .. q - 1 : Buffer(a)[k] < t
    BY <1>1, <1>3, <2>4
  <2>7. QED
    BY <1>1, <1>5, <2>4, <2>5, <2>6 DEF q, T
<1>6. QED
  BY <1>4, <1>5

(* A number inserted where it belongs keeps the order. *)
LEMMA InsertedInOrder ==
    ASSUME NEW s \in Seq(Int), NEW t \in Int, NEW q \in 0 .. Len(s),
           \A i \in 1 .. q : s[i] < t
    PROVE  /\ (q < Len(s) => s[q + 1] >= t) /\ V!Ascending(s)
                => V!Ascending(V!InsertAt(s, q + 1, t))
           /\ (q < Len(s) => s[q + 1] > t) /\ V!Strictly(s)
                => V!Strictly(V!InsertAt(s, q + 1, t))
<1> DEFINE n == Len(s)
           u == V!InsertAt(s, q + 1, t)
<1>1. n \in Nat /\ q \in 0 .. n /\ \A i \in 1 .. n : s[i] \in Int
  OBVIOUS
<1>2. u = [j \in 1 .. n + 1 |-> IF j < q + 1 THEN s[j] ELSE IF j = q + 1 THEN t ELSE s[j - 1]]
  <2>1. q + 1 \in 1 .. Len(s) + 1
    OBVIOUS
  <2>2. u = With(s, q + 1, t)
    BY <2>1, InsertAtElements
  <2>3. QED
    BY <2>2 DEF With
<1>3. Len(u) = n + 1
  BY <1>1, <1>2
<1>4. \A j \in 1 .. n + 1 : /\ j < q + 1 => u[j] = s[j]
                            /\ j = q + 1 => u[j] = t
                            /\ j > q + 1 => u[j] = s[j - 1]
  <2> HIDE DEF u, n
  <2>1. QED
    BY <1>1, <1>2 DEF n
<1> HIDE DEF u, n
<1>5. ASSUME q < n => s[q + 1] >= t, V!Ascending(s), NEW i \in 1 .. n + 1, NEW j \in 1 .. n + 1, i < j
      PROVE  u[i] <= u[j]
  <2>0. \A k, m \in 1 .. n : k < m => s[k] <= s[m]
    BY <1>5, Zenon DEF V!Ascending, n
  <2>1. ASSUME NEW k \in 1 .. n, k > q
        PROVE  s[k] >= t
    <3>1. q + 1 \in 1 .. n /\ q < n /\ (k = q + 1 \/ q + 1 < k)
      BY <1>1, <2>1
    <3>2. s[q + 1] >= t /\ (k = q + 1 \/ s[q + 1] <= s[k])
      BY <1>5, <2>0, <3>1
    <3>3. s[k] \in Int /\ s[q + 1] \in Int
      BY <1>1, <3>1
    <3>4. QED
      BY <3>2, <3>3
  <2>2. CASE j < q + 1
    BY <1>1, <1>4, <1>5, <2>0, <2>2
  <2>3. CASE j = q + 1
    BY <1>1, <1>4, <1>5, <2>3 DEF n
  <2>4. CASE j > q + 1 /\ i < q + 1
    <3>1. u[i] = s[i] /\ u[j] = s[j - 1] /\ s[i] < t /\ s[j - 1] >= t /\ s[i] \in Int /\ s[j - 1] \in Int
      BY <1>1, <1>4, <1>5, <2>1, <2>4, SMTT(20), SMTT(30) DEF n
    <3>2. QED
      BY <3>1
  <2>5. CASE j > q + 1 /\ i = q + 1
    <3>1. u[i] = t /\ u[j] = s[j - 1] /\ j - 1 \in 1 .. n /\ j - 1 > q
      BY <1>1, <1>4, <1>5, <2>5
    <3>2. s[j - 1] >= t /\ s[j - 1] \in Int
      BY <1>1, <2>1, <3>1
    <3>3. QED
      BY <3>1, <3>2
  <2>6. CASE j > q + 1 /\ i > q + 1
    <3>1. u[i] = s[i - 1] /\ u[j] = s[j - 1] /\ i - 1 \in 1 .. n /\ j - 1 \in 1 .. n /\ i - 1 < j - 1
      BY <1>1, <1>4, <1>5, <2>6
    <3>2. QED
      BY <2>0, <3>1
  <2>7. QED
    BY <1>1, <2>2, <2>3, <2>4, <2>5, <2>6
<1>6. ASSUME q < n => s[q + 1] > t, V!Strictly(s), NEW i \in 1 .. n + 1, NEW j \in 1 .. n + 1, i < j
      PROVE  u[i] < u[j]
  <2>0. \A k, m \in 1 .. n : k < m => s[k] < s[m]
    BY <1>6, Zenon DEF V!Strictly, n
  <2>1. ASSUME NEW k \in 1 .. n, k > q
        PROVE  s[k] > t
    <3>1. q + 1 \in 1 .. n /\ q < n /\ (k = q + 1 \/ q + 1 < k)
      BY <1>1, <2>1
    <3>2. s[q + 1] > t /\ (k = q + 1 \/ s[q + 1] < s[k])
      BY <1>6, <2>0, <3>1
    <3>3. s[k] \in Int /\ s[q + 1] \in Int
      BY <1>1, <3>1
    <3>4. QED
      BY <3>2, <3>3, SMTT(20), SMTT(30)
  <2>2. CASE j < q + 1
    BY <1>1, <1>4, <1>6, <2>0, <2>2
  <2>3. CASE j = q + 1
    BY <1>1, <1>4, <1>6, <2>3 DEF n
  <2>4. CASE j > q + 1 /\ i < q + 1
    <3>1. u[i] = s[i] /\ u[j] = s[j - 1] /\ s[i] < t /\ s[j - 1] > t /\ s[i] \in Int /\ s[j - 1] \in Int
      BY <1>1, <1>4, <1>6, <2>1, <2>4, SMTT(20), SMTT(30) DEF n
    <3>2. QED
      BY <3>1
  <2>5. CASE j > q + 1 /\ i = q + 1
    <3>1. u[i] = t /\ u[j] = s[j - 1] /\ j - 1 \in 1 .. n /\ j - 1 > q
      BY <1>1, <1>4, <1>6, <2>5
    <3>2. s[j - 1] > t /\ s[j - 1] \in Int
      BY <1>1, <2>1, <3>1
    <3>3. QED
      BY <3>1, <3>2
  <2>6. CASE j > q + 1 /\ i > q + 1
    <3>1. u[i] = s[i - 1] /\ u[j] = s[j - 1] /\ i - 1 \in 1 .. n /\ j - 1 \in 1 .. n /\ i - 1 < j - 1
      BY <1>1, <1>4, <1>6, <2>6
    <3>2. QED
      BY <2>0, <3>1
  <2>7. QED
    BY <1>1, <2>2, <2>3, <2>4, <2>5, <2>6
<1>7. QED
  BY <1>3, <1>5, <1>6, Zenon DEF V!Ascending, V!Strictly, u, n

-----------------------------------------------------------------------------
LEMMA AppendStep ==
    ASSUME KInv, fault = FALSE, NEW a \in Arrays, NEW t \in Values, NEW rvalue \in BOOLEAN,
           append(a, t, rvalue)
    PROVE  /\ KInv' /\ fault' = FALSE
           /\ \E ret, moved \in BOOLEAN : /\ call' = Call("append", a, 0, t, ret, moved)
                                          /\ V!AppendElement(a, t, ret, moved)
<1> DEFINE n == m_numElements[a]
<1>1. /\ a \in live /\ UNCHANGED <<live, stopped>>
      /\ Insert("append", a, 0, n, t, rvalue, Elsewhere)
  BY DEF append
<1>2. n \in Nat /\ n \in 0 .. n /\ Len(Vec[a]) = n
  BY Buffers, ElementsOf
<1>3. /\ KInv' /\ fault' = FALSE
      /\ \/ call' = Call("append", a, 0, t, FALSE, FALSE) /\ V!MayFail(a, n + 1, FALSE)
         \/ call' = Call("append", a, 0, t, TRUE, rvalue) /\ Inserted(a, n, t, Elsewhere)
  BY <1>1, <1>2, InsertEffect, Zenon
<1>4. CASE call' = Call("append", a, 0, t, FALSE, FALSE) /\ V!MayFail(a, n + 1, FALSE)
  <2>1. V!AppendElement(a, t, FALSE, FALSE)
    BY <1>1, <1>2, <1>4, Zenon DEF V!AppendElement, V!Insert, V!Call, Call, Vec
  <2>2. QED
    BY <1>3, <1>4, <2>1, Zenon
<1>5. CASE call' = Call("append", a, 0, t, TRUE, rvalue) /\ Inserted(a, n, t, Elsewhere)
  <2>1. V!Become(a, V!InsertAt(Vec[a], n + 1, t))
    BY <1>5, Zenon DEF Inserted
  <2>2. V!AppendElement(a, t, TRUE, rvalue)
    BY <1>1, <1>2, <1>5, <2>1, Zenon DEF V!AppendElement, V!Insert, V!Call, Call, Vec
  <2>3. QED
    BY <1>3, <1>5, <2>2, Zenon
<1>6. QED
  BY <1>3, <1>4, <1>5, Zenon

LEMMA InsertAtStep ==
    ASSUME KInv, fault = FALSE, NEW a \in Arrays, NEW t \in Values, NEW rvalue \in BOOLEAN,
           NEW index \in Counts, insertAt(a, index, t, rvalue)
    PROVE  /\ KInv' /\ fault' = FALSE
           /\ \E ret, moved \in BOOLEAN : /\ call' = Call("insertAt", a, index, t, ret, moved)
                                          /\ V!InsertElement(a, index, t, ret, moved)
<1> DEFINE n == m_numElements[a]
<1>1. a \in live /\ UNCHANGED <<live, stopped>>
  BY DEF insertAt
<1>2. n \in Nat /\ Len(Vec[a]) = n /\ index \in Nat
  BY Buffers, ElementsOf, SizeAssumption
<1>3. CASE index > n
  <2>1. call' = Call("insertAt", a, index, t, FALSE, FALSE) /\ UNCHANGED <<members, fault>>
    BY <1>3, Zenon DEF insertAt
  <2>2. KInv' /\ Vec' = Vec /\ m_bufferSize' = m_bufferSize
    BY <1>1, <2>1, Kept
  <2>3. V!InsertElement(a, index, t, FALSE, FALSE)
    BY <1>1, <1>2, <1>3, <2>1, <2>2, Zenon DEF V!InsertElement, V!Unchanged, V!Call, Call, Vec
  <2>4. QED
    BY <2>1, <2>2, <2>3, Zenon
<1>4. CASE ~(index > n)
  <2>1. index \in 0 .. n /\ index <= n
    BY <1>2, <1>4
  <2>2. Insert("insertAt", a, index, index, t, rvalue, Elsewhere)
    BY <1>4, Zenon DEF insertAt
  <2>3. /\ KInv' /\ fault' = FALSE
        /\ \/ call' = Call("insertAt", a, index, t, FALSE, FALSE) /\ V!MayFail(a, n + 1, FALSE)
           \/ call' = Call("insertAt", a, index, t, TRUE, rvalue) /\ Inserted(a, index, t, Elsewhere)
    BY <1>1, <2>1, <2>2, InsertEffect, Zenon
  <2>4. CASE call' = Call("insertAt", a, index, t, FALSE, FALSE) /\ V!MayFail(a, n + 1, FALSE)
    <3>1. V!InsertElement(a, index, t, FALSE, FALSE)
      BY <1>1, <1>2, <2>1, <2>4, Zenon DEF V!InsertElement, V!Insert, V!Call, Call, Vec
    <3>2. QED
      BY <2>3, <2>4, <3>1, Zenon
  <2>5. CASE call' = Call("insertAt", a, index, t, TRUE, rvalue) /\ Inserted(a, index, t, Elsewhere)
    <3>1. V!Become(a, V!InsertAt(Vec[a], index + 1, t))
      BY <2>5, Zenon DEF Inserted
    <3>2. V!InsertElement(a, index, t, TRUE, rvalue)
      BY <1>1, <1>2, <2>1, <2>5, <3>1, Zenon DEF V!InsertElement, V!Insert, V!Call, Call, Vec
    <3>3. QED
      BY <2>3, <2>5, <3>2, Zenon
  <2>6. QED
    BY <2>3, <2>4, <2>5, Zenon
<1>5. QED
  BY <1>3, <1>4, Zenon

LEMMA AppendOwnStep ==
    ASSUME KInv, fault = FALSE, NEW a \in Arrays, NEW k \in Counts, append_own(a, k)
    PROVE  /\ KInv' /\ fault' = FALSE
           /\ \E v \in Values, ret \in BOOLEAN : /\ call' = Call("append own", a, 0, v, ret, FALSE)
                                                 /\ V!AppendOwn(a, v, ret)
<1> DEFINE n == m_numElements[a]
           v == Buffer(a)[k]
<1>1. /\ a \in live /\ UNCHANGED <<live, stopped>> /\ k < n
      /\ Insert("append own", a, 0, n, v, FALSE, k)
  BY Zenon DEF append_own
<1>2. /\ n \in Nat /\ n \in 0 .. n /\ Len(Vec[a]) = n /\ Vec[a] \in Seq(Values) /\ k \in Nat
      /\ m_bufferSize[a] \in Nat
  BY Buffers, ElementsOf, SizeAssumption
<1>3. k \in 0 .. n - 1 /\ k # Elsewhere /\ v \in Values
  <2>1. n \in Nat /\ k \in Nat /\ k < n
    BY <1>1, <1>2, Zenon
  <2>2. k \in 0 .. n - 1
    BY <2>1
  <2>3. k # Elsewhere
    BY <2>1 DEF Elsewhere
  <2>4. QED
    BY <2>2, <2>3, ElementsOf
<1> HIDE DEF v
<1>4. /\ KInv' /\ fault' = FALSE
      /\ \/ call' = Call("append own", a, 0, v, FALSE, FALSE) /\ V!MayFail(a, n + 1, FALSE)
         \/ call' = Call("append own", a, 0, v, TRUE, FALSE) /\ Inserted(a, n, v, k)
  BY <1>1, <1>2, <1>3, InsertEffect, Zenon
<1>5. CASE call' = Call("append own", a, 0, v, FALSE, FALSE) /\ V!MayFail(a, n + 1, FALSE)
  <2>1. V!AppendOwn(a, v, FALSE)
    BY <1>1, <1>2, <1>5, Zenon DEF V!AppendOwn, V!Call, Call, Vec
  <2>2. QED
    BY <1>3, <1>4, <1>5, <2>1, Zenon
<1>6. CASE call' = Call("append own", a, 0, v, TRUE, FALSE) /\ Inserted(a, n, v, k)
  <2>1. PICK w \in Values : /\ V!Become(a, V!InsertAt(Vec[a], n + 1, w))
                            /\ n < m_bufferSize[a] => w = v
    BY <1>1, <1>3, <1>6, Zenon DEF Inserted, v
  <2>2. V!InsertAt(Vec[a], n + 1, w) = Append(Vec[a], w)
    <3>1. Vec[a] \in Seq(Values) /\ Len(Vec[a]) = n /\ n + 1 \in 1 .. Len(Vec[a]) + 1
      BY <1>2
    <3>2. V!InsertAt(Vec[a], n + 1, w) = With(Vec[a], n + 1, w)
      BY <3>1, InsertAtElements
    <3>3. With(Vec[a], Len(Vec[a]) + 1, w) = Append(Vec[a], w)
      BY <3>1, AppendElements
    <3>4. QED
      BY <3>1, <3>2, <3>3
  <2>3. V!AppendOwn(a, v, TRUE)
    BY <1>1, <1>2, <1>6, <2>1, <2>2, Zenon DEF V!AppendOwn, V!Call, Call, Vec
  <2>4. QED
    BY <1>3, <1>4, <1>6, <2>3, Zenon
<1>7. QED
  BY <1>4, <1>5, <1>6, Zenon

LEMMA InsertAtOwnStep ==
    ASSUME KInv, fault = FALSE, NEW a \in Arrays, NEW index \in Counts, NEW k \in Counts,
           insertAt_own(a, index, k)
    PROVE  /\ KInv' /\ fault' = FALSE
           /\ \E v \in Values, ret \in BOOLEAN :
                 /\ call' = Call("insertAt own", a, index, v, ret, FALSE)
                 /\ V!InsertOwn(a, index, v, ret)
<1> DEFINE n == m_numElements[a]
           v == Buffer(a)[k]
<1>1. /\ a \in live /\ UNCHANGED <<live, stopped>> /\ k < n /\ index < n
      /\ Insert("insertAt own", a, index, index, v, FALSE, k)
  BY Zenon DEF insertAt_own
<1>2. /\ n \in Nat /\ Len(Vec[a]) = n /\ DOMAIN Vec[a] = 1 .. n /\ k \in Nat /\ index \in Nat
      /\ \A j \in 0 .. n - 1 : Vec[a][j + 1] = Buffer(a)[j] /\ Buffer(a)[j] \in Values
  BY Buffers, ElementsOf, SizeAssumption
<1>3. k \in 0 .. n - 1 /\ k # Elsewhere /\ index \in 0 .. n
  <2>1. n \in Nat /\ k \in Nat /\ k < n /\ index \in Nat /\ index < n
    BY <1>1, <1>2, Zenon
  <2>2. k \in 0 .. n - 1 /\ index \in 0 .. n
    BY <2>1
  <2>3. k # Elsewhere
    BY <2>1 DEF Elsewhere
  <2>4. QED
    BY <2>2, <2>3
<1>4. v \in Values /\ k + 1 \in 1 .. n /\ Vec[a][k + 1] = v
  BY <1>2, <1>3
<1>5. k > index => Vec[a][k + 1 - 1] = Buffer(a)[k - 1]
  <2>1. k > index => k - 1 \in 0 .. n - 1 /\ (k - 1) + 1 = k + 1 - 1
    BY <1>2, <1>3
  <2>2. QED
    BY <1>2, <2>1
<1>6. V!MayFail(a, n + 1, FALSE) => V!MayFail(a, Len(Vec[a]) + 1, FALSE)
  BY <1>2, Zenon
<1>7. /\ KInv' /\ fault' = FALSE
      /\ \/ call' = Call("insertAt own", a, index, v, FALSE, FALSE) /\ V!MayFail(a, n + 1, FALSE)
         \/ call' = Call("insertAt own", a, index, v, TRUE, FALSE) /\ Inserted(a, index, v, k)
  <2> HIDE DEF v
  <2>1. QED
    BY <1>1, <1>3, <1>4, InsertEffect, Zenon
<1>8. CASE call' = Call("insertAt own", a, index, v, FALSE, FALSE) /\ V!MayFail(a, n + 1, FALSE)
  <2> HIDE DEF v
  <2>1. V!InsertOwn(a, index, v, FALSE)
    BY <1>1, <1>6, <1>8, Zenon DEF V!InsertOwn, V!Call, Call, Vec
  <2>2. QED
    BY <1>4, <1>7, <1>8, <2>1, Zenon
<1>9. CASE call' = Call("insertAt own", a, index, v, TRUE, FALSE) /\ Inserted(a, index, v, k)
  <2>1. PICK w \in Values :
           /\ V!Become(a, V!InsertAt(Vec[a], index + 1, w))
           /\ n < m_bufferSize[a] /\ k < index => w = v
           /\ n < m_bufferSize[a] /\ k > index => w = Buffer(a)[k - 1]
    BY <1>3, <1>9, Zenon DEF Inserted
  <2> HIDE DEF v
  <2> DEFINE i == k + 1
  <2>2. i \in {j \in DOMAIN Vec[a] : Vec[a][j] = v}
    BY <1>2, <1>4
  <2>3. /\ Len(Vec[a]) < m_bufferSize[a] /\ i <= index => w = v
        /\ Len(Vec[a]) < m_bufferSize[a] /\ i > index + 1 => w = Vec[a][i - 1]
    <3>1. (i <= index => k < index) /\ (i > index + 1 => k > index)
      BY <1>2
    <3>2. QED
      BY <1>2, <1>5, <2>1, <3>1
  <2> HIDE DEF i
  <2>4. V!InsertOwn(a, index, v, TRUE)
    BY <1>1, <1>9, <2>1, <2>2, <2>3, Zenon DEF V!InsertOwn, V!Call, Call, Vec
  <2>5. QED
    BY <1>4, <1>7, <1>9, <2>4, Zenon
<1>10. QED
  BY <1>7, <1>8, <1>9, Zenon

(* What Position says of the elements, as Vector counts them. *)
LEMMA PositionOfElements ==
    ASSUME KInv, NEW a \in Arrays, NEW t \in Values
    PROVE  /\ Vec[a] \in Seq(Int) /\ t \in Int
           /\ Len(Vec[a]) = m_numElements[a] /\ Len(Vec[a]) \in Nat
           /\ Position(a, t) \in 0 .. Len(Vec[a])
           /\ \A i \in 1 .. Position(a, t) : Vec[a][i] < t
           /\ Position(a, t) < Len(Vec[a]) =>
                 /\ NotLess(a, t) # {}
                 /\ Vec[a][Position(a, t) + 1] = Buffer(a)[Position(a, t)]
                 /\ Vec[a][Position(a, t) + 1] >= t
           /\ NotLess(a, t) # {} => Position(a, t) < Len(Vec[a])
<1> DEFINE n == m_numElements[a]
           q == Position(a, t)
<1>1. /\ Vec[a] \in Seq(Values) /\ Len(Vec[a]) = n
      /\ \A k \in 0 .. n - 1 : Vec[a][k + 1] = Buffer(a)[k] /\ Buffer(a)[k] \in Values
      /\ n \in Nat
  BY ElementsOf, Buffers
<1>2. /\ q \in 0 .. n
      /\ \A k \in 0 .. q - 1 : Buffer(a)[k] < t
      /\ NotLess(a, t) # {} => q < n
      /\ q < n => NotLess(a, t) # {} /\ ~(Buffer(a)[q] < t)
  BY PositionIs
<1>3. Vec[a] \in Seq(Int) /\ t \in Int
  BY <1>1, ValueAssumption
<1> HIDE DEF q, n
<1>4. ASSUME NEW i \in 1 .. q
      PROVE  Vec[a][i] < t
  <2>1. i - 1 \in 0 .. q - 1 /\ i - 1 \in 0 .. n - 1 /\ (i - 1) + 1 = i
    BY <1>1, <1>2
  <2>2. Buffer(a)[i - 1] < t /\ Vec[a][(i - 1) + 1] = Buffer(a)[i - 1]
    BY <1>1, <1>2, <2>1
  <2>3. QED
    BY <2>1, <2>2
<1>5. ASSUME q < n
      PROVE  Vec[a][q + 1] = Buffer(a)[q] /\ Vec[a][q + 1] >= t
  <2>1. q \in 0 .. n - 1
    BY <1>1, <1>2, <1>5
  <2>2. Vec[a][q + 1] = Buffer(a)[q] /\ Buffer(a)[q] \in Int /\ ~(Buffer(a)[q] < t)
    BY <1>1, <1>2, <1>5, <2>1, ValueAssumption, Zenon
  <2>3. QED
    BY <1>3, <2>2
<1>6. QED
  BY <1>1, <1>2, <1>3, <1>4, <1>5, SMTT(20), SMTT(30) DEF q, n

LEMMA InsertSortedStep ==
    ASSUME KInv, fault = FALSE, NEW a \in Arrays, NEW t \in Values, NEW rvalue \in BOOLEAN,
           insertSorted(a, t, rvalue)
    PROVE  /\ KInv' /\ fault' = FALSE
           /\ \E ret, moved \in BOOLEAN : /\ call' = Call("insertSorted", a, 0, t, ret, moved)
                                          /\ V!InsertSorted(a, t, ret, moved)
<1> DEFINE n == m_numElements[a]
           q == Position(a, t)
           s == Vec[a]
<1>1. /\ a \in live /\ UNCHANGED <<live, stopped>>
      /\ Insert("insertSorted", a, 0, q, t, rvalue, Elsewhere)
  BY DEF insertSorted
<1>2. /\ s \in Seq(Int) /\ t \in Int /\ Len(s) = n /\ n \in Nat /\ q \in 0 .. Len(s)
      /\ \A i \in 1 .. q : s[i] < t
      /\ q < Len(s) => s[q + 1] >= t
  BY PositionOfElements
<1>3. q \in 0 .. n /\ q + 1 \in 1 .. Len(s) + 1
  BY <1>2
<1>4. V!Ascending(s) => V!Ascending(V!InsertAt(s, q + 1, t))
  <2> HIDE DEF s, q
  <2>1. QED
    BY <1>2, InsertedInOrder
<1>5. /\ KInv' /\ fault' = FALSE
      /\ \/ call' = Call("insertSorted", a, 0, t, FALSE, FALSE) /\ V!MayFail(a, n + 1, FALSE)
         \/ call' = Call("insertSorted", a, 0, t, TRUE, rvalue) /\ Inserted(a, q, t, Elsewhere)
  BY <1>1, <1>3, InsertEffect, Zenon
<1>6. CASE call' = Call("insertSorted", a, 0, t, FALSE, FALSE) /\ V!MayFail(a, n + 1, FALSE)
  <2>1. Vec' = Vec
    BY <1>6 DEF V!MayFail, V!Unchanged, Vec
  <2>2. \E i \in 1 .. Len(s) + 1 : V!Insert(a, i, t, FALSE, FALSE)
    BY <1>2, <1>3, <1>6, Zenon DEF V!Insert, Vec
  <2>3. V!Ascending(Vec[a]) => V!Ascending(Vec'[a])
    BY <2>1, Zenon
  <2>4. V!InsertSorted(a, t, FALSE, FALSE)
    BY <1>1, <1>6, <2>2, <2>3, Zenon DEF V!InsertSorted, V!Call, Call, Vec
  <2>5. QED
    BY <1>5, <1>6, <2>4, Zenon
<1>7. CASE call' = Call("insertSorted", a, 0, t, TRUE, rvalue) /\ Inserted(a, q, t, Elsewhere)
  <2>1. V!Become(a, V!InsertAt(Vec[a], q + 1, t))
    BY <1>7, Zenon DEF Inserted
  <2>2. Vec'[a] = V!InsertAt(Vec[a], q + 1, t)
    <3>1. Vec' = [Vec EXCEPT ![a] = V!InsertAt(Vec[a], q + 1, t)]
      BY <2>1 DEF V!Become, Vec
    <3>2. a \in DOMAIN Vec
      BY DEF Vec
    <3>3. QED
      BY <3>1, <3>2
  <2>3. \E i \in 1 .. Len(s) + 1 : V!Insert(a, i, t, TRUE, rvalue)
    BY <1>3, <2>1, Zenon DEF V!Insert, Vec
  <2>4. V!Ascending(Vec[a]) => V!Ascending(Vec'[a])
    BY <1>4, <2>2, Zenon
  <2>5. V!InsertSorted(a, t, TRUE, rvalue)
    BY <1>1, <1>7, <2>3, <2>4, Zenon DEF V!InsertSorted, V!Call, Call, Vec
  <2>6. QED
    BY <1>5, <1>7, <2>5, Zenon
<1>8. QED
  BY <1>5, <1>6, <1>7, Zenon

LEMMA InsertSortedUniqueStep ==
    ASSUME KInv, fault = FALSE, NEW a \in Arrays, NEW t \in Values, NEW rvalue \in BOOLEAN,
           insertSortedUnique(a, t, rvalue)
    PROVE  /\ KInv' /\ fault' = FALSE
           /\ \E ret, moved \in BOOLEAN : /\ call' = Call("insertSortedUnique", a, 0, t, ret, moved)
                                          /\ V!InsertSortedUnique(a, t, ret, moved)
<1> DEFINE n == m_numElements[a]
           q == Position(a, t)
           s == Vec[a]
           op == "insertSortedUnique"
<1>1. a \in live /\ UNCHANGED <<live, stopped>>
  BY DEF insertSortedUnique
<1>2. /\ s \in Seq(Int) /\ t \in Int /\ Len(s) = n /\ n \in Nat /\ q \in 0 .. Len(s)
      /\ \A i \in 1 .. q : s[i] < t
      /\ q < Len(s) => NotLess(a, t) # {} /\ s[q + 1] = Buffer(a)[q] /\ s[q + 1] >= t
      /\ NotLess(a, t) # {} => q < Len(s)
  BY PositionOfElements, Zenon
<1>3. q \in 0 .. n /\ q + 1 \in 1 .. Len(s) + 1
  BY <1>2
<1>4. CASE NotLess(a, t) # {} /\ ~(t < Buffer(a)[q])
  <2>1. call' = Call(op, a, 0, t, TRUE, FALSE) /\ UNCHANGED <<members, fault>>
    BY <1>4, Zenon DEF insertSortedUnique
  <2>2. KInv' /\ Vec' = Vec /\ m_bufferSize' = m_bufferSize
    BY <1>1, <2>1, Kept
  <2>3. q + 1 \in 1 .. Len(s) /\ s[q + 1] = t
    <3> HIDE DEF s, q, n
    <3>1. q < Len(s) /\ q + 1 \in 1 .. Len(s) /\ s[q + 1] \in Int
      BY <1>2, <1>4
    <3>2. QED
      BY <1>2, <1>4, <3>1
  <2>4. V!Unchanged
    BY <1>1, <2>2 DEF V!Unchanged, Vec
  <2>5. V!Strictly(Vec[a]) => V!Strictly(Vec'[a])
    BY <2>2, Zenon
  <2>6. V!InsertSortedUnique(a, t, TRUE, FALSE)
    BY <1>1, <2>1, <2>3, <2>4, <2>5, Zenon DEF V!InsertSortedUnique, V!Call, Call, Vec
  <2>7. QED
    BY <2>1, <2>2, <2>6, Zenon
<1>5. CASE ~(NotLess(a, t) # {} /\ ~(t < Buffer(a)[q]))
  <2>1. Insert(op, a, 0, q, t, rvalue, Elsewhere)
    BY <1>5, Zenon DEF insertSortedUnique
  <2>2. V!Strictly(s) => V!Strictly(V!InsertAt(s, q + 1, t))
    <3> HIDE DEF s, q
    <3>1. q < Len(s) => s[q + 1] > t
      <4>1. q < Len(s) => s[q + 1] \in Int /\ t < s[q + 1]
        BY <1>2, <1>5
      <4>2. QED
        BY <1>2, <4>1
    <3>2. QED
      BY <1>2, <3>1, InsertedInOrder
  <2>3. /\ KInv' /\ fault' = FALSE
        /\ \/ call' = Call(op, a, 0, t, FALSE, FALSE) /\ V!MayFail(a, n + 1, FALSE)
           \/ call' = Call(op, a, 0, t, TRUE, rvalue) /\ Inserted(a, q, t, Elsewhere)
    BY <1>1, <1>3, <2>1, InsertEffect, Zenon
  <2>4. CASE call' = Call(op, a, 0, t, FALSE, FALSE) /\ V!MayFail(a, n + 1, FALSE)
    <3>1. Vec' = Vec
      BY <2>4 DEF V!MayFail, V!Unchanged, Vec
    <3>2. \E i \in 1 .. Len(s) + 1 : V!Insert(a, i, t, FALSE, FALSE)
      BY <1>2, <1>3, <2>4, Zenon DEF V!Insert, Vec
    <3>3. V!Strictly(Vec[a]) => V!Strictly(Vec'[a])
      BY <3>1, Zenon
    <3>4. V!InsertSortedUnique(a, t, FALSE, FALSE)
      BY <1>1, <2>4, <3>2, <3>3, Zenon DEF V!InsertSortedUnique, V!Call, Call, Vec
    <3>5. QED
      BY <2>3, <2>4, <3>4, Zenon
  <2>5. CASE call' = Call(op, a, 0, t, TRUE, rvalue) /\ Inserted(a, q, t, Elsewhere)
    <3>1. V!Become(a, V!InsertAt(Vec[a], q + 1, t))
      BY <2>5, Zenon DEF Inserted
    <3>2. Vec'[a] = V!InsertAt(Vec[a], q + 1, t)
      <4>1. Vec' = [Vec EXCEPT ![a] = V!InsertAt(Vec[a], q + 1, t)]
        BY <3>1 DEF V!Become, Vec
      <4>2. a \in DOMAIN Vec
        BY DEF Vec
      <4>3. QED
        BY <4>1, <4>2
    <3>3. \E i \in 1 .. Len(s) + 1 : V!Insert(a, i, t, TRUE, rvalue)
      BY <1>3, <3>1, Zenon DEF V!Insert, Vec
    <3>4. V!Strictly(Vec[a]) => V!Strictly(Vec'[a])
      BY <2>2, <3>2, Zenon
    <3>5. V!InsertSortedUnique(a, t, TRUE, rvalue)
      BY <1>1, <2>5, <3>3, <3>4, Zenon DEF V!InsertSortedUnique, V!Call, Call, Vec
    <3>6. QED
      BY <2>3, <2>5, <3>5, Zenon
  <2>6. QED
    BY <2>3, <2>4, <2>5, Zenon
<1>6. QED
  BY <1>4, <1>5, Zenon

LEMMA EraseAtStep ==
    ASSUME KInv, fault = FALSE, NEW a \in Arrays, NEW index \in Counts, eraseAt(a, index)
    PROVE  /\ KInv' /\ fault' = FALSE
           /\ call' = Call("eraseAt", a, index, Zero, TRUE, FALSE)
           /\ V!Erase(a, index)
<1> DEFINE n == m_numElements[a]
           size == m_bufferSize[a]
           r == AsIs(a, TRUE)
           destroyed == [r.slots EXCEPT ![index] = Raw]
           closed == moveElements(destroyed, index + 1, index, n - index - 1)
<1>1. a \in live /\ UNCHANGED live /\ call' = Call("eraseAt", a, index, Zero, TRUE, FALSE)
  BY Zenon DEF eraseAt
<1>2. /\ n \in Nat /\ size \in Nat /\ n <= size /\ index \in Nat /\ Len(Vec[a]) = n
      /\ \A i \in 1 .. n : Vec[a][i] = Buffer(a)[i - 1]
  <2>1. n \in Nat /\ size \in Nat /\ n <= size
    BY Buffers, SMTT(20), SMTT(30)
  <2>2. Len(Vec[a]) = n /\ \A i \in 1 .. n : Vec[a][i] = Buffer(a)[i - 1]
    BY ElementsOf
  <2>3. QED
    BY <2>1, <2>2, SizeAssumption
<1>3. CASE index >= n
  <2>1. stopped' = TRUE /\ UNCHANGED <<members, fault>>
    <3>1. ~(index < n)
      BY <1>2, <1>3
    <3>2. QED
      BY <3>1, Zenon DEF eraseAt
  <2>2. KInv' /\ Vec' = Vec /\ m_bufferSize' = m_bufferSize
    BY <1>1, <2>1, Kept
  <2>3. V!Erase(a, index)
    BY <1>1, <1>2, <1>3, <2>1, <2>2, Zenon DEF V!Erase, V!Stop, V!Call, Call, Vec
  <2>4. QED
    BY <1>1, <2>1, <2>2, <2>3
<1>4. CASE index < n
  <2>1. /\ Assign(a, r, closed, n - 1)
        /\ fault' = (fault \/ r.slots[index] = Raw
                      \/ ~CanMove(r, destroyed, n, index + 1, index, n - index - 1))
        /\ UNCHANGED stopped
    <3>1. ~(index >= n)
      BY <1>2, <1>4
    <3>2. QED
      BY <3>1, Zenon DEF eraseAt
  <2>2. n - 1 \in Nat /\ n - 1 <= size /\ index \in 0 .. n - 1
    BY <1>2, <1>4
  <2>3. Granted(a, r, n - 1)
    BY <2>2, StaysAsIs, Zenon
  <2>4. r.slots = Buffer(a) /\ r.size = size
    BY DEF AsIs, Outcome
  <2>5. r.slots \in Contents(r.size, n)
    BY <2>3, Zenon DEF Granted
  <2> HIDE DEF r
  <2>6. Closes(r, r.slots, n, index)
    BY <1>2, <2>2, <2>4, <2>5, Closed, SMTT(20), SMTT(30)
  <2>7. /\ CanMove(r, destroyed, n, index + 1, index, n - index - 1)
        /\ closed \in Contents(r.size, n - 1)
        /\ \A k \in 0 .. n - 2 : closed[k] = IF k < index THEN r.slots[k] ELSE r.slots[k + 1]
    BY <2>6 DEF Closes
  <2>8. r.slots[index] # Raw
    <3>1. r.size \in Nat /\ n \in Nat /\ n <= r.size
      BY <1>2, <2>4
    <3>2. r.slots[index] \in Values
      BY <2>2, <2>5, <3>1, Slots
    <3>3. QED
      BY <3>2, SlotAssumption
  <2> HIDE DEF destroyed, closed
  <2>9. fault' = FALSE
    BY <2>1, <2>7, <2>8, Zenon
  <2>10. KInv' /\ V!Become(a, [i \in 1 .. n - 1 |-> closed[i - 1]])
    BY <1>1, <2>1, <2>2, <2>3, <2>7, Becoming, Zenon
  <2>11. [i \in 1 .. n - 1 |-> closed[i - 1]] = V!RemoveAt(Vec[a], index + 1)
    <3>1. ASSUME NEW i \in 1 .. n - 1
          PROVE  closed[i - 1] = IF i < index + 1 THEN Vec[a][i] ELSE Vec[a][i + 1]
      <4>1. i - 1 \in 0 .. n - 2 /\ i \in 1 .. n /\ i + 1 \in 1 .. n /\ i + 1 - 1 = i - 1 + 1
        BY <1>2
      <4>2. closed[i - 1] = IF i - 1 < index THEN Buffer(a)[i - 1] ELSE Buffer(a)[i - 1 + 1]
        BY <2>4, <2>7, <4>1
      <4>3. Vec[a][i] = Buffer(a)[i - 1] /\ Vec[a][i + 1] = Buffer(a)[i + 1 - 1]
        BY <1>2, <4>1
      <4>4. i - 1 < index <=> i < index + 1
        BY <1>2
      <4>5. QED
        BY <4>1, <4>2, <4>3, <4>4
    <3>2. QED
      <4>1. Vec[a] \in Seq(Values) /\ index + 1 \in 1 .. Len(Vec[a])
        BY <1>2, <1>4, ElementsOf
      <4>2. V!RemoveAt(Vec[a], index + 1) = Without(Vec[a], index + 1)
        BY <4>1, RemoveAtElements
      <4>3. QED
        BY <1>2, <3>1, <4>2, Zenon DEF Without
  <2>12. V!Erase(a, index)
    BY <1>1, <1>2, <1>4, <2>10, <2>11, Zenon DEF V!Erase, V!Call, Call, Vec
  <2>13. QED
    BY <1>1, <2>9, <2>10, <2>12
<1>5. index >= n \/ index < n
  BY <1>2
<1>6. QED
  BY <1>3, <1>4, <1>5, Zenon

LEMMA SubscriptStep ==
    ASSUME KInv, fault = FALSE, NEW a \in Arrays, NEW index \in Counts, subscript(a, index),
           stopped = FALSE
    PROVE  /\ KInv' /\ fault' = FALSE
           /\ \E v \in Values : /\ call' = Call("subscript", a, index, v, TRUE, FALSE)
                                /\ V!Subscript(a, index, v)
<1> DEFINE n == m_numElements[a]
<1>1. /\ a \in live /\ UNCHANGED <<live, members, fault>>
      /\ stopped' = (index >= n)
      /\ call' = Call("subscript", a, index, IF stopped' THEN Zero ELSE Buffer(a)[index], TRUE, FALSE)
  BY DEF subscript
<1>2. /\ n \in Nat /\ index \in Nat /\ Len(Vec[a]) = n
      /\ \A k \in 0 .. n - 1 : Vec[a][k + 1] = Buffer(a)[k] /\ Buffer(a)[k] \in Values
  <2>1. n \in Nat /\ index \in Nat
    BY Buffers, SizeAssumption
  <2>2. /\ Vec[a] = Elements(a) /\ Len(Elements(a)) = n
        /\ \A k \in 0 .. n - 1 : Elements(a)[k + 1] = Buffer(a)[k] /\ Buffer(a)[k] \in Values
    BY ElementsOf
  <2>3. QED
    BY <2>1, <2>2
<1>3. KInv' /\ Vec' = Vec /\ m_bufferSize' = m_bufferSize
  BY <1>1, Kept
<1>4. CASE index >= n
  <2>1. stopped' = TRUE /\ call' = Call("subscript", a, index, Zero, TRUE, FALSE)
    BY <1>1, <1>4, Zenon
  <2>2. V!Subscript(a, index, Zero)
    BY <1>1, <1>2, <1>3, <1>4, <2>1, Zenon DEF V!Subscript, V!Stop, V!Call, Call, Vec
  <2>3. QED
    BY <1>1, <1>3, <2>1, <2>2, ValueAssumption, Zenon
<1>5. CASE index < n
  <2>1. ~(index >= n) /\ index \in 0 .. n - 1
    BY <1>2, <1>5
  <2>2. stopped' = FALSE /\ call' = Call("subscript", a, index, Buffer(a)[index], TRUE, FALSE)
    <3>1. (index >= n) = FALSE
      BY <2>1
    <3>2. stopped' = FALSE
      BY <1>1, <3>1, Zenon
    <3>3. QED
      BY <1>1, <3>2, Zenon
  <2>3. Vec[a][index + 1] = Buffer(a)[index] /\ Buffer(a)[index] \in Values
    BY <1>2, <2>1
  <2>4. V!Unchanged
    BY <1>1, <1>3, <2>2, Zenon DEF V!Unchanged, Vec
  <2>5. V!Subscript(a, index, Buffer(a)[index])
    BY <1>1, <1>2, <1>5, <2>2, <2>3, <2>4 DEF V!Subscript, V!Call, Call, Vec
  <2>6. QED
    BY <1>1, <1>3, <2>2, <2>3, <2>5, Zenon
<1>6. index >= n \/ index < n
  BY <1>2
<1>7. QED
  BY <1>4, <1>5, <1>6, Zenon

-----------------------------------------------------------------------------
(* Constructors, the destructor and the moves. *)
LEMMA FillStep ==
    ASSUME KInv, fault = FALSE, NEW a \in Arrays, NEW count \in Counts, NEW value \in Values,
           KArray_fill(a, count, value)
    PROVE  /\ KInv' /\ fault' = FALSE
           /\ call' = Call("KArray", a, count, value, TRUE, FALSE)
           /\ V!Construct(a, count, value)
<1> DEFINE Filled(r) == [k \in DOMAIN r.slots |-> IF k < count THEN value ELSE r.slots[k]]
<1>1. PICK r \in IF count > 0 THEN grow(a, count) ELSE {AsIs(a, TRUE)} :
          \/ /\ r.ok
             /\ Assign(a, r, Filled(r), count)
             /\ live' = live \cup {a}
             /\ UNCHANGED stopped
          \/ /\ ~r.ok
             /\ stopped' = TRUE
             /\ UNCHANGED <<live, members>>
  BY Zenon DEF KArray_fill
<1>2. a \notin live /\ UNCHANGED fault /\ call' = Call("KArray", a, count, value, TRUE, FALSE)
  BY DEF KArray_fill
<1>3. count \in Nat
  BY SizeAssumption, SMTT(20), SMTT(30)
<1>4. m_numElements[a] = 0 /\ m_bufferSize[a] = 0
  <2>1. p[a] = NULL
    BY <1>2, Zenon DEF KInv, Consistent
  <2>2. QED
    BY <2>1, Buffers
<1>5. \/ r.ok = TRUE /\ Granted(a, r, count)
      \/ r.ok = FALSE /\ count > 0
  <2>1. CASE count > 0
    <3>1. r \in grow(a, count)
      BY <2>1
    <3>2. QED
      BY <1>3, <2>1, <3>1, Grown, Zenon
  <2>2. CASE count = 0
    <3>1. r = AsIs(a, TRUE) /\ 0 <= m_bufferSize[a]
      BY <1>4, <2>2
    <3>2. QED
      BY <1>3, <2>2, <3>1, StaysAsIs, Zenon
  <2>3. count > 0 \/ count = 0
    BY <1>3
  <2>4. QED
    BY <2>1, <2>2, <2>3, Zenon
<1>6. CASE r.ok = FALSE
  <2>1. stopped' = TRUE /\ UNCHANGED <<live, members>>
    BY <1>1, <1>6, Zenon
  <2>2. KInv' /\ Vec' = Vec /\ m_bufferSize' = m_bufferSize
    BY <2>1, Kept
  <2>3. V!Construct(a, count, value)
    BY <1>2, <1>5, <1>6, <2>1, <2>2, Zenon DEF V!Construct, V!Stop, V!Call, Call, Vec
  <2>4. QED
    BY <1>2, <2>2, <2>3
<1>7. CASE r.ok = TRUE
  <2>1. Assign(a, r, Filled(r), count) /\ live' = live \cup {a} /\ UNCHANGED stopped
    BY <1>1, <1>7, Zenon
  <2>2. Granted(a, r, count) /\ r.slots \in Contents(r.size, 0)
        /\ r.size \in Nat /\ count <= r.size /\ r.size < ULONG_MAX
    BY <1>4, <1>5, <1>7, Zenon DEF Granted
  <2>3. /\ DOMAIN r.slots = 0 .. r.size - 1
        /\ \A k \in 0 .. r.size - 1 : r.slots[k] = Raw
    BY <2>2 DEF Contents
  <2>4. Filled(r) \in Contents(r.size, count) /\ \A k \in 0 .. count - 1 : Filled(r)[k] = value
    BY <1>3, <2>2, <2>3, SlotAssumption DEF Contents
  <2>5. count \in 0 .. r.size
    BY <1>3, <2>2, SMTT(20), SMTT(30)
  <2> HIDE DEF Filled
  <2>6. /\ KInv'
        /\ Vec' = [Vec EXCEPT ![a] = [i \in 1 .. count |-> Filled(r)[i - 1]]]
        /\ m_bufferSize' = [m_bufferSize EXCEPT ![a] = r.size]
    BY <2>1, <2>2, <2>4, <2>5, Step
  <2>7. [i \in 1 .. count |-> Filled(r)[i - 1]] = [i \in 1 .. count |-> value]
    BY <1>3, <2>4
  <2>8. r.size \in count .. ULONG_MAX - 1
    BY <1>3, <2>2, SizeAssumption
  <2>9. V!Construct(a, count, value)
    BY <1>2, <2>1, <2>6, <2>7, <2>8, Zenon DEF V!Construct, V!Call, Call, Vec
  <2>10. QED
    BY <1>2, <2>6, <2>9
<1>8. QED
  BY <1>5, <1>6, <1>7, Zenon

LEMMA ResetEffect ==
    ASSUME KInv, NEW a \in live, Reset(a), live' \in {live, live \ {a}}
    PROVE  /\ KInv'
           /\ Vec' = [Vec EXCEPT ![a] = <<>>]
           /\ m_bufferSize' = [m_bufferSize EXCEPT ![a] = 0]
<1> DEFINE none == <<>>
           zero == 0
<1>1. a \in Arrays /\ live' \subseteq Arrays /\ live' \cup {a} = live \cup {a}
  BY DEF KInv, Typed
<1>2. May(a, NULL, zero, zero, none) /\ Becomes(a, NULL, zero, zero, none)
  BY <1>1, Emptied
<1>3. [i \in 1 .. zero |-> none[i - 1]] = <<>>
  OBVIOUS
<1> HIDE DEF none, zero
<1>4. KInv'
  BY <1>1, <1>2, Changed
<1>5. /\ Vec' = [Vec EXCEPT ![a] = [i \in 1 .. zero |-> none[i - 1]]]
      /\ m_bufferSize' = [m_bufferSize EXCEPT ![a] = zero]
  BY <1>1, <1>2, ChangedElements DEF Vec
<1>6. QED
  BY <1>3, <1>4, <1>5 DEF zero

LEMMA DestroyStep ==
    ASSUME KInv, NEW a \in Arrays, KArray_destroy(a)
    PROVE  /\ KInv' /\ fault' = fault
           /\ call' = Call("~KArray", a, 0, Zero, TRUE, FALSE)
           /\ V!Destroy(a)
<1>1. /\ a \in live /\ Reset(a) /\ live' = live \ {a} /\ UNCHANGED <<stopped, fault>>
      /\ call' = Call("~KArray", a, 0, Zero, TRUE, FALSE)
  BY DEF KArray_destroy
<1>2. /\ KInv'
      /\ Vec' = [Vec EXCEPT ![a] = <<>>]
      /\ m_bufferSize' = [m_bufferSize EXCEPT ![a] = 0]
  BY <1>1, ResetEffect
<1>3. V!Destroy(a)
  BY <1>1, <1>2 DEF V!Destroy, V!Call, Call, Vec
<1>4. QED
  BY <1>1, <1>2, <1>3

(* a takes over the buffer of rhs; its own one, if any, is freed. *)
Takes(a, rhs) ==
    /\ heap' = [b \in Blocks |-> IF b = p[a] THEN Freed ELSE heap[b]]
    /\ p' = [p EXCEPT ![a] = p[rhs], ![rhs] = NULL]
    /\ m_numElements' = [m_numElements EXCEPT ![a] = m_numElements[rhs], ![rhs] = 0]
    /\ m_bufferSize' = [m_bufferSize EXCEPT ![a] = m_bufferSize[rhs], ![rhs] = 0]

LEMMA MoveEffect ==
    ASSUME KInv, NEW a \in Arrays, NEW rhs \in live, a # rhs, Takes(a, rhs), live' = live \cup {a}
    PROVE  KInv' /\ Vec' = [Vec EXCEPT ![a] = Vec[rhs], ![rhs] = <<>>]
<1> USE PointerAssumption
<1>1. /\ Typed /\ Owned /\ (\A b \in Arrays : Consistent(b)) /\ rhs \in Arrays
      /\ p \in [Arrays -> Blocks \cup {NULL}]
      /\ heap' = [b \in Blocks |-> IF b = p[a] THEN Freed ELSE heap[b]]
  BY DEF KInv, Typed, Takes
<1>2. Typed'
  BY <1>1 DEF Typed, Takes
<1>3. /\ p'[a] = p[rhs] /\ m_numElements'[a] = m_numElements[rhs] /\ m_bufferSize'[a] = m_bufferSize[rhs]
      /\ p'[rhs] = NULL /\ m_numElements'[rhs] = 0 /\ m_bufferSize'[rhs] = 0
      /\ \A b \in Arrays \ {a, rhs} : /\ p'[b] = p[b] /\ m_numElements'[b] = m_numElements[b]
                                      /\ m_bufferSize'[b] = m_bufferSize[b]
  BY <1>1 DEF Takes, Typed
<1>4. \A b \in Arrays \ {a} : p[b] # NULL => p[b] # p[a] /\ heap'[p[b]] = heap[p[b]]
  BY <1>1 DEF Owned
<1>5. ASSUME NEW b \in Arrays
      PROVE  Consistent(b)'
  <2>1. CASE b = rhs
    <3>1. Possible(NULL, 0, 0, heap'[NULL])
      BY SizeAssumption DEF Possible
    <3>2. QED
      BY <1>3, <2>1, <3>1 DEF Consistent
  <2>2. CASE b = a
    <3>1. Consistent(rhs) /\ p[rhs] # NULL => heap'[p[rhs]] = heap[p[rhs]]
      BY <1>1, <1>4
    <3>2. Consistent(rhs)
      BY <1>1, SMTT(20)
    <3>3. Possible(p[rhs], m_numElements[rhs], m_bufferSize[rhs], heap'[p[rhs]])
      BY <3>1, <3>2 DEF Consistent, Possible
    <3>4. QED
      BY <1>3, <2>2, <3>3, SMTT(20) DEF Consistent
  <2>3. CASE b \notin {a, rhs}
    <3>1. Consistent(b)
      BY <1>1
    <3>2. p[b] # NULL => heap'[p[b]] = heap[p[b]]
      BY <1>4, <2>3
    <3>3. Possible(p[b], m_numElements[b], m_bufferSize[b], heap'[p[b]])
      BY <3>1, <3>2 DEF Consistent, Possible
    <3>4. QED
      BY <1>3, <2>3, <3>1, <3>3, Zenon DEF Consistent
  <2>4. QED
    BY <2>1, <2>2, <2>3, SMTT(20), SMTT(30)
<1>6. Owned'
  <2>1. ASSUME NEW b \in Blocks, heap'[b] # Freed
        PROVE  \E x \in live' : p'[x] = b
    <3>1. b # p[a] /\ heap[b] # Freed
      BY <1>1, <2>1
    <3>2. PICK x \in live : p[x] = b
      BY <1>1, <3>1 DEF Owned
    <3>3. x \in Arrays /\ x # a
      BY <1>1, <3>1, <3>2, SMTT(20), SMTT(30) DEF Typed
    <3>4. CASE x = rhs
      BY <1>3, <3>2, <3>4
    <3>5. CASE x # rhs
      BY <1>3, <3>2, <3>3, <3>5, SMTT(20), SMTT(30)
    <3>6. QED
      BY <3>4, <3>5
  <2>2. ASSUME NEW a1 \in Arrays, NEW a2 \in Arrays, p'[a1] = p'[a2], p'[a1] # NULL
        PROVE  a1 = a2
    BY <1>1, <1>3, <2>2 DEF Owned
  <2>3. QED
    BY <2>1, <2>2 DEF Owned
<1>7. KInv'
  BY <1>2, <1>5, <1>6 DEF KInv
<1>8. Elements(a)' = Elements(rhs)
  <2>1. Buffer(a)' = Buffer(rhs)
    BY <1>1, <1>3, <1>4, SMTT(20), SMTT(30) DEF Buffer
  <2>2. QED
    BY <1>3, <2>1, SMTT(20), SMTT(30) DEF Elements
<1>9. Elements(rhs)' = <<>>
  <2>1. 1 .. 0 = {}
    OBVIOUS
  <2>2. QED
    BY <1>3, <2>1 DEF Elements
<1>10. ASSUME NEW b \in Arrays \ {a, rhs}
       PROVE  Elements(b)' = Elements(b)
  <2>1. Buffer(b)' = Buffer(b)
    BY <1>3, <1>4 DEF Buffer
  <2>2. QED
    BY <1>3, <2>1 DEF Elements
<1>11. Vec' = [Vec EXCEPT ![a] = Vec[rhs], ![rhs] = <<>>]
  BY <1>1, <1>8, <1>9, <1>10, Zenon DEF Vec
<1>12. QED
  BY <1>7, <1>11

LEMMA MoveStep ==
    ASSUME KInv, NEW a \in Arrays, NEW rhs \in Arrays, KArray_move(a, rhs)
    PROVE  /\ KInv' /\ fault' = fault
           /\ call' = Call("move", a, 0, Zero, TRUE, FALSE)
           /\ V!Move(a, rhs)
<1>1. /\ a \notin live /\ rhs \in live /\ a # rhs /\ live' = live \cup {a}
      /\ UNCHANGED <<heap, stopped, fault>>
      /\ call' = Call("move", a, 0, Zero, TRUE, FALSE)
      /\ m_bufferSize' = [m_bufferSize EXCEPT ![a] = m_bufferSize[rhs], ![rhs] = 0]
  BY DEF KArray_move
<1>2. p[a] = NULL /\ heap = [b \in Blocks |-> heap[b]]
  BY <1>1 DEF KInv, Consistent, Typed
<1>3. heap' = [b \in Blocks |-> IF b = p[a] THEN Freed ELSE heap[b]]
  BY <1>1, <1>2, PointerAssumption
<1>4. Takes(a, rhs)
  BY <1>3 DEF Takes, KArray_move
<1>5. KInv' /\ Vec' = [Vec EXCEPT ![a] = Vec[rhs], ![rhs] = <<>>]
  BY <1>1, <1>4, MoveEffect
<1>6. V!Move(a, rhs)
  BY <1>1, <1>5, Zenon DEF V!Move, V!Call, Call, Vec
<1>7. QED
  BY <1>1, <1>5, <1>6

LEMMA AssignStep ==
    ASSUME KInv, NEW a \in Arrays, NEW rhs \in Arrays, KArray_assign(a, rhs)
    PROVE  /\ KInv' /\ fault' = fault
           /\ call' = Call("move", a, 0, Zero, TRUE, FALSE)
           /\ V!Move(a, rhs)
<1>1. /\ a \in live /\ rhs \in live /\ live' = live \cup {a}
      /\ UNCHANGED <<live, stopped, fault>>
      /\ call' = Call("move", a, 0, Zero, TRUE, FALSE)
  BY DEF KArray_assign
<1>2. CASE a = rhs
  <2>1. Reset(a)
    BY <1>2 DEF KArray_assign
  <2>2. /\ KInv'
        /\ Vec' = [Vec EXCEPT ![a] = <<>>]
        /\ m_bufferSize' = [m_bufferSize EXCEPT ![a] = 0]
    BY <1>1, <2>1, ResetEffect
  <2>3. /\ Vec' = [Vec EXCEPT ![a] = Vec[rhs], ![rhs] = <<>>]
        /\ m_bufferSize' = [m_bufferSize EXCEPT ![a] = m_bufferSize[rhs], ![rhs] = 0]
    BY <1>2, <2>2, Zenon DEF Vec, KInv, Typed
  <2>4. V!Move(a, rhs)
    BY <1>1, <2>3, Zenon DEF V!Move, V!Call, Call, Vec
  <2>5. QED
    BY <1>1, <2>2, <2>4
<1>3. CASE a # rhs
  <2>1. Takes(a, rhs)
    BY <1>3 DEF Takes, KArray_assign
  <2>2. KInv' /\ Vec' = [Vec EXCEPT ![a] = Vec[rhs], ![rhs] = <<>>]
    BY <1>1, <1>3, <2>1, MoveEffect
  <2>3. V!Move(a, rhs)
    BY <1>1, <2>1, <2>2, Zenon DEF V!Move, V!Call, Call, Vec, Takes
  <2>4. QED
    BY <1>1, <2>2, <2>3
<1>4. QED
  BY <1>2, <1>3, Zenon

-----------------------------------------------------------------------------
(* What call' records is a call that Vector knows. *)
Records(op, a, n, v, ret, moved) ==
    /\ call' \in [op : V!Ops, arr : Arrays, n : Counts \cup {0}, v : Values,
                  ret : BOOLEAN, moved : BOOLEAN]
    /\ call'.op = op /\ call'.arr = a /\ call'.n = n /\ call'.v = v
    /\ call'.ret = ret /\ call'.moved = moved

LEMMA CallRecord ==
    ASSUME NEW op \in V!Ops, NEW a \in Arrays, NEW n \in Counts \cup {0}, NEW v \in Values,
           NEW ret \in BOOLEAN, NEW moved \in BOOLEAN, call' = Call(op, a, n, v, ret, moved)
    PROVE  Records(op, a, n, v, ret, moved)
  BY DEF Call, Records

(* Every step keeps the invariant and is a step of Vector. *)
LEMMA NextStep ==
    ASSUME KInv, fault = FALSE, stopped \in BOOLEAN, Next
    PROVE  KInv' /\ fault' = FALSE /\ stopped' \in BOOLEAN /\ V!Next
<1> USE ValueAssumption
<1>1. PICK a \in Arrays :
         \/ \E count \in Counts, t \in Values : KArray_fill(a, count, t)
         \/ KArray_destroy(a)
         \/ \E rhs \in Arrays : KArray_move(a, rhs)
         \/ \E rhs \in Arrays : KArray_assign(a, rhs)
         \/ \E count \in Counts : KArray_reserve(a, count)
         \/ \E count \in Counts : KArray_resize(a, count)
         \/ pop_back(a)
         \/ \E t \in Values, rvalue \in BOOLEAN : append(a, t, rvalue)
         \/ \E t \in Values, rvalue \in BOOLEAN, index \in Counts : insertAt(a, index, t, rvalue)
         \/ \E t \in Values, rvalue \in BOOLEAN : insertSorted(a, t, rvalue)
         \/ \E t \in Values, rvalue \in BOOLEAN : insertSortedUnique(a, t, rvalue)
         \/ \E index \in Counts : eraseAt(a, index)
         \/ \E k \in Counts : append_own(a, k)
         \/ \E index, k \in Counts : insertAt_own(a, index, k)
         \/ \E index \in Counts : subscript(a, index)
  BY DEF Next
<1>2. ~stopped /\ stopped = FALSE
  BY DEF Next
<1>3. ASSUME NEW count \in Counts, NEW t \in Values, KArray_fill(a, count, t)
      PROVE  KInv' /\ fault' = FALSE /\ stopped' \in BOOLEAN /\ V!Next
  <2>1. call' = Call("KArray", a, count, t, TRUE, FALSE) /\ V!Construct(a, count, t)
    BY <1>2, <1>3, FillStep, Zenon
  <2>2. KInv' /\ fault' = FALSE
    BY <1>2, <1>3, FillStep, Zenon
  <2>3. stopped' \in BOOLEAN
    BY <1>3, Zenon DEF KArray_fill
  <2>4. Records("KArray", a, count, t, TRUE, FALSE)
    BY <2>1, CallRecord, Zenon DEF V!Ops
  <2>5. V!Next
    BY <1>2, <2>1, <2>4, Zenon DEF V!Next, Records
  <2>6. QED
    BY <2>2, <2>3, <2>5
<1>4. ASSUME KArray_destroy(a)
      PROVE  KInv' /\ fault' = FALSE /\ stopped' \in BOOLEAN /\ V!Next
  <2>1. call' = Call("~KArray", a, 0, Zero, TRUE, FALSE) /\ V!Destroy(a)
    BY <1>2, <1>4, DestroyStep, Zenon
  <2>2. KInv' /\ fault' = FALSE
    BY <1>2, <1>4, DestroyStep, Zenon
  <2>3. stopped' \in BOOLEAN
    BY <1>4, Zenon DEF KArray_destroy
  <2>4. Records("~KArray", a, 0, Zero, TRUE, FALSE)
    BY <2>1, CallRecord, Zenon DEF V!Ops
  <2>5. V!Next
    BY <1>2, <2>1, <2>4, Zenon DEF V!Next, Records
  <2>6. QED
    BY <2>2, <2>3, <2>5
<1>5. ASSUME NEW rhs \in Arrays, KArray_move(a, rhs)
      PROVE  KInv' /\ fault' = FALSE /\ stopped' \in BOOLEAN /\ V!Next
  <2>1. call' = Call("move", a, 0, Zero, TRUE, FALSE) /\ V!Move(a, rhs)
    BY <1>2, <1>5, MoveStep, Zenon
  <2>2. KInv' /\ fault' = FALSE
    BY <1>2, <1>5, MoveStep, Zenon
  <2>3. stopped' \in BOOLEAN
    BY <1>5, Zenon DEF KArray_move
  <2>4. Records("move", a, 0, Zero, TRUE, FALSE)
    BY <2>1, CallRecord, Zenon DEF V!Ops
  <2>5. V!Next
    BY <1>2, <2>1, <2>4, Zenon DEF V!Next, Records
  <2>6. QED
    BY <2>2, <2>3, <2>5
<1>6. ASSUME NEW rhs \in Arrays, KArray_assign(a, rhs)
      PROVE  KInv' /\ fault' = FALSE /\ stopped' \in BOOLEAN /\ V!Next
  <2>1. call' = Call("move", a, 0, Zero, TRUE, FALSE) /\ V!Move(a, rhs)
    BY <1>2, <1>6, AssignStep, Zenon
  <2>2. KInv' /\ fault' = FALSE
    BY <1>2, <1>6, AssignStep, Zenon
  <2>3. stopped' \in BOOLEAN
    BY <1>6, Zenon DEF KArray_assign
  <2>4. Records("move", a, 0, Zero, TRUE, FALSE)
    BY <2>1, CallRecord, Zenon DEF V!Ops
  <2>5. V!Next
    BY <1>2, <2>1, <2>4, Zenon DEF V!Next, Records
  <2>6. QED
    BY <2>2, <2>3, <2>5
<1>7. ASSUME NEW count \in Counts, KArray_reserve(a, count)
      PROVE  KInv' /\ fault' = FALSE /\ stopped' \in BOOLEAN /\ V!Next
  <2>1. PICK ret \in BOOLEAN : call' = Call("reserve", a, count, Zero, ret, FALSE) /\ V!Reserve(a, count, ret)
    BY <1>2, <1>7, ReserveStep, Zenon
  <2>2. KInv' /\ fault' = FALSE
    BY <1>2, <1>7, ReserveStep, Zenon
  <2>3. stopped' \in BOOLEAN
    BY <1>7, Zenon DEF KArray_reserve
  <2>4. Records("reserve", a, count, Zero, ret, FALSE)
    BY <2>1, CallRecord, Zenon DEF V!Ops
  <2>5. V!Next
    BY <1>2, <2>1, <2>4, Zenon DEF V!Next, Records
  <2>6. QED
    BY <2>2, <2>3, <2>5
<1>8. ASSUME NEW count \in Counts, KArray_resize(a, count)
      PROVE  KInv' /\ fault' = FALSE /\ stopped' \in BOOLEAN /\ V!Next
  <2>1. PICK ret \in BOOLEAN : call' = Call("resize", a, count, Zero, ret, FALSE) /\ V!Resize(a, count, ret)
    BY <1>2, <1>8, ResizeStep, Zenon
  <2>2. KInv' /\ fault' = FALSE
    BY <1>2, <1>8, ResizeStep, Zenon
  <2>3. stopped' \in BOOLEAN
    BY <1>8, Zenon DEF KArray_resize
  <2>4. Records("resize", a, count, Zero, ret, FALSE)
    BY <2>1, CallRecord, Zenon DEF V!Ops
  <2>5. V!Next
    BY <1>2, <2>1, <2>4, Zenon DEF V!Next, Records
  <2>6. QED
    BY <2>2, <2>3, <2>5
<1>9. ASSUME pop_back(a)
      PROVE  KInv' /\ fault' = FALSE /\ stopped' \in BOOLEAN /\ V!Next
  <2>1. call' = Call("pop_back", a, 0, Zero, TRUE, FALSE) /\ V!PopBack(a)
    BY <1>2, <1>9, PopBackStep, Zenon
  <2>2. KInv' /\ fault' = FALSE
    BY <1>2, <1>9, PopBackStep, Zenon
  <2>3. stopped' \in BOOLEAN
    BY <1>9, Zenon DEF pop_back
  <2>4. Records("pop_back", a, 0, Zero, TRUE, FALSE)
    BY <2>1, CallRecord, Zenon DEF V!Ops
  <2>5. V!Next
    BY <1>2, <2>1, <2>4, Zenon DEF V!Next, Records
  <2>6. QED
    BY <2>2, <2>3, <2>5
<1>10. ASSUME NEW t \in Values, NEW rvalue \in BOOLEAN, append(a, t, rvalue)
      PROVE  KInv' /\ fault' = FALSE /\ stopped' \in BOOLEAN /\ V!Next
  <2>1. PICK ret, moved \in BOOLEAN :
           call' = Call("append", a, 0, t, ret, moved) /\ V!AppendElement(a, t, ret, moved)
    BY <1>2, <1>10, AppendStep, Zenon
  <2>2. KInv' /\ fault' = FALSE
    BY <1>2, <1>10, AppendStep, Zenon
  <2>3. stopped' \in BOOLEAN
    BY <1>10, Zenon DEF append
  <2>4. Records("append", a, 0, t, ret, moved)
    BY <2>1, CallRecord, Zenon DEF V!Ops
  <2>5. V!Next
    BY <1>2, <2>1, <2>4, Zenon DEF V!Next, Records
  <2>6. QED
    BY <2>2, <2>3, <2>5
<1>11. ASSUME NEW t \in Values, NEW rvalue \in BOOLEAN, NEW index \in Counts, insertAt(a, index, t, rvalue)
      PROVE  KInv' /\ fault' = FALSE /\ stopped' \in BOOLEAN /\ V!Next
  <2>1. PICK ret, moved \in BOOLEAN :
           call' = Call("insertAt", a, index, t, ret, moved) /\ V!InsertElement(a, index, t, ret, moved)
    BY <1>2, <1>11, InsertAtStep, Zenon
  <2>2. KInv' /\ fault' = FALSE
    BY <1>2, <1>11, InsertAtStep, Zenon
  <2>3. stopped' \in BOOLEAN
    BY <1>11, Zenon DEF insertAt
  <2>4. Records("insertAt", a, index, t, ret, moved)
    BY <2>1, CallRecord, Zenon DEF V!Ops
  <2>5. V!Next
    BY <1>2, <2>1, <2>4, Zenon DEF V!Next, Records
  <2>6. QED
    BY <2>2, <2>3, <2>5
<1>12. ASSUME NEW t \in Values, NEW rvalue \in BOOLEAN, insertSorted(a, t, rvalue)
      PROVE  KInv' /\ fault' = FALSE /\ stopped' \in BOOLEAN /\ V!Next
  <2>1. PICK ret, moved \in BOOLEAN :
           call' = Call("insertSorted", a, 0, t, ret, moved) /\ V!InsertSorted(a, t, ret, moved)
    BY <1>2, <1>12, InsertSortedStep, Zenon
  <2>2. KInv' /\ fault' = FALSE
    BY <1>2, <1>12, InsertSortedStep, Zenon
  <2>3. stopped' \in BOOLEAN
    BY <1>12, Zenon DEF insertSorted
  <2>4. Records("insertSorted", a, 0, t, ret, moved)
    BY <2>1, CallRecord, Zenon DEF V!Ops
  <2>5. V!Next
    BY <1>2, <2>1, <2>4, Zenon DEF V!Next, Records
  <2>6. QED
    BY <2>2, <2>3, <2>5
<1>13. ASSUME NEW t \in Values, NEW rvalue \in BOOLEAN, insertSortedUnique(a, t, rvalue)
      PROVE  KInv' /\ fault' = FALSE /\ stopped' \in BOOLEAN /\ V!Next
  <2>1. PICK ret, moved \in BOOLEAN :
           call' = Call("insertSortedUnique", a, 0, t, ret, moved) /\ V!InsertSortedUnique(a, t, ret, moved)
    BY <1>2, <1>13, InsertSortedUniqueStep, Zenon
  <2>2. KInv' /\ fault' = FALSE
    BY <1>2, <1>13, InsertSortedUniqueStep, Zenon
  <2>3. stopped' \in BOOLEAN
    BY <1>13, Zenon DEF insertSortedUnique
  <2>4. Records("insertSortedUnique", a, 0, t, ret, moved)
    BY <2>1, CallRecord, Zenon DEF V!Ops
  <2>5. V!Next
    BY <1>2, <2>1, <2>4, Zenon DEF V!Next, Records
  <2>6. QED
    BY <2>2, <2>3, <2>5
<1>14. ASSUME NEW index \in Counts, eraseAt(a, index)
      PROVE  KInv' /\ fault' = FALSE /\ stopped' \in BOOLEAN /\ V!Next
  <2>1. call' = Call("eraseAt", a, index, Zero, TRUE, FALSE) /\ V!Erase(a, index)
    BY <1>2, <1>14, EraseAtStep, Zenon
  <2>2. KInv' /\ fault' = FALSE
    BY <1>2, <1>14, EraseAtStep, Zenon
  <2>3. stopped' \in BOOLEAN
    BY <1>14, Zenon DEF eraseAt
  <2>4. Records("eraseAt", a, index, Zero, TRUE, FALSE)
    BY <2>1, CallRecord, Zenon DEF V!Ops
  <2>5. V!Next
    BY <1>2, <2>1, <2>4, Zenon DEF V!Next, Records
  <2>6. QED
    BY <2>2, <2>3, <2>5
<1>15. ASSUME NEW k \in Counts, append_own(a, k)
      PROVE  KInv' /\ fault' = FALSE /\ stopped' \in BOOLEAN /\ V!Next
  <2>1. PICK v \in Values, ret \in BOOLEAN :
           call' = Call("append own", a, 0, v, ret, FALSE) /\ V!AppendOwn(a, v, ret)
    BY <1>2, <1>15, AppendOwnStep, Zenon
  <2>2. KInv' /\ fault' = FALSE
    BY <1>2, <1>15, AppendOwnStep, Zenon
  <2>3. stopped' \in BOOLEAN
    BY <1>15, Zenon DEF append_own
  <2>4. Records("append own", a, 0, v, ret, FALSE)
    BY <2>1, CallRecord, Zenon DEF V!Ops
  <2>5. V!Next
    BY <1>2, <2>1, <2>4, Zenon DEF V!Next, Records
  <2>6. QED
    BY <2>2, <2>3, <2>5
<1>16. ASSUME NEW index \in Counts, NEW k \in Counts, insertAt_own(a, index, k)
      PROVE  KInv' /\ fault' = FALSE /\ stopped' \in BOOLEAN /\ V!Next
  <2>1. PICK v \in Values, ret \in BOOLEAN :
           call' = Call("insertAt own", a, index, v, ret, FALSE) /\ V!InsertOwn(a, index, v, ret)
    BY <1>2, <1>16, InsertAtOwnStep, Zenon
  <2>2. KInv' /\ fault' = FALSE
    BY <1>2, <1>16, InsertAtOwnStep, Zenon
  <2>3. stopped' \in BOOLEAN
    BY <1>16, Zenon DEF insertAt_own
  <2>4. Records("insertAt own", a, index, v, ret, FALSE)
    BY <2>1, CallRecord, Zenon DEF V!Ops
  <2>5. V!Next
    BY <1>2, <2>1, <2>4, Zenon DEF V!Next, Records
  <2>6. QED
    BY <2>2, <2>3, <2>5
<1>17. ASSUME NEW index \in Counts, subscript(a, index)
      PROVE  KInv' /\ fault' = FALSE /\ stopped' \in BOOLEAN /\ V!Next
  <2>1. PICK v \in Values : call' = Call("subscript", a, index, v, TRUE, FALSE) /\ V!Subscript(a, index, v)
    BY <1>2, <1>17, SubscriptStep, Zenon
  <2>2. KInv' /\ fault' = FALSE
    BY <1>2, <1>17, SubscriptStep, Zenon
  <2>3. stopped' \in BOOLEAN
    <3>1. (index >= m_numElements[a]) \in BOOLEAN
      OBVIOUS
    <3>2. QED
      BY <1>17, <3>1 DEF subscript
  <2>4. Records("subscript", a, index, v, TRUE, FALSE)
    BY <2>1, CallRecord, Zenon DEF V!Ops
  <2>5. V!Next
    BY <1>2, <2>1, <2>4, Zenon DEF V!Next, Records
  <2>6. QED
    BY <2>2, <2>3, <2>5
<1>18. QED
  BY <1>1, <1>3, <1>4, <1>5, <1>6, <1>7, <1>8, <1>9,
     <1>10, <1>11, <1>12, <1>13, <1>14, <1>15, <1>16, <1>17, Zenon

-----------------------------------------------------------------------------
(* The inductive invariant. *)
Inv == KInv /\ fault = FALSE /\ stopped \in BOOLEAN

LEMMA InitInv ==
    ASSUME Init
    PROVE  Inv
<1>1. /\ live = {} /\ p = [a \in Arrays |-> NULL] /\ m_numElements = [a \in Arrays |-> 0]
      /\ m_bufferSize = [a \in Arrays |-> 0] /\ heap = [b \in Blocks |-> Freed]
      /\ stopped = FALSE /\ fault = FALSE
  BY DEF Init
<1>2. Typed
  BY <1>1 DEF Typed
<1>3. ASSUME NEW a \in Arrays
      PROVE  Consistent(a)
  BY <1>1, SizeAssumption DEF Consistent, Possible
<1>4. Owned
  BY <1>1 DEF Owned
<1>5. QED
  BY <1>1, <1>2, <1>3, <1>4, Zenon DEF Inv, KInv

LEMMA StepInv ==
    ASSUME Inv, [Next]_vars
    PROVE  Inv'
<1>1. CASE Next
  BY <1>1, NextStep, Zenon DEF Inv
<1>2. CASE UNCHANGED vars
  <2>1. UNCHANGED members /\ UNCHANGED live /\ UNCHANGED <<stopped, fault>>
    BY <1>2 DEF vars, members
  <2>2. QED
    BY <2>1, Kept DEF Inv
<1>3. QED
  BY <1>1, <1>2

(* The inductive invariant holds throughout, for any number of arrays,     *)
(* blocks, elements and calls.                                             *)
THEOREM Invariance == Spec => []Inv
<1>1. Init => Inv
  BY InitInv
<1>2. Inv /\ [Next]_vars => Inv'
  BY StepInv
<1>3. QED
  BY <1>1, <1>2, PTL DEF Spec

(* BlocksAreOwned: reserve, reset and the moves leak no block and leave no *)
(* two arrays with the same one.                                           *)
THEOREM KArrayOwnsItsBlocks == Spec => []BlocksAreOwned
<1>1. Inv => BlocksAreOwned
  <2>1. SUFFICES ASSUME Inv, NEW b \in Blocks
                 PROVE  /\ heap[b] # Freed <=> \E a \in live : p[a] = b
                        /\ \A a1, a2 \in Arrays : p[a1] = b /\ p[a2] = b => a1 = a2
    BY DEF BlocksAreOwned
  <2>2. KInv /\ Owned /\ live \subseteq Arrays /\ b # NULL
    BY <2>1, PointerAssumption, SMTT(20), SMTT(30) DEF Inv, KInv, Typed
  <2>3. ASSUME NEW a \in live, p[a] = b
        PROVE  heap[b] # Freed
    <3>1. a \in Arrays /\ p[a] # NULL
      BY <2>2, <2>3, SMTT(20), SMTT(30)
    <3>2. QED
      BY <2>2, <2>3, <3>1, Buffers
  <2>4. QED
    BY <2>2, <2>3 DEF Owned
<1>2. QED
  BY <1>1, Invariance, PTL

(* WellFormed: after every call the first m_numElements slots hold objects *)
(* and the others are raw, in a buffer of m_bufferSize slots.              *)
THEOREM KArrayIsWellFormed == Spec => []WellFormed
<1>1. Inv => WellFormed
  <2>1. SUFFICES ASSUME Inv, NEW a \in Arrays
                 PROVE  /\ m_numElements[a] <= m_bufferSize[a]
                        /\ m_bufferSize[a] < ULONG_MAX
                        /\ p[a] = NULL <=> m_bufferSize[a] = 0
                        /\ a \notin live => p[a] = NULL
                        /\ DOMAIN Buffer(a) = 0 .. m_bufferSize[a] - 1
                        /\ \A k \in 0 .. m_bufferSize[a] - 1 :
                              IF k < m_numElements[a] THEN Buffer(a)[k] \in Values ELSE Buffer(a)[k] = Raw
    BY DEF WellFormed
  <2>2. KInv /\ (a \notin live => p[a] = NULL)
    BY <2>1 DEF Inv, KInv, Consistent
  <2>3. /\ m_numElements[a] \in Nat /\ m_bufferSize[a] \in Nat
        /\ m_numElements[a] <= m_bufferSize[a] /\ m_bufferSize[a] < ULONG_MAX
        /\ p[a] = NULL <=> m_bufferSize[a] = 0
        /\ Buffer(a) \in Contents(m_bufferSize[a], m_numElements[a])
    BY <2>2, Buffers
  <2>4. /\ DOMAIN Buffer(a) = 0 .. m_bufferSize[a] - 1
        /\ \A k \in 0 .. m_bufferSize[a] - 1 :
              Buffer(a)[k] \in Values \cup {Raw} /\ (Buffer(a)[k] = Raw <=> k >= m_numElements[a])
    BY <2>3, Slots
  <2>5. QED
    BY <2>2, <2>3, <2>4, SMTT(20), SMTT(30)
<1>2. QED
  BY <1>1, Invariance, PTL

(* LifetimesRespected: no member function constructs over an object,       *)
(* destroys raw storage or calls moveElements as it must not.              *)
THEOREM KArrayRespectsLifetimes == Spec => []LifetimesRespected
<1>1. Inv => LifetimesRespected
  BY DEF Inv, LifetimesRespected
<1>2. QED
  BY <1>1, Invariance, PTL

(* ImplementsVector: every call of a member function is a step of Vector,  *)
(* with the elements of each array for its sequence.                       *)
THEOREM KArrayImplementsVector == Spec => ImplementsVector
<1>1. Init => V!Init
  <2>1. SUFFICES ASSUME Init
                 PROVE  V!Init
    OBVIOUS
  <2>2. \A a \in Arrays : Elements(a) = <<>>
    <3>1. 1 .. 0 = {}
      OBVIOUS
    <3>2. QED
      BY <2>1, <3>1 DEF Init, Elements
  <2>3. QED
    BY <2>1, <2>2, Zenon DEF Init, V!Init, V!Call, Call
<1>2. Inv /\ [Next]_vars => [V!Next]_(V!vectorVars)
  <2>1. SUFFICES ASSUME Inv, [Next]_vars
                 PROVE  [V!Next]_(V!vectorVars)
    OBVIOUS
  <2>2. CASE Next
    BY <2>1, <2>2, NextStep, Zenon DEF Inv
  <2>3. CASE UNCHANGED vars
    <3>1. UNCHANGED members /\ UNCHANGED <<live, call, stopped>>
      BY <2>3 DEF vars, members
    <3>2. Vec' = Vec /\ m_bufferSize' = m_bufferSize
      BY <3>1, Kept
    <3>3. QED
      BY <3>1, <3>2 DEF V!vectorVars, Vec
  <2>4. QED
    BY <2>1, <2>2, <2>3
<1>3. QED
  BY <1>1, <1>2, Invariance, PTL DEF Spec, ImplementsVector, V!Spec

=============================================================================
