-------------------------- MODULE InterlockedProof --------------------------
(***************************************************************************)
(* What a thread may conclude from the value an interlocked operation      *)
(* returns, for any number of threads and every width; and, at the end,    *)
(* the failure injection of CxPlatAlloc, which counts with one.            *)
(***************************************************************************)
EXTENDS Interlocked, FailureInjection, FiniteSetTheorems, TLAPS

(* No step changes the protocol, and each belongs to one. *)
Own(t) ==
    /\ protocol = "references" => AddReference(t) \/ DropReference(t)
    /\ protocol = "bits" => SetBit(t) \/ ClearBit(t)
    /\ protocol = "flag" => Enter(t) \/ Leave(t)
    /\ protocol = "slot" => Put(t) \/ Take(t)
    /\ protocol = "tickets" => \E n \in Addends : Draw(t, n)
    /\ protocol = "update" => ReadOld(t) \/ \E new \in Values(width) : Replace(t, new)

LEMMA Steps ==
    ASSUME [Next]_vars
    PROVE  /\ UNCHANGED <<protocol, width>>
           /\ UNCHANGED vars \/ \E t \in Threads : Own(t)
<1>1. CASE UNCHANGED vars
  BY <1>1 DEF vars
<1>2. CASE Next
  <2>1. PICK t \in Threads :
           \/ AddReference(t) \/ DropReference(t)
           \/ SetBit(t) \/ ClearBit(t)
           \/ Enter(t) \/ Leave(t)
           \/ Put(t) \/ Take(t)
           \/ \E n \in Addends : Draw(t, n)
           \/ ReadOld(t)
           \/ \E new \in Values(width) : Replace(t, new)
    BY <1>2 DEF Next
  <2>2. CASE AddReference(t) \/ DropReference(t)
    BY <2>2 DEF AddReference, DropReference, Own
  <2>3. CASE SetBit(t) \/ ClearBit(t)
    BY <2>3, Zenon DEF SetBit, ClearBit, Own
  <2>4. CASE Enter(t) \/ Leave(t)
    BY <2>4 DEF Enter, Leave, Own
  <2>5. CASE Put(t) \/ Take(t)
    BY <2>5 DEF Put, Take, Own
  <2>6. CASE \E n \in Addends : Draw(t, n)
    BY <2>6, Zenon DEF Draw, Own
  <2>7. CASE ReadOld(t)
    BY <2>7, Zenon DEF ReadOld, Own
  <2>8. CASE \E new \in Values(width) : Replace(t, new)
    BY <2>8, Zenon DEF Replace, Own
  <2>9. QED
    BY <2>1, <2>2, <2>3, <2>4, <2>5, <2>6, <2>7, <2>8
<1>3. QED
  BY <1>1, <1>2

-----------------------------------------------------------------------------
(* The flag is up while one thread is inside. *)
FlagInv ==
    protocol = "flag" =>
       /\ has \in [Threads -> {{}, {"inside"}}]
       /\ dest \in BOOLEAN
       /\ \A t, u \in Holders : t = u
       /\ dest <=> Holders # {}

(* Of the threads that set the flag one at a time is told that it was down *)
(* by InterlockedFetchAndSetBoolean, and finds it up when it clears it.    *)
THEOREM OneThreadIsInside == Spec => []OneIsInside
<1>1. Init => FlagInv
  <2> SUFFICES ASSUME Init, protocol = "flag"
               PROVE  FlagInv
    BY DEF FlagInv
  <2>1. dest = FALSE /\ has = [t \in Threads |-> {}]
    BY DEF Init, Start
  <2>2. Holders = {}
    BY <2>1 DEF Holders
  <2>3. QED
    BY <2>1, <2>2, Zenon DEF FlagInv
<1>2. FlagInv /\ [Next]_vars => FlagInv'
  <2> SUFFICES ASSUME FlagInv, [Next]_vars, protocol' = "flag"
               PROVE  FlagInv'
    BY DEF FlagInv
  <2>1. /\ protocol = "flag"
        /\ UNCHANGED vars \/ \E t \in Threads : Enter(t) \/ Leave(t)
    BY Steps DEF Own
  <2>2. CASE UNCHANGED vars
    BY <2>2 DEF vars, FlagInv, Holders
  <2>3. ASSUME NEW t \in Threads, Enter(t)
        PROVE  FlagInv'
    <3>1. /\ dest' = TRUE /\ has[t] = {}
          /\ has' = [has EXCEPT ![t] = IF dest THEN {} ELSE {"inside"}]
      BY <2>3 DEF Enter, InterlockedFetchAndSetBoolean, Effect
    <3>2. CASE dest
      <4>1. has' = has
        BY <2>1, <3>1, <3>2 DEF FlagInv
      <4>2. QED
        BY <2>1, <3>1, <3>2, <4>1 DEF FlagInv, Holders
    <3>3. CASE ~dest
      <4>1. Holders = {} /\ has' = [has EXCEPT ![t] = {"inside"}]
        BY <2>1, <3>1, <3>3 DEF FlagInv
      <4>2. Holders' = {t}
        BY <2>1, <4>1 DEF FlagInv, Holders
      <4>3. QED
        BY <2>1, <3>1, <4>1, <4>2 DEF FlagInv
    <3>4. QED
      BY <3>2, <3>3
  <2>4. ASSUME NEW t \in Threads, Leave(t)
        PROVE  FlagInv'
    <3>1. /\ dest' = FALSE /\ has[t] # {}
          /\ has' = [has EXCEPT ![t] = IF dest THEN {} ELSE @]
      BY <2>4 DEF Leave, InterlockedFetchAndClearBoolean, Effect
    <3>2. dest /\ Holders = {t}
      BY <2>1, <3>1 DEF FlagInv, Holders
    <3>3. has' = [has EXCEPT ![t] = {}]
      BY <3>1, <3>2
    <3>4. Holders' = {}
      BY <2>1, <3>2, <3>3 DEF FlagInv, Holders
    <3>5. QED
      BY <2>1, <3>1, <3>3, <3>4, Zenon DEF FlagInv
  <2>5. QED
    BY <2>1, <2>2, <2>3, <2>4
<1>3. FlagInv => OneIsInside
  <2> SUFFICES ASSUME FlagInv, protocol = "flag"
               PROVE  Cardinality(Holders) <= 1 /\ (dest <=> Holders # {})
    BY DEF OneIsInside
  <2>1. CASE Holders = {}
    BY <2>1, FS_EmptySet DEF FlagInv
  <2>2. CASE Holders # {}
    <3>1. PICK t \in Holders : TRUE
      BY <2>2
    <3>2. Holders = {t}
      BY <3>1 DEF FlagInv
    <3>3. Cardinality(Holders) = 1
      BY <3>2, FS_Singleton, Zenon
    <3>4. QED
      BY <3>3 DEF FlagInv
  <2>3. QED
    BY <2>1, <2>2
<1>4. QED
  BY <1>1, <1>2, <1>3, PTL DEF Spec

-----------------------------------------------------------------------------
(* Each object is in the slot or with one thread. *)
SlotInv ==
    protocol = "slot" =>
       /\ has \in [Threads -> SUBSET Threads]
       /\ dest \in Threads \cup {NULL}
       /\ \A object \in Threads :
             \/ dest = object /\ \A t \in Threads : object \notin has[t]
             \/ /\ dest # object
                /\ \E t \in Threads : \A u \in Threads : object \in has[u] <=> u = t

(* Objects that are handed over with InterlockedExchangePointer and        *)
(* InterlockedFetchAndClearPointer are in the slot or with one thread.     *)
THEOREM EachObjectHasOneOwner == Spec => []ObjectsHaveOneOwner
<1>1. Init => SlotInv
  <2> SUFFICES ASSUME Init, protocol = "slot"
               PROVE  SlotInv
    BY DEF SlotInv
  <2>1. dest = NULL /\ has = [t \in Threads |-> {t}]
    BY DEF Init, Start
  <2>2. QED
    BY <2>1, WidthAssumption DEF SlotInv
<1>2. SlotInv /\ [Next]_vars => SlotInv'
  <2> SUFFICES ASSUME SlotInv, [Next]_vars, protocol' = "slot"
               PROVE  SlotInv'
    BY DEF SlotInv
  <2>1. /\ protocol = "slot"
        /\ UNCHANGED vars \/ \E t \in Threads : Put(t) \/ Take(t)
    BY Steps DEF Own
  <2>2. CASE UNCHANGED vars
    BY <2>2 DEF vars, SlotInv
  <2>3. ASSUME NEW t \in Threads, NEW gone \in SUBSET has[t], NEW new,
               \/ gone = {} /\ new = NULL
               \/ gone = {new},
               dest' = new,
               has' = [has EXCEPT ![t] = (@ \ gone) \cup ({dest} \ {NULL})]
        PROVE  SlotInv'
    <3>1. has' \in [Threads -> SUBSET Threads] /\ dest' \in Threads \cup {NULL}
      BY <2>1, <2>3 DEF SlotInv
    <3>2. ASSUME NEW object \in Threads
          PROVE  \/ dest' = object /\ \A u \in Threads : object \notin has'[u]
                 \/ /\ dest' # object
                    /\ \E v \in Threads : \A u \in Threads : object \in has'[u] <=> u = v
      <4>1. /\ \A u \in Threads \ {t} : has'[u] = has[u]
            /\ has'[t] = (has[t] \ gone) \cup ({dest} \ {NULL})
        BY <2>1, <2>3 DEF SlotInv
      <4>2. object # NULL
        BY WidthAssumption
      <4>3. CASE dest = object
        <5>1. \A u \in Threads : object \notin has[u]
          BY <2>1, <4>3 DEF SlotInv
        <5>2. dest' # object /\ \A u \in Threads : object \in has'[u] <=> u = t
          BY <2>3, <4>1, <4>2, <4>3, <5>1
        <5>3. QED
          BY <5>2
      <4>4. CASE dest # object
        <5>1. PICK v \in Threads : \A u \in Threads : object \in has[u] <=> u = v
          BY <2>1, <4>4 DEF SlotInv
        <5>2. CASE object \in gone
          <6>1. dest' = object /\ v = t
            BY <2>3, <4>2, <5>1, <5>2
          <6>2. \A u \in Threads : object \notin has'[u]
            BY <4>1, <4>4, <5>1, <5>2, <6>1
          <6>3. QED
            BY <6>1, <6>2
        <5>3. CASE object \notin gone
          <6>1. dest' # object
            BY <2>3, <4>2, <5>3
          <6>2. \A u \in Threads : object \in has'[u] <=> u = v
            BY <4>1, <4>4, <5>1, <5>3
          <6>3. QED
            BY <6>1, <6>2
        <5>4. QED
          BY <5>2, <5>3
      <4>5. QED
        BY <4>3, <4>4
    <3>3. QED
      BY <3>1, <3>2 DEF SlotInv
  <2>4. ASSUME NEW t \in Threads, Put(t)
        PROVE  SlotInv'
    <3>1. PICK object \in has[t] :
             /\ dest' = object
             /\ has' = [has EXCEPT ![t] = (@ \ {object}) \cup ({dest} \ {NULL})]
      BY <2>4, Zenon DEF Put, InterlockedExchangePointer, Effect
    <3>2. {object} \in SUBSET has[t]
      BY <3>1
    <3>3. QED
      BY <2>3, <3>1, <3>2, Zenon
  <2>5. ASSUME NEW t \in Threads, Take(t)
        PROVE  SlotInv'
    <3>1. /\ dest' = NULL
          /\ has' = [has EXCEPT ![t] = @ \cup ({dest} \ {NULL})]
      BY <2>5 DEF Take, InterlockedFetchAndClearPointer, Effect
    <3>2. has' = [has EXCEPT ![t] = (@ \ {}) \cup ({dest} \ {NULL})]
      BY <3>1
    <3>3. QED
      BY <2>3, <3>1, <3>2, Zenon
  <2>6. QED
    BY <2>1, <2>2, <2>4, <2>5
<1>3. SlotInv => ObjectsHaveOneOwner
  <2> SUFFICES ASSUME SlotInv, protocol = "slot", NEW object \in Threads
               PROVE  Cardinality({t \in Threads : object \in has[t]})
                         + (IF dest = object THEN 1 ELSE 0) = 1
    BY DEF ObjectsHaveOneOwner
  <2>1. CASE dest = object
    <3>1. {t \in Threads : object \in has[t]} = {}
      BY <2>1 DEF SlotInv
    <3>2. QED
      BY <2>1, <3>1, FS_EmptySet
  <2>2. CASE dest # object
    <3>1. PICK t \in Threads : \A u \in Threads : object \in has[u] <=> u = t
      BY <2>2 DEF SlotInv
    <3>2. {u \in Threads : object \in has[u]} = {t}
      BY <3>1
    <3>3. Cardinality({t}) = 1
      BY FS_Singleton
    <3>4. QED
      BY <2>2, <3>2, <3>3
  <2>3. QED
    BY <2>1, <2>2
<1>4. QED
  BY <1>1, <1>2, <1>3, PTL DEF Spec

-----------------------------------------------------------------------------
(* Who is done has replaced the variable once. *)
UpdateInv ==
    protocol = "update" =>
       /\ width \in Widths
       /\ has \in [Threads -> {{}, {"done"}}]
       /\ old \in [Threads -> {Nothing} \cup Values(width)]
       /\ dest \in Values(width)
       /\ beyond \in BOOLEAN
       /\ dest \in Values("short") \/ beyond
       /\ \A t \in Threads : old[t] # Nothing => has[t] = {}
       /\ number \in Nat
       /\ ~(width = "long" /\ beyond) => Cardinality(Holders) = number

(* A value that fits a short survives the conversion to one. *)
LEMMA ShortSurvives ==
    ASSUME NEW x \in Values("short")
    PROVE  As("short", x) = x
<1>1. Half("short") \in Nat \ {0} /\ x \in Int /\ -Half("short") <= x /\ x < Half("short")
  BY WidthAssumption DEF Half, Values
<1>2. (x + Half("short")) % (2 * Half("short")) = x + Half("short")
  <2>1. x + Half("short") \in 0 .. 2 * Half("short") - 1 /\ 2 * Half("short") \in Nat \ {0}
    BY <1>1
  <2>2. \A a, m \in Nat : m > 0 /\ a < m => a % m = a
    OBVIOUS
  <2>3. QED
    BY <2>1, <2>2
<1>3. QED
  BY <1>1, <1>2 DEF As

(* With InterlockedCompareExchange each thread that is done has replaced   *)
(* the variable once and no other has, unless a long has been too large    *)
(* for the short that is returned.                                         *)
THEOREM EachUpdateIsTold == Spec => []UpdatesAreTold
<1>1. Init => UpdateInv
  <2> SUFFICES ASSUME Init, protocol = "update"
               PROVE  UpdateInv
    BY DEF UpdateInv
  <2>1. /\ width \in Widths /\ dest \in Values(width)
        /\ has = [t \in Threads |-> {}] /\ old = [t \in Threads |-> Nothing] /\ number = 0
    BY DEF Init, Start
  <2>2. beyond \in BOOLEAN /\ (dest \in Values("short") \/ beyond)
    BY Zenon DEF Init
  <2>3. Holders = {}
    BY <2>1 DEF Holders
  <2>4. Cardinality(Holders) = number
    BY <2>1, <2>3, FS_EmptySet
  <2>5. QED
    BY <2>1, <2>2, <2>4 DEF UpdateInv
<1>2. UpdateInv /\ [Next]_vars => UpdateInv'
  <2> SUFFICES ASSUME UpdateInv, [Next]_vars, protocol' = "update"
               PROVE  UpdateInv'
    BY DEF UpdateInv
  <2>1. /\ protocol = "update" /\ UNCHANGED width
        /\ \/ UNCHANGED vars
           \/ \E t \in Threads : ReadOld(t) \/ \E new \in Values(width) : Replace(t, new)
    BY Steps DEF Own
  <2>2. CASE UNCHANGED vars
    BY <2>2 DEF vars, UpdateInv, Holders
  <2>3. ASSUME NEW t \in Threads, ReadOld(t)
        PROVE  UpdateInv'
    <3>1. /\ has[t] = {} /\ old' = [old EXCEPT ![t] = dest]
          /\ UNCHANGED <<width, dest, has, number, beyond>>
      BY <2>3 DEF ReadOld
    <3>2. QED
      BY <2>1, <3>1 DEF UpdateInv, Holders
  <2>4. ASSUME NEW t \in Threads, NEW new \in Values(width), Replace(t, new)
        PROVE  UpdateInv'
    <3> DEFINE returned == IF width = "long" THEN As("short", dest) ELSE dest
    <3>1. /\ old[t] # Nothing /\ old[t] # new
          /\ dest' = IF dest = old[t] THEN new ELSE dest
          /\ has' = [has EXCEPT ![t] = IF returned = old[t] THEN {"done"} ELSE {}]
          /\ old' = [old EXCEPT ![t] = Nothing]
          /\ number' = IF dest' = dest THEN number ELSE number + 1
      BY <2>4 DEF Replace, InterlockedCompareExchange, Effect
    <3>2. beyond' \in BOOLEAN /\ (dest' \in Values("short") \/ beyond') /\ (beyond => beyond')
      BY <2>4, Zenon DEF Replace
    <3>3. has[t] = {} /\ dest' \in Values(width) /\ number' \in Nat
      BY <2>1, <3>1 DEF UpdateInv
    <3>4. /\ has' \in [Threads -> {{}, {"done"}}] /\ old' \in [Threads -> {Nothing} \cup Values(width)]
          /\ \A u \in Threads : old'[u] # Nothing => has'[u] = {}
      BY <2>1, <3>1 DEF UpdateInv
    <3>5. ASSUME ~(width = "long" /\ beyond')
          PROVE  Cardinality(Holders') = number'
      <4>1. returned = dest /\ Cardinality(Holders) = number
        <5>1. CASE width = "long"
          BY <2>1, <3>2, <3>5, <5>1, ShortSurvives DEF UpdateInv
        <5>2. CASE width # "long"
          BY <2>1, <5>2 DEF UpdateInv
        <5>3. QED
          BY <5>1, <5>2
      <4>2. IsFiniteSet(Holders) /\ t \notin Holders
        <5>1. Holders \subseteq Threads
          BY DEF Holders
        <5>2. t \notin Holders
          BY <3>3 DEF Holders
        <5>3. QED
          BY <5>1, <5>2, WidthAssumption, FS_Subset
      <4> HIDE DEF returned
      <4>3. CASE dest = old[t]
        <5>1. number' = number + 1 /\ has' = [has EXCEPT ![t] = {"done"}]
          BY <3>1, <4>1, <4>3
        <5>2. Holders' = Holders \cup {t}
          BY <2>1, <5>1 DEF UpdateInv, Holders
        <5>3. QED
          BY <4>1, <4>2, <5>1, <5>2, FS_AddElement, SMTT(20), SMTT(30)
      <4>4. CASE dest # old[t]
        <5>1. number' = number /\ has' = [has EXCEPT ![t] = {}]
          BY <3>1, <4>1, <4>4
        <5>2. Holders' = Holders
          BY <2>1, <3>3, <5>1 DEF UpdateInv, Holders
        <5>3. QED
          BY <4>1, <5>1, <5>2
      <4>5. QED
        BY <4>3, <4>4
    <3>6. QED
      BY <2>1, <3>2, <3>3, <3>4, <3>5 DEF UpdateInv
  <2>5. QED
    BY <2>1, <2>2, <2>3, <2>4
<1>3. UpdateInv => UpdatesAreTold
  BY DEF UpdateInv, UpdatesAreTold
<1>4. QED
  BY <1>1, <1>2, <1>3, PTL DEF Spec

-----------------------------------------------------------------------------
(* The references, which the variable counts. *)
RefsOf(h) == {r \in Threads \X (0 .. MaxRefs - 1) : r[2] \in h[r[1]]}

CountInv ==
    /\ protocol = "bits" =>
          /\ has \in [Threads -> SUBSET Threads]
          /\ \A t \in Threads : has[t] = dest \cap {t}
          /\ dest \subseteq Threads
          /\ made \in BOOLEAN /\ (made <=> dest # {})
    /\ protocol = "references" =>
          /\ width \in Widths
          /\ has \in [Threads -> SUBSET (0 .. MaxRefs - 1)]
          /\ \A t \in Threads : \E n \in 0 .. MaxRefs : has[t] = 0 .. n - 1
          /\ dest = Cardinality(RefsOf(has))
          /\ made \in BOOLEAN /\ (made <=> RefsOf(has) # {})

(* A small count survives the conversion to any width. *)
LEMMA CountSurvives ==
    ASSUME NEW x \in 0 .. Short - 1, width \in Widths
    PROVE  As(width, x) = x
<1>1. Half(width) \in Nat \ {0} /\ x \in Nat /\ x < Half(width)
  BY WidthAssumption DEF Half, Widths
<1>2. (x + Half(width)) % (2 * Half(width)) = x + Half(width)
  <2>1. x + Half(width) \in 0 .. 2 * Half(width) - 1 /\ 2 * Half(width) \in Nat \ {0}
    BY <1>1
  <2>2. \A a, m \in Nat : m > 0 /\ a < m => a % m = a
    OBVIOUS
  <2>3. QED
    BY <2>1, <2>2
<1>3. QED
  BY <1>1, <1>2 DEF As

(* There are fewer references than a short can count. *)
LEMMA FewReferences ==
    ASSUME NEW h
    PROVE  /\ IsFiniteSet(RefsOf(h)) /\ Cardinality(RefsOf(h)) \in 0 .. Short - 1
           /\ Cardinality(RefsOf(h)) = 0 <=> RefsOf(h) = {}
<1>1. IsFiniteSet(Threads) /\ MaxRefs \in Nat /\ Cardinality(Threads) * MaxRefs < Short /\ Short \in Nat
  BY WidthAssumption
<1>2. IsFiniteSet(0 .. MaxRefs - 1) /\ Cardinality(0 .. MaxRefs - 1) = MaxRefs
  <2>1. 0 \in Int /\ MaxRefs - 1 \in Int
    BY <1>1
  <2>2. /\ IsFiniteSet(0 .. MaxRefs - 1)
        /\ Cardinality(0 .. MaxRefs - 1) = IF 0 > MaxRefs - 1 THEN 0 ELSE MaxRefs - 1 - 0 + 1
    BY <2>1, FS_Interval
  <2>3. QED
    BY <1>1, <2>2
<1>3. /\ IsFiniteSet(Threads \X (0 .. MaxRefs - 1))
      /\ Cardinality(Threads \X (0 .. MaxRefs - 1)) = Cardinality(Threads) * MaxRefs
  BY <1>1, <1>2, FS_Product, Zenon
<1>4. /\ IsFiniteSet(RefsOf(h)) /\ Cardinality(RefsOf(h)) \in Nat
      /\ Cardinality(RefsOf(h)) <= Cardinality(Threads \X (0 .. MaxRefs - 1))
  <2>1. RefsOf(h) \subseteq Threads \X (0 .. MaxRefs - 1)
    BY DEF RefsOf
  <2>2. QED
    BY <1>3, <2>1, FS_Subset, FS_CardinalityType
<1>5. Cardinality(RefsOf(h)) = 0 <=> RefsOf(h) = {}
  BY <1>4, FS_EmptySet
<1>6. Cardinality(RefsOf(h)) < Short
  <2>1. Cardinality(Threads) * MaxRefs \in Nat
    BY <1>1, FS_CardinalityType
  <2>2. QED
    BY <1>1, <1>3, <1>4, <2>1
<1>7. QED
  BY <1>1, <1>4, <1>5, <1>6

LEMMA AddReferenceStep ==
    ASSUME CountInv, NEW t \in Threads, AddReference(t)
    PROVE  CountInv'
<1>1. /\ protocol = "references" /\ Cardinality(has[t]) < MaxRefs
      /\ dest' = As(width, dest + 1)
      /\ has' = [has EXCEPT ![t] = @ \cup {Cardinality(@)}]
      /\ UNCHANGED <<protocol, width>>
  BY DEF AddReference, AddAndFetch, Effect
<1>2. made' = (made \/ dest' = 1)
  BY DEF AddReference, AddAndFetch, Effect
<1>3. PICK n \in 0 .. MaxRefs : has[t] = 0 .. n - 1
  BY <1>1 DEF CountInv
<1>4. Cardinality(has[t]) = n /\ n \in 0 .. MaxRefs - 1
  <2>1. 0 \in Int /\ n - 1 \in Int /\ MaxRefs \in Nat
    BY <1>3, WidthAssumption
  <2>2. Cardinality(0 .. n - 1) = IF 0 > n - 1 THEN 0 ELSE n - 1 - 0 + 1
    BY <2>1, FS_Interval
  <2>3. QED
    BY <1>1, <1>3, <2>1, <2>2
<1>5. /\ has' = [has EXCEPT ![t] = 0 .. n]
      /\ has' \in [Threads -> SUBSET (0 .. MaxRefs - 1)]
      /\ \A u \in Threads : \E m \in 0 .. MaxRefs : has'[u] = 0 .. m - 1
  <2>1. has[t] \cup {n} = 0 .. n /\ 0 .. n = 0 .. (n + 1) - 1 /\ n + 1 \in 0 .. MaxRefs
    BY <1>3, <1>4, WidthAssumption
  <2>2. has' = [has EXCEPT ![t] = 0 .. n]
    BY <1>1, <1>4, <2>1, Zenon
  <2>3. 0 .. n \in SUBSET (0 .. MaxRefs - 1)
    BY <1>4, WidthAssumption
  <2>4. has' \in [Threads -> SUBSET (0 .. MaxRefs - 1)]
    BY <1>1, <2>2, <2>3 DEF CountInv
  <2>5. ASSUME NEW u \in Threads
        PROVE  \E m \in 0 .. MaxRefs : has'[u] = 0 .. m - 1
    <3>1. CASE u = t
      <4>1. has'[u] = 0 .. (n + 1) - 1
        BY <1>1, <2>1, <2>2, <3>1 DEF CountInv
      <4>2. QED
        BY <2>1, <4>1
    <3>2. CASE u # t
      <4>1. has'[u] = has[u]
        BY <1>1, <2>2, <3>2 DEF CountInv
      <4>2. QED
        BY <1>1, <4>1, Zenon DEF CountInv
    <3>3. QED
      BY <3>1, <3>2
  <2>6. QED
    BY <2>2, <2>4, <2>5
<1>6. RefsOf(has') = RefsOf(has) \cup {<<t, n>>} /\ <<t, n>> \notin RefsOf(has)
  <2>1. \A u \in Threads, i \in 0 .. MaxRefs - 1 : i \in has'[u] <=> i \in has[u] \/ (u = t /\ i = n)
    BY <1>1, <1>3, <1>4, <1>5 DEF CountInv
  <2>2. n \notin has[t]
    BY <1>3, <1>4
  <2>3. QED
    BY <1>4, <2>1, <2>2 DEF RefsOf
<1>7. Cardinality(RefsOf(has')) = Cardinality(RefsOf(has)) + 1 /\ RefsOf(has') # {}
  BY <1>6, FewReferences, FS_AddElement, Zenon
<1>8. Cardinality(RefsOf(has')) \in 0 .. Short - 1
  BY FewReferences
<1>9. dest' = Cardinality(RefsOf(has'))
  <2>1. dest + 1 = Cardinality(RefsOf(has')) /\ width \in Widths
    BY <1>1, <1>7 DEF CountInv
  <2>2. QED
    BY <1>1, <1>8, <2>1, CountSurvives
<1>10. made' \in BOOLEAN /\ (made' <=> RefsOf(has') # {})
  <2>1. made \/ dest' = 1
    BY <1>1, <1>7, <1>9, FewReferences DEF CountInv
  <2>2. QED
    BY <1>2, <1>7, <2>1, Zenon
<1>11. QED
  BY <1>1, <1>5, <1>9, <1>10, Zenon DEF CountInv

LEMMA DropReferenceStep ==
    ASSUME CountInv, NEW t \in Threads, DropReference(t)
    PROVE  CountInv'
<1>1. /\ protocol = "references" /\ has[t] # {}
      /\ dest' = As(width, dest + -1)
      /\ has' = [has EXCEPT ![t] = @ \ {Cardinality(@) - 1}]
      /\ UNCHANGED <<protocol, width>>
  BY DEF DropReference, AddAndFetch, Effect
<1>2. made' = (made /\ dest' # 0)
  BY DEF DropReference, AddAndFetch, Effect
<1>3. PICK n \in 0 .. MaxRefs : has[t] = 0 .. n - 1
  BY <1>1 DEF CountInv
<1>4. Cardinality(has[t]) = n /\ n \in 1 .. MaxRefs
  <2>1. 0 \in Int /\ n - 1 \in Int /\ MaxRefs \in Nat
    BY <1>3, WidthAssumption
  <2>2. Cardinality(0 .. n - 1) = IF 0 > n - 1 THEN 0 ELSE n - 1 - 0 + 1
    BY <2>1, FS_Interval
  <2>3. n # 0
    BY <1>1, <1>3
  <2>4. QED
    BY <1>3, <2>1, <2>2, <2>3
<1>5. /\ has' = [has EXCEPT ![t] = 0 .. n - 2]
      /\ has' \in [Threads -> SUBSET (0 .. MaxRefs - 1)]
      /\ \A u \in Threads : \E m \in 0 .. MaxRefs : has'[u] = 0 .. m - 1
  <2>1. has[t] \ {n - 1} = 0 .. n - 2 /\ 0 .. n - 2 = 0 .. (n - 1) - 1 /\ n - 1 \in 0 .. MaxRefs
    BY <1>3, <1>4, WidthAssumption
  <2>2. has' = [has EXCEPT ![t] = 0 .. n - 2]
    BY <1>1, <1>4, <2>1, Zenon
  <2>3. 0 .. n - 2 \in SUBSET (0 .. MaxRefs - 1)
    BY <1>4, WidthAssumption
  <2>4. has \in [Threads -> SUBSET (0 .. MaxRefs - 1)]
    BY <1>1 DEF CountInv
  <2>5. ASSUME NEW u \in Threads
        PROVE  \E m \in 0 .. MaxRefs : has'[u] = 0 .. m - 1
    <3>1. CASE u = t
      BY <2>1, <2>2, <2>4, <3>1
    <3>2. CASE u # t
      BY <1>1, <2>2, <2>4, <3>2 DEF CountInv
    <3>3. QED
      BY <3>1, <3>2
  <2>6. QED
    BY <2>2, <2>3, <2>4, <2>5
<1>6. RefsOf(has') = RefsOf(has) \ {<<t, n - 1>>} /\ <<t, n - 1>> \in RefsOf(has)
  <2>1. \A u \in Threads, i \in 0 .. MaxRefs - 1 : i \in has'[u] <=> i \in has[u] /\ ~(u = t /\ i = n - 1)
    <3>1. \A i \in 0 .. MaxRefs - 1 : i \in 0 .. n - 2 <=> i \in 0 .. n - 1 /\ i # n - 1
      BY <1>4, WidthAssumption
    <3>2. has'[t] = 0 .. n - 2 /\ \A u \in Threads \ {t} : has'[u] = has[u]
      BY <1>1, <1>5 DEF CountInv
    <3>3. QED
      BY <1>3, <3>1, <3>2
  <2>2. n - 1 \in has[t] /\ n - 1 \in 0 .. MaxRefs - 1
    BY <1>3, <1>4, WidthAssumption
  <2>3. QED
    BY <2>1, <2>2 DEF RefsOf
<1>7. Cardinality(RefsOf(has')) = Cardinality(RefsOf(has)) - 1 /\ RefsOf(has) # {}
  <2>1. IsFiniteSet(RefsOf(has))
    BY FewReferences
  <2>2. Cardinality(RefsOf(has) \ {<<t, n - 1>>}) =
           IF <<t, n - 1>> \in RefsOf(has) THEN Cardinality(RefsOf(has)) - 1 ELSE Cardinality(RefsOf(has))
    BY <2>1, FS_RemoveElement, Zenon
  <2>3. QED
    BY <1>6, <2>2
<1>8. Cardinality(RefsOf(has')) \in 0 .. Short - 1
  BY FewReferences
<1>9. dest' = Cardinality(RefsOf(has'))
  <2>1. dest + -1 = Cardinality(RefsOf(has')) /\ width \in Widths
    BY <1>1, <1>7, FewReferences DEF CountInv
  <2>2. QED
    BY <1>1, <1>8, <2>1, CountSurvives
<1>10. made' \in BOOLEAN /\ (made' <=> RefsOf(has') # {})
  <2>1. made /\ (dest' # 0 <=> RefsOf(has') # {})
    BY <1>1, <1>7, <1>9, FewReferences DEF CountInv
  <2>2. QED
    BY <1>2, <2>1, Zenon
<1>11. QED
  BY <1>1, <1>5, <1>9, <1>10, Zenon DEF CountInv

LEMMA BitStep ==
    ASSUME CountInv, NEW t \in Threads, SetBit(t) \/ ClearBit(t)
    PROVE  CountInv'
<1>1. CASE SetBit(t)
  <2>1. /\ protocol = "bits" /\ has[t] = {} /\ UNCHANGED protocol
        /\ dest' = dest \cup {t} /\ has' = [has EXCEPT ![t] = {t}]
    BY <1>1 DEF SetBit, InterlockedOr, Effect
  <2>2. made' = (made \/ dest' = {t})
    BY <1>1 DEF SetBit, InterlockedOr, Effect
  <2>3. made \/ dest' = {t}
    BY <2>1 DEF CountInv
  <2>4. made' \in BOOLEAN /\ (made' <=> dest' # {})
    <3>1. dest' # {}
      BY <2>1
    <3>2. QED
      BY <2>2, <2>3, <3>1, Zenon
  <2>5. QED
    BY <2>1, <2>4 DEF CountInv
<1>2. CASE ClearBit(t)
  <2>1. /\ protocol = "bits" /\ has[t] # {} /\ UNCHANGED protocol
        /\ dest' = dest \cap (Threads \ {t}) /\ has' = [has EXCEPT ![t] = {}]
    BY <1>2 DEF ClearBit, InterlockedAnd, Effect
  <2>2. made' = (made /\ dest' # {})
    BY <1>2 DEF ClearBit, InterlockedAnd, Effect
  <2>3. made
    BY <2>1 DEF CountInv
  <2>4. made' \in BOOLEAN /\ (made' <=> dest' # {})
    BY <2>2, <2>3, Zenon
  <2>5. QED
    BY <2>1, <2>4 DEF CountInv
<1>3. QED
  BY <1>1, <1>2

(* InterlockedIncrement and InterlockedDecrement, InterlockedOr and        *)
(* InterlockedAnd tell the first thread to make the object and the last    *)
(* one to delete it.                                                       *)
THEOREM FirstAndLast == Spec => []FirstAndLastAreTold
<1>1. Init => CountInv
  <2> SUFFICES ASSUME Init, protocol \in {"bits", "references"}
               PROVE  CountInv
    BY DEF CountInv
  <2>1. has = [t \in Threads |-> {}] /\ (protocol = "bits" => dest = {}) /\ (protocol = "references" => dest = 0)
    BY DEF Init, Start
  <2>2. RefsOf(has) = {}
    BY <2>1 DEF RefsOf
  <2>3. Cardinality(RefsOf(has)) = 0
    BY <2>2, FS_EmptySet
  <2>4. \A t \in Threads : has[t] = {} /\ has[t] = 0 .. 0 - 1 /\ 0 \in 0 .. MaxRefs
    BY <2>1, WidthAssumption
  <2>5. made = FALSE /\ (protocol = "references" => width \in Widths)
    BY DEF Init
  <2>6. made \in BOOLEAN
    BY <2>5, Zenon
  <2>7. QED
    BY <2>1, <2>2, <2>3, <2>4, <2>5, <2>6, Zenon DEF CountInv
<1>2. CountInv /\ [Next]_vars => CountInv'
  <2> SUFFICES ASSUME CountInv, [Next]_vars, protocol' \in {"bits", "references"}
               PROVE  CountInv'
    BY DEF CountInv
  <2>1. \/ UNCHANGED vars
        \/ \E t \in Threads : SetBit(t) \/ ClearBit(t) \/ AddReference(t) \/ DropReference(t)
    BY Steps DEF Own
  <2>2. CASE UNCHANGED vars
    BY <2>2 DEF vars, CountInv
  <2>3. QED
    BY <2>1, <2>2, AddReferenceStep, DropReferenceStep, BitStep
<1>3. CountInv => FirstAndLastAreTold
  <2> SUFFICES ASSUME CountInv, protocol \in {"bits", "references"}
               PROVE  made <=> Holders # {}
    BY DEF FirstAndLastAreTold
  <2>1. CASE protocol = "bits"
    BY <2>1 DEF CountInv, Holders
  <2>2. CASE protocol = "references"
    <3>1. RefsOf(has) # {} <=> Holders # {}
      <4>1. ASSUME NEW r \in RefsOf(has)
            PROVE  r[1] \in Holders
        BY DEF RefsOf, Holders
      <4>2. ASSUME NEW t \in Holders
            PROVE  RefsOf(has) # {}
        <5>1. PICK i \in has[t] : i \in 0 .. MaxRefs - 1
          BY <2>2 DEF CountInv, Holders
        <5>2. <<t, i>> \in RefsOf(has)
          BY <5>1 DEF RefsOf, Holders
        <5>3. QED
          BY <5>2
      <4>3. QED
        BY <4>1, <4>2
    <3>2. QED
      BY <2>2, <3>1 DEF CountInv
  <2>3. QED
    BY <2>1, <2>2
<1>4. QED
  BY <1>1, <1>2, <1>3, PTL DEF Spec

-----------------------------------------------------------------------------
(* How long ago x was given out when the next number is d. *)
Age(d, x) == IF x < d THEN d - x ELSE d - x + 2 * Long

Given == UNION {has[t] : t \in Threads}

(* The numbers given out are the last ones before the variable. *)
TicketInv ==
    protocol = "tickets" =>
       /\ dest \in Values("int64") /\ number \in 0 .. MaxTickets
       /\ has \in [Threads -> SUBSET Values("int64")]
       /\ \A t \in Threads : \A x \in has[t] : Age(dest, x) <= number
       /\ \A t, u \in Threads : t # u => has[t] \cap has[u] = {}
       /\ IsFiniteSet(Given) /\ Cardinality(Given) = number

(* A counter that is increased by at most the range wraps around once. *)
LEMMA WrapsOnce ==
    ASSUME NEW d \in Values("int64"), NEW i \in 0 .. 2 * Long
    PROVE  As("int64", d + i) = IF d + i < Long THEN d + i ELSE d + i - 2 * Long
<1>1. /\ Long \in Nat \ {0} /\ Half("int64") = Long /\ d \in Int /\ i \in Nat
      /\ -Long <= d /\ d < Long /\ i <= 2 * Long
  BY WidthAssumption DEF Half, Values
<1>2. \A a, m \in Nat : m > 0 /\ a < m => a % m = a
  OBVIOUS
<1>3. \A a, m \in Nat : m > 0 /\ m <= a /\ a < 2 * m => a % m = a - m
  OBVIOUS
<1>4. PICK m \in Nat : m = 2 * Long
  BY <1>1
<1>5. PICK a \in Nat : a = d + i + Long
  BY <1>1
<1>6. As("int64", d + i) = (a % m) - Long
  BY <1>1, <1>4, <1>5 DEF As
<1>7. CASE d + i < Long
  BY <1>1, <1>2, <1>4, <1>5, <1>6, <1>7
<1>8. CASE ~(d + i < Long)
  <2>1. m > 0 /\ m <= a /\ a < 2 * m
    BY <1>1, <1>4, <1>5, <1>8
  <2>2. a % m = a - m
    BY <1>3, <2>1
  <2>3. QED
    BY <1>1, <1>4, <1>5, <1>6, <1>8, <2>2
<1>9. QED
  BY <1>7, <1>8

(* The numbers of one call are different. *)
LEMMA DrawnNumbers ==
    ASSUME NEW d \in Values("int64"), NEW n \in 0 .. 2 * Long
    PROVE  LET N == {As("int64", d + i) : i \in 0 .. n - 1}
           IN  IsFiniteSet(N) /\ Cardinality(N) = n
<1> DEFINE N == {As("int64", d + i) : i \in 0 .. n - 1}
           f == [i \in 0 .. n - 1 |-> As("int64", d + i)]
<1>1. Long \in Nat \ {0} /\ d \in Int /\ -Long <= d /\ d < Long /\ n \in Nat /\ n <= 2 * Long
  BY WidthAssumption DEF Half, Values
<1>2. \A i, j \in 0 .. n - 1 : f[i] = f[j] => i = j
  <2>1. \A i \in 0 .. n - 1 : f[i] = IF d + i < Long THEN d + i ELSE d + i - 2 * Long
    <3>1. ASSUME NEW i \in 0 .. n - 1
          PROVE  As("int64", d + i) = IF d + i < Long THEN d + i ELSE d + i - 2 * Long
      <4>1. i \in 0 .. 2 * Long
        BY <1>1
      <4>2. QED
        BY <4>1, WrapsOnce
    <3>2. QED
      BY <3>1
  <2> HIDE DEF f
  <2>2. QED
    BY <1>1, <2>1
<1>3. f \in Bijection(0 .. n - 1, N)
  BY <1>2 DEF Bijection, Injection, Surjection, IsInjective
<1>4. IsFiniteSet(0 .. n - 1) /\ Cardinality(0 .. n - 1) = n
  <2>1. 0 \in Int /\ n - 1 \in Int
    BY <1>1
  <2>2. /\ IsFiniteSet(0 .. n - 1)
        /\ Cardinality(0 .. n - 1) = IF 0 > n - 1 THEN 0 ELSE n - 1 - 0 + 1
    BY <2>1, FS_Interval, SMTT(20), SMTT(30)
  <2>3. QED
    BY <1>1, <2>2
<1> HIDE DEF f, N
<1>5. IsFiniteSet(N) /\ Cardinality(N) = Cardinality(0 .. n - 1)
  <2>1. ExistsBijection(0 .. n - 1, N)
    BY <1>3 DEF ExistsBijection
  <2>2. QED
    BY <1>4, <2>1, FS_Bijection, Zenon
<1>6. QED
  BY <1>4, <1>5 DEF N

(* No two threads are given the same number by InterlockedExchangeAdd64,   *)
(* before and after the counter passes its largest value, as long as not   *)
(* more are given out than there are.                                      *)
THEOREM NumbersAreDistinct == Spec => []TicketsAreDistinct
<1>1. Init => TicketInv
  <2> SUFFICES ASSUME Init, protocol = "tickets"
               PROVE  TicketInv
    BY DEF TicketInv
  <2>1. has = [t \in Threads |-> {}] /\ dest \in Values("int64") /\ number = 0
    BY DEF Init, Start
  <2>2. Given = {}
    BY <2>1 DEF Given
  <2>3. QED
    BY <2>1, <2>2, FS_EmptySet, WidthAssumption DEF TicketInv
<1>2. TicketInv /\ [Next]_vars => TicketInv'
  <2> SUFFICES ASSUME TicketInv, [Next]_vars, protocol' = "tickets"
               PROVE  TicketInv'
    BY DEF TicketInv
  <2>1. /\ protocol = "tickets"
        /\ UNCHANGED vars \/ \E t \in Threads : \E n \in Addends : Draw(t, n)
    BY Steps DEF Own
  <2>2. CASE UNCHANGED vars
    BY <2>2 DEF vars, TicketInv, Given
  <2>3. ASSUME NEW t \in Threads, NEW n \in Addends, Draw(t, n)
        PROVE  TicketInv'
    <3> DEFINE N == {As("int64", dest + i) : i \in 0 .. n - 1}
    <3>1. /\ number + n <= MaxTickets /\ dest' = As("int64", dest + n) /\ number' = number + n
          /\ has' = [has EXCEPT ![t] = @ \cup N]
      BY <2>3 DEF Draw, InterlockedExchangeAdd64, Effect
    <3>2. /\ dest \in Values("int64") /\ dest \in Int /\ -Long <= dest /\ dest < Long
          /\ number \in Nat /\ n \in Nat /\ n + number <= 2 * Long
          /\ Long \in Nat \ {0} /\ Values("int64") = -Long .. Long - 1
      BY <2>1, <3>1, WidthAssumption DEF TicketInv, Values, Half
    <3>3. ASSUME NEW i \in 0 .. n
          PROVE  As("int64", dest + i) = IF dest + i < Long THEN dest + i ELSE dest + i - 2 * Long
      <4>1. i \in 0 .. 2 * Long
        BY <3>2
      <4>2. QED
        BY <3>2, <4>1, WrapsOnce, Zenon
    <3>4. dest' = IF dest + n < Long THEN dest + n ELSE dest + n - 2 * Long
      <4>1. n \in 0 .. n
        BY <3>2
      <4>2. QED
        BY <3>1, <3>3, <4>1
    <3>5. dest' \in Values("int64") /\ number' \in 0 .. MaxTickets
      BY <3>1, <3>2, <3>4, WidthAssumption, SMTT(20), SMTT(30)
    <3>6. ASSUME NEW x \in Values("int64"), Age(dest, x) <= number
          PROVE  Age(dest', x) <= number'
      BY <3>1, <3>2, <3>4, <3>6 DEF Age
    <3>7. ASSUME NEW i \in 0 .. n - 1
          PROVE  LET x == As("int64", dest + i)
                 IN  x \in Values("int64") /\ Age(dest, x) > number /\ Age(dest', x) <= number'
      <4>1. As("int64", dest + i) = IF dest + i < Long THEN dest + i ELSE dest + i - 2 * Long
        <5>1. i \in 0 .. n
          BY <3>2
        <5>2. QED
          BY <3>3, <5>1
      <4>2. PICK x \in Int : x = As("int64", dest + i)
        BY <3>2, <4>1
      <4>3. x \in Values("int64") /\ Age(dest, x) > number
        BY <3>2, <4>1, <4>2 DEF Age
      <4>4. Age(dest', x) <= number'
        BY <3>1, <3>2, <3>4, <4>1, <4>2, SMTT(40), SMTT(30) DEF Age
      <4>5. QED
        BY <4>2, <4>3, <4>4
    <3>8. \A x \in N : x \in Values("int64") /\ Age(dest, x) > number /\ Age(dest', x) <= number'
      BY <3>7
    <3>9. IsFiniteSet(N) /\ Cardinality(N) = n
      <4>1. n \in 0 .. 2 * Long
        BY <3>2
      <4>2. QED
        BY <3>2, <4>1, DrawnNumbers, Zenon
    <3> HIDE DEF N
    <3>10. /\ has \in [Threads -> SUBSET Values("int64")]
           /\ has'[t] = has[t] \cup N /\ \A u \in Threads \ {t} : has'[u] = has[u]
           /\ \A u \in Threads : \A x \in has[u] : x \in Values("int64") /\ Age(dest, x) <= number
      BY <2>1, <3>1 DEF TicketInv
    <3>11. \A u \in Threads : has[u] \cap N = {}
      <4>1. \A x \in Values("int64") : Age(dest, x) \in Int
        BY <3>2 DEF Age
      <4>2. QED
        BY <3>2, <3>8, <3>10, <4>1
    <3>12. has' \in [Threads -> SUBSET Values("int64")]
      BY <3>1, <3>8, <3>10
    <3>13. \A u \in Threads : \A x \in has'[u] : Age(dest', x) <= number'
      BY <3>6, <3>8, <3>10
    <3>14. \A u, v \in Threads : u # v => has'[u] \cap has'[v] = {}
      BY <2>1, <3>10, <3>11 DEF TicketInv
    <3>15. IsFiniteSet(Given') /\ Cardinality(Given') = number'
      <4>1. Given' = Given \cup N /\ Given \cap N = {}
        BY <3>10, <3>11 DEF Given
      <4>2. IsFiniteSet(Given) /\ Cardinality(Given) = number
        BY <2>1 DEF TicketInv
      <4>3. /\ IsFiniteSet(Given \cup N)
            /\ Cardinality(Given \cup N) = Cardinality(Given) + Cardinality(N) - Cardinality(Given \cap N)
        BY <3>9, <4>2, FS_Union, Zenon
      <4>4. Cardinality(Given \cap N) = 0
        BY <4>1, FS_EmptySet
      <4>5. QED
        BY <3>1, <3>2, <3>9, <4>1, <4>2, <4>3, <4>4
    <3>16. QED
      BY <3>5, <3>12, <3>13, <3>14, <3>15 DEF TicketInv
  <2>4. QED
    BY <2>1, <2>2, <2>3
<1>3. TicketInv => TicketsAreDistinct
  BY DEF TicketInv, TicketsAreDistinct, Given
<1>4. QED
  BY <1>1, <1>2, <1>3, PTL DEF Spec

-----------------------------------------------------------------------------
(***************************************************************************)
(* The failure injection of CxPlatAlloc, whose counter is incremented by   *)
(* InterlockedIncrement: FailureInjection for any threads, any arguments   *)
(* of CxPlatSetAllocFailDenominator and any number of allocations.         *)
(***************************************************************************)

(* What CxPlatInitialize leaves satisfies AllocInv.  *)
LEMMA FailureInit == AllocInit => AllocInv
  BY FailureAssumption DEF AllocInit, AllocInv, AllocTypeOK, Counting, Setting, Busy, clean, Nth

(* A thread in CxPlatAlloc moves on or returns and leaves the platform     *)
(* alone: AllocInv is kept if the thread's next division is guarded.       *)
LEMMA MoveOn ==
  ASSUME AllocInv, AllocTypeOK', NEW t \in Callers, NEW step, Goto(t, step),
         pc[t] \in {"random", "negative"}, step \in {"idle", "negative", "increment"},
         step = "increment" => AllocFailDenominator < 0,
         UNCHANGED <<platform, Addend, stopped, Failed, raced, last>>
  PROVE  AllocInv'
<1> USE FailureAssumption DEF AllocInv, AllocTypeOK, Counting, clean, Nth, Goto
<1>1. Setting' = Setting /\ Busy' \subseteq Busy
  BY DEF Setting, Busy
<1>2. ~(clean /\ Setting # {})
  BY DEF Setting, Busy
<1>3. \A u \in Callers : pc'[u] = "remainder" <=> pc[u] = "remainder"
  OBVIOUS
<1>4. \A u \in Callers \ raced' :
        /\ pc'[u] = "random" => AllocFailDenominator' > 0
        /\ pc'[u] \in {"increment", "remainder"} => AllocFailDenominator' < 0
  BY DEF platform
<1> QED
  BY <1>1, <1>2, <1>3, <1>4 DEF platform

(* A division by zero stops the program and keeps AllocInv.                *)
LEMMA DivideStep == ASSUME AllocInv, DivideByZero PROVE AllocInv'
  BY FailureAssumption DEF AllocInv, AllocTypeOK, Counting, Setting, Busy, clean, Nth, DivideByZero,
     platform, history

(* The steps of CxPlatAlloc keep AllocInv.  *)
LEMMA AllocStep == ASSUME AllocInv, NEW t \in Callers, CxPlatAlloc(t) PROVE AllocInv'
<1> USE FailureAssumption DEF At
<1>0. AllocTypeOK
  BY DEF AllocInv
<1>1. CASE Alloc_call(t)
  BY <1>1 DEF Alloc_call, platform, Setting, Busy, AllocInv, AllocTypeOK, Counting, clean, Nth,
     Goto
<1>2. CASE Alloc_random(t)
  <2>1. CASE AllocFailDenominator = 0 /\ DivideByZero
    BY <2>1, DivideStep, Zenon
  <2>2. ASSUME NEW step \in {"idle", "negative"}, Goto(t, step),
               UNCHANGED <<platform, Addend, stopped, history>>
        PROVE  AllocInv'
    <3>1. AllocTypeOK' /\ UNCHANGED <<platform, Addend, stopped, Failed, raced, last>>
      BY <2>2 DEF AllocInv, AllocTypeOK, Goto, platform, history
    <3> QED
      BY <1>2, <2>2, <3>1, MoveOn DEF Alloc_random
  <2> QED
    BY <1>2, <2>1, <2>2 DEF Alloc_random
<1>3. CASE Alloc_negative(t)
  <2>1. PICK step \in {"idle", "increment"} :
          Goto(t, step) /\ (step = "increment" => AllocFailDenominator < 0)
    BY <1>3 DEF Alloc_negative, Pass
  <2>2. AllocTypeOK' /\ UNCHANGED <<platform, Addend, stopped, Failed, raced, last>>
    <3>1. UNCHANGED <<AllocFailDenominator, AllocCounter, Addend, stopped, tries, Failed, raced, last>>
      BY <1>3 DEF Alloc_negative, Pass, platform, history
    <3>2. passed' \in Nat
      BY <1>0, <1>3 DEF Alloc_negative, Pass, AllocTypeOK, history
    <3> QED
      BY <1>0, <2>1, <3>1, <3>2 DEF AllocTypeOK, Goto, platform
  <2> QED
    BY <1>3, <2>1, <2>2, MoveOn DEF Alloc_negative
<1>4. CASE InterlockedIncrement(t)
  BY <1>4, SMTT(20) DEF InterlockedIncrement, platform, history, Setting, Busy, AllocInv,
     AllocTypeOK, Counting, clean, Nth, Goto
<1>5. CASE Alloc_remainder(t)
  <2>1. CASE AllocFailDenominator = 0 /\ DivideByZero
    BY <2>1, DivideStep, Zenon
  <2>2. CASE AllocFailDenominator # 0
    <3> USE DEF AllocTypeOK, Counting, clean, Goto
    <3>1. /\ pc[t] = "remainder" /\ pc' = [pc EXCEPT ![t] = "idle"]
          /\ UNCHANGED <<AllocFailDenominator, AllocCounter, Addend, stopped, raced, last>>
          /\ \/ Divides(AllocFailDenominator, Addend[t]) /\ Failed' = Failed \cup {Addend[t]}
             \/ ~Divides(AllocFailDenominator, Addend[t]) /\ Failed' = Failed
          /\ tries' = tries /\ passed' \in {passed, passed + 1}
      BY <1>5, <2>2 DEF Alloc_remainder, Pass, platform
    <3>2. AllocTypeOK'
      <4>1. passed' \in Nat
        BY <1>0, <3>1
      <4>2. Failed' \subseteq Nat
        <5>1. Addend[t] \in Nat /\ Failed \subseteq Nat
          BY <1>0
        <5>2. Failed' \subseteq Failed \cup {Addend[t]}
          BY <3>1
        <5> QED
          BY <5>1, <5>2
      <4> QED
        BY <1>0, <3>1, <4>1, <4>2
    <3>3. Setting' = Setting /\ Busy' \subseteq Busy
      BY <1>0, <3>1 DEF Setting, Busy
    <3>4. ~(clean /\ Setting # {})
      BY <1>0, <3>1 DEF Setting, Busy, AllocInv
    <3>5. \A u \in Callers : pc'[u] = "remainder" <=> pc[u] = "remainder" /\ u # t
      BY <1>0, <3>1
    <3>6. Nth' = Nth /\ (Counting' <=> Counting)
      BY <3>1, <3>3 DEF Nth
    <3>7. ASSUME Counting
          PROVE  /\ \A k \in Failed' : k \in 1..AllocCounter' /\ k % Nth' = 0
                 /\ \A k \in 1..AllocCounter' : k % Nth' = 0 =>
                       k \in Failed' \/ \E u \in Callers : pc'[u] = "remainder" /\ Addend'[u] = k
      <4>1. Divides(AllocFailDenominator, Addend[t]) <=> Addend[t] % Nth = 0
        BY <3>7 DEF Divides, Nth
      <4>2. Addend[t] \in 1..AllocCounter /\ \A k \in Failed : k \in 1..AllocCounter /\ k % Nth = 0
        BY <3>1, <3>7 DEF AllocInv
      <4>3. \A k \in 1..AllocCounter : k % Nth = 0 =>
              k \in Failed \/ \E u \in Callers : pc[u] = "remainder" /\ Addend[u] = k
        BY <3>7 DEF AllocInv
      <4>4. \A k \in Failed' : k \in 1..AllocCounter /\ k % Nth = 0
        BY <3>1, <4>1, <4>2
      <4>5. ASSUME NEW k \in 1..AllocCounter, k % Nth = 0,
                   ~\E u \in Callers : pc'[u] = "remainder" /\ Addend[u] = k
            PROVE  k \in Failed'
        <5>1. k \in Failed \/ Addend[t] = k
          BY <3>5, <4>3, <4>5
        <5> QED
          BY <3>1, <4>1, <4>5, <5>1
      <4> QED
        BY <3>1, <3>6, <4>4, <4>5
    <3>8. ASSUME Counting, NEW u \in Callers, pc'[u] = "remainder"
          PROVE  /\ Addend'[u] \in 1..AllocCounter' \ Failed'
                 /\ \A v \in Callers : pc'[v] = "remainder" /\ Addend'[v] = Addend'[u] => v = u
      BY <3>1, <3>5, <3>8 DEF AllocInv
    <3>9. \A u \in Callers \ raced' :
            /\ pc'[u] = "random" => AllocFailDenominator' > 0
            /\ pc'[u] \in {"increment", "remainder"} => AllocFailDenominator' < 0
      BY <1>0, <3>1, SMTT(20) DEF AllocInv
    <3> QED
      BY <3>1, <3>2, <3>3, <3>4, <3>6, <3>7, <3>8, <3>9, SMTT(20), SMTT(30) DEF AllocInv
  <2> QED
    BY <1>5, <2>1, <2>2, Zenon DEF Alloc_remainder
<1> QED
  BY <1>1, <1>2, <1>3, <1>4, <1>5 DEF CxPlatAlloc

(* The two writes of CxPlatSetAllocFailDenominator keep AllocInv.  *)
LEMMA SetStep == ASSUME AllocInv, NEW t \in Callers, CxPlatSetAllocFailDenominator(t) PROVE AllocInv'
<1> USE FailureAssumption DEF AllocInv, AllocTypeOK, Counting, Setting, Busy, clean, Nth, At, Goto
<1>1. CASE Set_counter(t)
  BY <1>1, SMTT(20), SMTT(30) DEF Set_counter, history
<1>2. ASSUME NEW Value \in Denominators, Set_denominator(t, Value) PROVE AllocInv'
  BY <1>2 DEF Set_denominator
<1> QED
  BY <1>1, <1>2, ZenonT(40) DEF CxPlatSetAllocFailDenominator

(* AllocInv holds in every reachable state, however many threads allocate  *)
(* and set the denominator at once.                                        *)
THEOREM FailureInvariance == AllocSpec => []AllocInv
<1>1. AllocInv /\ UNCHANGED allocVars => AllocInv'
  BY DEF AllocInv, AllocTypeOK, Counting, Setting, Busy, clean, Nth, allocVars, platform, history
<1>2. AllocInv /\ [AllocNext]_allocVars => AllocInv'
  BY <1>1, AllocStep, SetStep DEF AllocNext
<1> QED
  BY FailureInit, <1>2, PTL DEF AllocSpec

(* A program that has stopped did so in a division by zero, and stays so.  *)
StoppedByZero == stopped = "divide" => AllocFailDenominator = 0 /\ Dividing # {}

LEMMA StopsByZero == ASSUME AllocTypeOK, StoppedByZero, AllocNext PROVE StoppedByZero'
<1>1. PICK t \in Callers : CxPlatAlloc(t) \/ CxPlatSetAllocFailDenominator(t)
  BY DEF AllocNext
<1>2. CASE CxPlatAlloc(t) /\ DivideByZero
  <2>1. AllocFailDenominator = 0 /\ t \in Dividing
    BY <1>2 DEF CxPlatAlloc, Alloc_call, Alloc_random, Alloc_negative, InterlockedIncrement,
                Alloc_remainder, Pass, At, DivideByZero, Dividing, AllocTypeOK
  <2> QED
    BY <1>2, <2>1 DEF DivideByZero, StoppedByZero, Dividing, platform
<1>3. CASE ~DivideByZero
  <2>1. stopped' = "no"
    BY <1>1, <1>3 DEF CxPlatAlloc, Alloc_call, Alloc_random, Alloc_negative, InterlockedIncrement,
                Alloc_remainder, CxPlatSetAllocFailDenominator, Set_denominator, Set_counter, Pass, At
  <2> QED
    BY <2>1 DEF StoppedByZero
<1>4. CASE CxPlatSetAllocFailDenominator(t)
  <2>1. stopped' = "no"
    BY <1>4 DEF CxPlatSetAllocFailDenominator, Set_denominator, Set_counter, At
  <2> QED
    BY <2>1 DEF StoppedByZero
<1> QED
  BY <1>1, <1>2, <1>3, <1>4

(* A division by zero is always made in a call that a Set overlaps.        *)
THEOREM DivisionIsGuarded == AllocSpec => []DividesUnlessRaced
<1>1. AllocInit => StoppedByZero
  BY DEF AllocInit, StoppedByZero
<1>2. AllocInv /\ StoppedByZero /\ [AllocNext]_allocVars => StoppedByZero'
  <2>1. AllocInv => AllocTypeOK
    BY DEF AllocInv
  <2>2. StoppedByZero /\ UNCHANGED allocVars => StoppedByZero'
    BY DEF StoppedByZero, Dividing, allocVars, platform
  <2> QED
    BY <2>1, <2>2, StopsByZero
<1>3. AllocInv /\ StoppedByZero => DividesUnlessRaced
  BY DEF AllocInv, StoppedByZero, DividesUnlessRaced, Dividing
<1> QED
  BY <1>1, <1>2, <1>3, FailureInvariance, PTL DEF AllocSpec

(* After a Set that overlapped nothing, with the denominator -N, the       *)
(* allocations that fail are those that N divides, in the order of their   *)
(* increments, for any number of threads and any N.                        *)
THEOREM NthAllocationsFail == AllocSpec => []EveryNthFails
<1>1. AllocInv => EveryNthFails
  BY Zenon DEF AllocInv, EveryNthFails, AllocTypeOK, Counting, Setting, Busy, clean, Nth
<1> QED
  BY <1>1, FailureInvariance, PTL

-----------------------------------------------------------------------------
(* The calls are counted.  *)

\* The calls that have not incremented the counter yet.
Early == {t \in Callers : pc[t] \in {"negative", "increment"}}

(* After a clean Set each call has been passed on, was failed because of   *)
(* the counter or is not over; and has incremented the counter or not yet. *)
Counted ==
    /\ IsFiniteSet(Busy)
    /\ clean /\ Setting # {} => tries = 0 /\ passed = 0
    /\ clean /\ Setting = {} /\ AllocFailDenominator <= 0 =>
          /\ IsFiniteSet(Failed)
          /\ tries = passed + Cardinality(Failed) + Cardinality(Busy)
    /\ clean /\ Setting = {} /\ AllocFailDenominator = 0 => Failed = {}
    /\ Counting => tries = AllocCounter + Cardinality(Early)

(* A thread enters or leaves a set of threads.  *)
LEMMA EntersOrLeaves ==
  ASSUME NEW S, NEW t, IsFiniteSet(S)
  PROVE  /\ Cardinality(S) \in Nat
         /\ IsFiniteSet(S \cup {t}) /\ IsFiniteSet(S \ {t})
         /\ t \notin S => Cardinality(S \cup {t}) = Cardinality(S) + 1
         /\ t \in S => Cardinality(S \ {t}) = Cardinality(S) - 1
<1>1. Cardinality(S) \in Nat
  BY FS_CardinalityType
<1>2. IsFiniteSet(S \cup {t}) /\ (t \notin S => Cardinality(S \cup {t}) = Cardinality(S) + 1)
  BY FS_AddElement
<1>3. IsFiniteSet(S \ {t}) /\ (t \in S => Cardinality(S \ {t}) = Cardinality(S) - 1)
  BY FS_RemoveElement
<1> QED
  BY <1>1, <1>2, <1>3

LEMMA EarlyIsFinite == ASSUME IsFiniteSet(Busy) PROVE IsFiniteSet(Early)
<1>1. Early \subseteq Busy
  BY DEF Early, Busy
<1> QED
  BY <1>1, FS_Subset

(* No call is made before anything runs.  *)
LEMMA InitCounted == AllocInit => Counted
<1> SUFFICES ASSUME AllocInit PROVE Counted
  OBVIOUS
<1>1. Busy = {} /\ Setting = {} /\ Failed = {}
  BY DEF AllocInit, Busy, Setting
<1>2. IsFiniteSet({}) /\ Cardinality({}) = 0
  BY FS_EmptySet
<1> QED
  BY <1>1, <1>2 DEF AllocInit, Counted, Counting

(* A call begins.  *)
LEMMA CallCounted ==
  ASSUME AllocInv, Counted, NEW t \in Callers, Alloc_call(t)
  PROVE  Counted'
<1> USE FailureAssumption
<1>0. AllocTypeOK
  BY DEF AllocInv
<1>1. /\ pc[t] = "idle" /\ tries' = tries + 1
      /\ pc' = [pc EXCEPT ![t] = IF AllocFailDenominator > 0 THEN "random" ELSE "negative"]
      /\ last' = IF Setting = {} THEN last ELSE "overlapped"
      /\ UNCHANGED <<AllocFailDenominator, AllocCounter, passed, Failed>>
  BY DEF Alloc_call, At, Goto, platform
<1>2. Busy' = Busy \cup {t} /\ t \notin Busy /\ Setting' = Setting
  BY <1>0, <1>1 DEF AllocTypeOK, Busy, Setting
<1>3. AllocFailDenominator < 0 => Early' = Early \cup {t} /\ t \notin Early
  BY <1>0, <1>1 DEF AllocTypeOK, Early
<1>4. IsFiniteSet(Busy) /\ IsFiniteSet(Early)
  BY EarlyIsFinite DEF Counted
<1>5. IsFiniteSet(Busy') /\ Cardinality(Busy') = Cardinality(Busy) + 1 /\ Cardinality(Busy) \in Nat
  BY <1>2, <1>4, EntersOrLeaves
<1>6. AllocFailDenominator < 0 => Cardinality(Early') = Cardinality(Early) + 1 /\ Cardinality(Early) \in Nat
  BY <1>3, <1>4, EntersOrLeaves
<1>7. clean' => clean /\ Setting = {}
  BY <1>1 DEF clean
<1>8. IsFiniteSet(Failed) => Cardinality(Failed) \in Nat
  BY FS_CardinalityType
<1>9. tries \in Nat /\ passed \in Nat /\ AllocCounter \in Nat /\ AllocFailDenominator \in Int
  BY <1>0 DEF AllocTypeOK
<1> QED
  BY <1>1, <1>2, <1>5, <1>6, <1>7, <1>8, <1>9, SMTT(20), SMTT(30) DEF Counted, Counting

(* A step that counts nothing.  *)
LEMMA StaysCounted ==
  ASSUME Counted, Busy' = Busy, Early' = Early, Setting' = Setting,
         UNCHANGED <<AllocFailDenominator, AllocCounter, tries, passed, Failed, last>>
  PROVE  Counted'
  BY SMTT(20), SMTT(30) DEF Counted, Counting, clean

(* A call is over: it was passed on, or failed with a number that is new.  *)
LEMMA EndCounted ==
  ASSUME AllocInv, Counted, NEW t \in Callers, pc[t] \notin {"idle", "set"}, Goto(t, "idle"),
         UNCHANGED <<AllocFailDenominator, AllocCounter, tries, last>>,
         clean /\ AllocFailDenominator <= 0 =>
            \/ passed' = passed + 1 /\ Failed' = Failed
            \/ /\ passed' = passed /\ Failed' = Failed \cup {Addend[t]}
               /\ Addend[t] \notin Failed /\ AllocFailDenominator # 0,
         Counting => t \notin Early
  PROVE  Counted'
<1> USE FailureAssumption
<1>0. AllocTypeOK
  BY Zenon DEF AllocInv
<1>1. Busy' = Busy \ {t} /\ t \in Busy /\ Setting' = Setting
  BY <1>0 DEF AllocTypeOK, Goto, Busy, Setting
<1>2. ~(clean /\ Setting # {})
  BY <1>1 DEF AllocInv, Setting
<1>3. IsFiniteSet(Busy)
  BY DEF Counted
<1>4. IsFiniteSet(Busy') /\ Cardinality(Busy') = Cardinality(Busy) - 1 /\ Cardinality(Busy) \in Nat
  BY <1>1, <1>3, EntersOrLeaves
<1>5. Counting => Early' = Early
  BY <1>0 DEF AllocTypeOK, Goto, Early
<1>6. tries \in Nat /\ passed \in Nat /\ AllocCounter \in Nat /\ AllocFailDenominator \in Int
  BY <1>0, SMTT(20), SMTT(30) DEF AllocTypeOK
<1>7. ASSUME clean, Setting = {}, AllocFailDenominator <= 0
      PROVE  IsFiniteSet(Failed') /\ tries' = passed' + Cardinality(Failed') + Cardinality(Busy')
  <2>1. IsFiniteSet(Failed) /\ tries = passed + Cardinality(Failed) + Cardinality(Busy)
    BY <1>7 DEF Counted
  <2>2. /\ Cardinality(Failed) \in Nat /\ IsFiniteSet(Failed \cup {Addend[t]})
        /\ Addend[t] \notin Failed => Cardinality(Failed \cup {Addend[t]}) = Cardinality(Failed) + 1
    BY <2>1, EntersOrLeaves, ZenonT(40)
  <2>3. CASE passed' = passed + 1 /\ Failed' = Failed
    BY <1>4, <1>6, <2>1, <2>2, <2>3, SMTT(20), SMTT(30)
  <2>4. CASE passed' = passed /\ Failed' = Failed \cup {Addend[t]} /\ Addend[t] \notin Failed
    BY <1>4, <1>6, <2>1, <2>2, <2>4
  <2> QED
    BY <1>7, <2>3, <2>4
<1>8. clean /\ AllocFailDenominator = 0 => Failed' = Failed
  BY <1>6
<1>9. (Counting' <=> Counting) /\ (clean' <=> clean)
  BY <1>1 DEF Counting, clean
<1>10. Counting' => tries' = AllocCounter' + Cardinality(Early')
  BY <1>5, <1>9 DEF Counted
<1> QED
  BY <1>1, <1>2, <1>4, <1>7, <1>8, <1>9, <1>10, SMTT(20) DEF Counted

(* The other accesses of CxPlatAlloc.  *)
LEMMA AllocCounted == ASSUME AllocInv, Counted, NEW t \in Callers, CxPlatAlloc(t) PROVE Counted'
<1> USE FailureAssumption
<1>0. AllocTypeOK
  BY DEF AllocInv
<1>c. clean /\ pc[t] # "idle" => t \notin raced
  BY DEF AllocInv, Busy
<1>d. ASSUME DivideByZero PROVE Counted'
  <2>1. Busy' = Busy /\ Early' = Early /\ Setting' = Setting
    BY <1>d DEF DivideByZero, Busy, Early, Setting
  <2> QED
    BY <1>d, <2>1, StaysCounted DEF DivideByZero, platform, history
<1>1. CASE Alloc_call(t)
  BY <1>1, CallCounted
<1>2. CASE Alloc_random(t)
  <2>1. pc[t] = "random"
    BY <1>2 DEF Alloc_random, At
  <2>2. clean => AllocFailDenominator > 0
    BY <1>c, <2>1 DEF AllocInv
  <2>3. ASSUME NEW step \in {"idle", "negative"}, Goto(t, step),
               UNCHANGED <<platform, Addend, stopped, history>>
        PROVE  Counted'
    <3>1. Busy' = Busy \/ Busy' = Busy \ {t}
      BY <1>0, <2>1, <2>3 DEF AllocTypeOK, Goto, Busy
    <3>2. IsFiniteSet(Busy')
      BY <3>1, EntersOrLeaves, ZenonT(40) DEF Counted
    <3>3. Setting' = Setting
      BY <1>0, <2>1, <2>3 DEF AllocTypeOK, Goto, Setting
    <3>4. AllocFailDenominator \in Int
      BY <1>0 DEF AllocTypeOK
    <3> QED
      BY <2>2, <2>3, <3>2, <3>3, <3>4 DEF Counted, Counting, clean, platform, history
  <2> QED
    BY <1>2, <1>d, <2>3 DEF Alloc_random
<1>3. CASE Alloc_negative(t)
  <2>1. pc[t] = "negative"
    BY <1>3 DEF Alloc_negative, At
  <2>2. CASE AllocFailDenominator < 0 /\ Goto(t, "increment") /\ UNCHANGED <<platform, Addend, stopped, history>>
    <3>1. Busy' = Busy /\ Early' = Early /\ Setting' = Setting
      BY <1>0, <2>1, <2>2 DEF AllocTypeOK, Goto, Busy, Early, Setting
    <3> QED
      BY <2>2, <3>1, StaysCounted DEF platform, history
  <2>3. CASE AllocFailDenominator >= 0 /\ Pass(t)
    <3>1. ~Counting
      BY <1>0, <2>3 DEF Counting, AllocTypeOK
    <3> QED
      BY <2>1, <2>3, <3>1, EndCounted DEF Pass, platform
  <2> QED
    BY <1>3, <2>2, <2>3 DEF Alloc_negative
<1>4. CASE InterlockedIncrement(t)
  <2>1. /\ pc[t] = "increment" /\ AllocCounter' = AllocCounter + 1
        /\ pc' = [pc EXCEPT ![t] = "remainder"]
        /\ UNCHANGED <<AllocFailDenominator, tries, passed, Failed, last>>
    BY <1>4 DEF InterlockedIncrement, At, Goto, history
  <2>2. Busy' = Busy /\ Setting' = Setting /\ Early' = Early \ {t} /\ t \in Early
    BY <1>0, <2>1 DEF AllocTypeOK, Busy, Setting, Early
  <2>3. Cardinality(Early') = Cardinality(Early) - 1 /\ Cardinality(Early) \in Nat
    <3>1. IsFiniteSet(Early)
      BY EarlyIsFinite DEF Counted
    <3> QED
      BY <2>2, <3>1, EntersOrLeaves, ZenonT(40)
  <2>4. Counting' => tries' = AllocCounter' + Cardinality(Early')
    <3>1. AllocCounter \in Nat
      BY <1>0 DEF AllocTypeOK
    <3>2. Counting' => Counting
      BY <2>1, <2>2 DEF Counting, clean
    <3> QED
      BY <2>1, <2>3, <3>1, <3>2 DEF Counted
  <2> QED
    BY <2>1, <2>2, <2>4 DEF Counted, clean
<1>5. CASE Alloc_remainder(t)
  <2>1. pc[t] = "remainder"
    BY <1>5 DEF Alloc_remainder, At
  <2>2. CASE AllocFailDenominator # 0
    <3>1. /\ Goto(t, "idle")
          /\ UNCHANGED <<AllocFailDenominator, AllocCounter, tries, last>>
          /\ \/ passed' = passed + 1 /\ Failed' = Failed
             \/ passed' = passed /\ Failed' = Failed \cup {Addend[t]}
      BY <1>5, <2>2 DEF Alloc_remainder, Pass, platform
    <3>2. ASSUME clean, AllocFailDenominator <= 0
          PROVE  Addend[t] \notin Failed
      <4>1. AllocFailDenominator < 0
        BY <1>0, <2>2, <3>2, SMTT(20) DEF AllocTypeOK
      <4>2. Setting = {}
        BY <2>1, <3>2 DEF AllocInv, Busy, Setting
      <4> QED
        BY <2>1, <3>2, <4>1, <4>2 DEF AllocInv, Counting
    <3>3. t \notin Early
      BY <2>1 DEF Early
    <3> QED
      BY <2>1, <2>2, <3>1, <3>2, <3>3, EndCounted
  <2> QED
    BY <1>5, <1>d, <2>2, SMTT(20), SMTT(30) DEF Alloc_remainder
<1> QED
  BY <1>1, <1>2, <1>3, <1>4, <1>5 DEF CxPlatAlloc

(* CxPlatSetAllocFailDenominator starts from zero.  *)
LEMMA SetCounted ==
  ASSUME AllocInv, Counted, NEW t \in Callers, CxPlatSetAllocFailDenominator(t)
  PROVE  Counted'
<1>0. AllocTypeOK /\ IsFiniteSet(Busy)
  BY DEF AllocInv, Counted
<1>1. CASE Set_counter(t)
  <2>1. /\ pc[t] = "set" /\ pc' = [pc EXCEPT ![t] = "idle"] /\ AllocCounter' = 0
        /\ UNCHANGED <<AllocFailDenominator, tries, passed, Failed, last>>
    BY <1>1 DEF Set_counter, At, Goto, history
  <2>2. Busy' = Busy \ {t} /\ Setting' = Setting \ {t} /\ t \in Setting
    BY <1>0, <2>1 DEF AllocTypeOK, Busy, Setting
  <2>3. IsFiniteSet(Busy')
    BY <1>0, <2>2, EntersOrLeaves, Zenon
  <2>4. ASSUME clean
        PROVE  /\ tries = 0 /\ passed = 0 /\ Failed = {} /\ Busy' = {} /\ Early' = {}
    <3>1. tries = 0 /\ passed = 0 /\ Failed = {} /\ Busy = Setting
      BY <2>2, <2>4 DEF AllocInv, Counted
    <3>2. Busy' = {}
      BY <2>2, <2>4, <3>1 DEF AllocInv
    <3>3. Early' = {}
      BY <3>2 DEF Early, Busy
    <3> QED
      BY <3>1, <3>2, <3>3
  <2>5. IsFiniteSet({}) /\ Cardinality({}) = 0
    BY FS_EmptySet
  <2> QED
    BY <2>1, <2>3, <2>4, <2>5 DEF Counted, Counting, clean
<1>2. ASSUME NEW Value \in Denominators, Set_denominator(t, Value) PROVE Counted'
  <2>1. pc' = [pc EXCEPT ![t] = "set"] /\ tries' = 0 /\ passed' = 0
    BY <1>2 DEF Set_denominator, Goto
  <2>2. Busy' = Busy \cup {t} /\ t \in Setting'
    BY <1>0, <2>1 DEF AllocTypeOK, Busy, Setting
  <2>3. IsFiniteSet(Busy')
    BY <1>0, <2>2, EntersOrLeaves, Zenon
  <2> QED
    BY <2>1, <2>2, <2>3 DEF Counted, Counting
<1> QED
  BY <1>1, <1>2 DEF CxPlatSetAllocFailDenominator

(* Of the numbers from 1 to n, m divides n \div m.  *)
LEMMA Multiples ==
  ASSUME NEW n \in Nat, NEW m \in Nat \ {0}
  PROVE  Cardinality({k \in 1..n : k % m = 0}) = n \div m
<1> DEFINE S == {k \in 1..n : k % m = 0}
           q == n \div m
           f == [j \in 1..q |-> m * j]
<1>1. q \in Nat /\ n % m \in Nat /\ n = m * q + (n % m)
  OBVIOUS
<1>2. ASSUME NEW j \in 1..q PROVE m * j \in S
  <2>1. m * j \in Nat /\ m * j >= 1 /\ m * j <= m * q
    BY <1>1
  <2>2. (m * j) % m = 0
    BY <1>1
  <2>3. m * q <= n
    <3>1. \A r \in Nat : n = m * q + r /\ m * q \in Nat => m * q <= n
      OBVIOUS
    <3> QED
      BY <1>1, <3>1
  <2> HIDE DEF q
  <2>4. m * j \in 1..n
    <3>1. m * q \in Nat
      BY <1>1
    <3> QED
      BY <2>1, <2>3, <3>1
  <2> QED
    BY <2>2, <2>4
<1>3. ASSUME NEW i \in 1..q, NEW j \in 1..q, m * i = m * j PROVE i = j
  BY <1>1, <1>3
<1>4. ASSUME NEW k \in S PROVE \E j \in 1..q : m * j = k
  <2>1. k \div m \in Nat /\ k = m * (k \div m)
    OBVIOUS
  <2>2. k \div m <= q
    OBVIOUS
  <2>3. k \div m # 0
    BY <2>1
  <2>4. k \div m \in 1..q
    <3> HIDE DEF q
    <3> QED
      BY <1>1, <2>1, <2>2, <2>3
  <2> HIDE DEF q
  <2> QED
    BY <2>1, <2>4
<1>5. f \in Bijection(1..q, S)
  <2>1. f \in [1..q -> S]
    BY <1>2
  <2>2. \A i, j \in 1..q : f[i] = f[j] => i = j
    BY <1>3, Zenon
  <2>3. \A k \in S : \E j \in 1..q : f[j] = k
    BY <1>4, Zenon
  <2> HIDE DEF f, S, q
  <2> QED
    BY <2>1, <2>2, <2>3 DEF Bijection, Injection, IsInjective, Surjection
<1>6. IsFiniteSet(1..q) /\ Cardinality(1..q) = q
  <2> HIDE DEF q
  <2>1. q \in Int /\ 1 \in Int /\ (1 > q => q = 0) /\ q - 1 + 1 = q
    BY <1>1
  <2>2. IsFiniteSet(1..q) /\ Cardinality(1..q) = IF 1 > q THEN 0 ELSE q - 1 + 1
    BY <2>1, FS_Interval
  <2> QED
    BY <2>1, <2>2
<1>7. ExistsBijection(1..q, S)
  BY <1>5 DEF ExistsBijection
<1> HIDE DEF f, S, q
<1> QED
  BY <1>6, <1>7, FS_Bijection DEF S, q

(* After a Set that overlapped nothing no call fails with a denominator of *)
(* zero, and every Nth with -N: of so many calls, by any number of         *)
(* threads, N-th parts fail.                                               *)
THEOREM FailuresAreAsAsked == AllocSpec => []FailsAsAsked
<1> USE FailureAssumption
<1>1. AllocInit => AllocInv /\ Counted
  BY FailureInit, InitCounted
<1>2. AllocInv /\ Counted /\ [AllocNext]_allocVars => AllocInv' /\ Counted'
  <2>1. AllocInv /\ UNCHANGED allocVars => AllocInv'
    BY DEF AllocInv, AllocTypeOK, Counting, Setting, Busy, clean, Nth, allocVars, platform, history
  <2>2. Counted /\ UNCHANGED allocVars => Counted'
    <3> SUFFICES ASSUME Counted, UNCHANGED allocVars PROVE Counted'
      OBVIOUS
    <3>1. Busy' = Busy /\ Early' = Early /\ Setting' = Setting
      BY DEF allocVars, Busy, Early, Setting
    <3> QED
      BY <3>1, StaysCounted DEF allocVars, platform, history
  <2> QED
    BY <2>1, <2>2, AllocStep, SetStep, AllocCounted, SetCounted, SMTT(20), SMTT(30) DEF AllocNext
<1>3. ASSUME AllocInv, Counted PROVE FailsAsAsked
  <2> SUFFICES ASSUME clean, Busy = {}
               PROVE  /\ AllocFailDenominator = 0 => passed = tries
                      /\ AllocFailDenominator < 0 => tries - passed = tries \div Nth
    BY DEF FailsAsAsked
  <2>1. Setting = {} /\ Early = {}
    BY DEF Busy, Setting, Early
  <2>2. IsFiniteSet({}) /\ Cardinality({}) = 0
    BY FS_EmptySet
  <2>3. tries \in Nat /\ passed \in Nat /\ AllocCounter \in Nat /\ AllocFailDenominator \in Int
    BY <1>3 DEF AllocInv, AllocTypeOK
  <2>4. CASE AllocFailDenominator = 0
    BY <1>3, <2>1, <2>2, <2>3, <2>4 DEF Counted
  <2>5. CASE AllocFailDenominator < 0
    <3>1. Counting
      BY <2>1, <2>5, SMTT(20), SMTT(30) DEF Counting
    <3>2. Failed = {k \in 1..AllocCounter : k % Nth = 0}
      BY <1>3, <3>1 DEF AllocInv, Busy
    <3>3. Nth \in Nat \ {0}
      BY <2>3, <2>5 DEF Nth
    <3>4. Cardinality(Failed) = AllocCounter \div Nth
      BY <2>3, <3>2, <3>3, Multiples
    <3>5. tries = AllocCounter /\ tries = passed + Cardinality(Failed)
      <4>1. AllocCounter \div Nth \in Nat
        BY <2>3, <3>3
      <4> QED
        BY <1>3, <2>1, <2>2, <2>3, <2>5, <3>1, <3>4, <4>1 DEF Counted
    <3>6. AllocCounter \div Nth \in Nat
      BY <2>3, <3>3
    <3> QED
      BY <2>3, <2>5, <3>4, <3>5, <3>6
  <2> QED
    BY <2>4, <2>5
<1> QED
  BY <1>1, <1>2, <1>3, PTL DEF AllocSpec
=============================================================================
