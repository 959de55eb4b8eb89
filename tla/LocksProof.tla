----------------------------- MODULE LocksProof -----------------------------
(***************************************************************************)
(* Locks for any number of threads and locks and any nesting: the level is *)
(* restored unless readers of different levels share a dispatch lock, and  *)
(* who holds a push lock is inside a critical region; locks exclude, and   *)
(* threads that acquire them in order do not deadlock.                     *)
(*                                                                         *)
(* What the invariant says of one thread is said of the platform p, the    *)
(* thread's brackets s, where it is in a macro, the bracket b and the      *)
(* level o it has there and the level q it runs at.                        *)
(***************************************************************************)
EXTENDS Locks, FiniteSetTheorems, TLAPS

Brackets == [lock : Locks \cup {-1}, mode : {"shared", "exclusive", "raise"}, level : Levels]

Typed ==
    /\ platform \in {"posix", "winuser", "winkernel"}
    /\ irql \in [Threads -> Levels]
    /\ region \in [Threads -> Int]
    /\ held \in [Threads -> Seq(Brackets)]
    /\ PrevIrql \in [DispatchLocks -> Levels]
    /\ pc \in [Threads -> {"run", "acquire", "store", "release", "leave", "ended"}]
    /\ bracket \in [Threads -> Brackets]
    /\ old \in [Threads -> Levels]
    /\ mixed \in BOOLEAN

Spin(p, l) == p = "winkernel" /\ l \in DispatchLocks
PushLock(p, l) == p = "winkernel" /\ l \in PushLocks

(* Only CXPLAT_RAISE_IRQL is a bracket without a lock. *)
Formed(s) == \A i \in DOMAIN s : s[i].mode = "raise" <=> s[i].lock = -1

(* Where a thread is in a macro. *)
InMacro(p, s, where, b) ==
    /\ Formed(s)
    /\ where = "acquire" => b.lock \in Locks /\ b.mode # "raise"
    /\ where \in {"store", "release"} => s # <<>> /\ b = s[Len(s)] /\ b.lock \in Locks
    /\ where = "store" => Spin(p, b.lock)
    /\ where = "leave" => p = "winkernel"
    /\ where = "ended" => p = "posix"

(* The level inside the first k brackets. *)
Inside(p, s, k) ==
    IF p = "winkernel" /\ \E i \in 1 .. k : s[i].lock \notin PushLocks
    THEN "DISPATCH" ELSE "PASSIVE"

(* The level that a bracket remembers is the one outside of it. *)
Nested(p, s) == \A i \in DOMAIN s : s[i].level = Inside(p, s, i - 1)

(* The level while a thread is in a macro is the one it came with, raised  *)
(* as soon as a spin lock is asked for.                                    *)
LevelsOK(p, s, where, b, o, q) ==
    /\ Nested(p, s)
    /\ where = "acquire" => b.level = Inside(p, s, Len(s))
    /\ where \in {"acquire", "store", "release"} /\ Spin(p, b.lock) => o = b.level
    /\ q = IF where = "acquire" /\ Spin(p, b.lock) THEN "DISPATCH" ELSE Inside(p, s, Len(s))

(* The critical regions a thread is in: one for each push lock it holds,   *)
(* and one while it acquires or has just given up another.                 *)
PushesIn(p, s) == {i \in DOMAIN s : PushLock(p, s[i].lock)}
Between(p, where, b) ==
    IF where = "leave" \/ (where = "acquire" /\ PushLock(p, b.lock)) THEN 1 ELSE 0

(* The field of a lock is the level of each of its holders, but for one    *)
(* that has yet to write it.                                               *)
FieldOK(t) ==
    \A i \in DOMAIN held[t] :
       Spin(platform, held[t][i].lock) =>
          \/ pc[t] = "store" /\ i = Len(held[t])
          \/ PrevIrql[held[t][i].lock] = held[t][i].level

(* All holders of a spin lock came from one level. *)
SameLevel ==
    \A t, u \in Threads : \A i \in DOMAIN held[t], j \in DOMAIN held[u] :
       Spin(platform, held[t][i].lock) /\ held[t][i].lock = held[u][j].lock
       => held[t][i].level = held[u][j].level

MacroInv(t) == InMacro(platform, held[t], pc[t], bracket[t])
RegionInv(t) ==
    region[t] = Cardinality(PushesIn(platform, held[t])) + Between(platform, pc[t], bracket[t])
LevelInv(t) == LevelsOK(platform, held[t], pc[t], bracket[t], old[t], irql[t])

LInv ==
    /\ Typed
    /\ \A t \in Threads : MacroInv(t) /\ RegionInv(t)
    /\ ~mixed => SameLevel /\ \A t \in Threads : LevelInv(t) /\ FieldOK(t)

-----------------------------------------------------------------------------
(* What each platform's locks are. *)
LEMMA Kinds ==
    ASSUME NEW l \in Locks, platform \in {"posix", "winuser", "winkernel"}
    PROVE  /\ Kind(l) = "spin" <=> Spin(platform, l)
           /\ Kind(l) = "push" <=> PushLock(platform, l)
           /\ Kind(l) = "rwlock" => platform = "posix"
           /\ l # -1
<1>0. l # -1 /\ (l \in DispatchLocks <=> l \notin PushLocks)
  BY LockAssumption DEF Locks
<1>1. CASE platform = "posix"
  <2>1. Kind(l) = PosixKind(l)
    BY <1>1 DEF Kind
  <2>2. QED
    BY <1>0, <1>1, <2>1 DEF PosixKind, Spin, PushLock
<1>2. CASE platform = "winuser"
  <2>1. Kind(l) = WinUserKind(l)
    BY <1>2 DEF Kind
  <2>2. QED
    BY <1>0, <1>2, <2>1 DEF WinUserKind, Spin, PushLock
<1>3. CASE platform = "winkernel"
  <2>1. Kind(l) = WinKernelKind(l)
    BY <1>3 DEF Kind
  <2>2. QED
    BY <1>0, <1>3, <2>1 DEF WinKernelKind, Spin, PushLock
<1>4. QED
  BY <1>1, <1>2, <1>3

(* A bracket more. *)
LEMMA Pushed ==
    ASSUME NEW s \in Seq(Brackets), NEW b \in Brackets, NEW r, r = Append(s, b)
    PROVE  /\ r \in Seq(Brackets) /\ r # <<>>
           /\ Len(s) \in Nat /\ Len(r) = Len(s) + 1 /\ r[Len(r)] = b
           /\ DOMAIN s = 1 .. Len(s) /\ DOMAIN r = 1 .. Len(s) + 1
           /\ \A i \in 1 .. Len(s) : r[i] = s[i]
OBVIOUS

(* The last one less. *)
LEMMA Popped ==
    ASSUME NEW s \in Seq(Brackets), s # <<>>, NEW r, r = SubSeq(s, 1, Len(s) - 1)
    PROVE  /\ r \in Seq(Brackets)
           /\ Len(s) \in Nat \ {0} /\ Len(r) = Len(s) - 1
           /\ DOMAIN s = 1 .. Len(s) /\ DOMAIN r = 1 .. Len(s) - 1
           /\ \A i \in 1 .. Len(s) - 1 : r[i] = s[i]
<1>1. Len(s) \in Nat \ {0} /\ DOMAIN s = 1 .. Len(s) /\ \A i \in 1 .. Len(s) - 1 : s[i] \in Brackets
  OBVIOUS
<1>2. /\ r \in Seq(Brackets)
      /\ Len(r) = IF 1 <= Len(s) - 1 THEN Len(s) - 1 - 1 + 1 ELSE 0
      /\ \A i \in 1 .. Len(s) - 1 - 1 + 1 : r[i] = s[1 + i - 1]
  BY <1>1
<1>3. Len(r) = Len(s) - 1 /\ DOMAIN r = 1 .. Len(r)
  BY <1>1, <1>2
<1>4. QED
  BY <1>1, <1>2, <1>3

(* The levels when a bracket is opened. *)
LEMMA PushedLevels ==
    ASSUME NEW p, NEW s \in Seq(Brackets), NEW b \in Brackets, NEW r, r = Append(s, b)
    PROVE  /\ Nested(p, s) /\ b.level = Inside(p, s, Len(s)) => Nested(p, r)
           /\ Inside(p, r, Len(r)) = IF p = "winkernel" /\ b.lock \notin PushLocks
                                     THEN "DISPATCH" ELSE Inside(p, s, Len(s))
<1>1. /\ Len(s) \in Nat /\ Len(r) = Len(s) + 1 /\ r[Len(r)] = b
      /\ DOMAIN s = 1 .. Len(s) /\ DOMAIN r = 1 .. Len(s) + 1
      /\ \A i \in 1 .. Len(s) : r[i] = s[i]
  BY Pushed
<1>2. ASSUME NEW k \in 0 .. Len(s)
      PROVE  Inside(p, r, k) = Inside(p, s, k)
  <2>1. \A i \in 1 .. k : r[i] = s[i]
    BY <1>1
  <2>2. QED
    BY <2>1 DEF Inside
<1>3. ASSUME Nested(p, s), b.level = Inside(p, s, Len(s)), NEW i \in DOMAIN r
      PROVE  r[i].level = Inside(p, r, i - 1)
  <2>1. CASE i = Len(s) + 1
    <3>1. i - 1 = Len(s) /\ r[i] = b
      BY <1>1, <2>1
    <3>2. QED
      BY <1>1, <1>2, <1>3, <3>1
  <2>2. CASE i \in 1 .. Len(s)
    <3>1. i - 1 \in 0 .. Len(s) /\ r[i] = s[i]
      BY <1>1, <2>2
    <3>2. s[i].level = Inside(p, s, i - 1)
      BY <1>1, <1>3, <2>2 DEF Nested
    <3>3. QED
      BY <1>2, <3>1, <3>2
  <2>3. QED
    BY <1>1, <1>3, <2>1, <2>2
<1>4. Inside(p, r, Len(r)) = IF p = "winkernel" /\ b.lock \notin PushLocks
                             THEN "DISPATCH" ELSE Inside(p, s, Len(s))
  <2>1. (\E i \in 1 .. Len(r) : r[i].lock \notin PushLocks) <=>
           b.lock \notin PushLocks \/ \E i \in 1 .. Len(s) : s[i].lock \notin PushLocks
    BY <1>1
  <2>2. QED
    BY <2>1 DEF Inside
<1>5. QED
  BY <1>3, <1>4 DEF Nested

(* The levels when the last bracket is closed. *)
LEMMA PoppedLevels ==
    ASSUME NEW p, NEW s \in Seq(Brackets), s # <<>>, NEW r, r = SubSeq(s, 1, Len(s) - 1),
           Nested(p, s)
    PROVE  /\ Nested(p, r)
           /\ s[Len(s)].level = Inside(p, r, Len(r))
           /\ s[Len(s)].lock \in PushLocks => Inside(p, s, Len(s)) = Inside(p, r, Len(r))
<1>1. /\ Len(s) \in Nat \ {0} /\ Len(r) = Len(s) - 1
      /\ DOMAIN s = 1 .. Len(s) /\ DOMAIN r = 1 .. Len(s) - 1
      /\ \A i \in 1 .. Len(s) - 1 : r[i] = s[i]
  BY Popped, Zenon
<1>2. ASSUME NEW k \in 0 .. Len(s) - 1
      PROVE  Inside(p, r, k) = Inside(p, s, k)
  <2>1. \A i \in 1 .. k : r[i] = s[i]
    BY <1>1
  <2>2. QED
    BY <2>1 DEF Inside
<1>3. ASSUME NEW i \in DOMAIN r
      PROVE  r[i].level = Inside(p, r, i - 1)
  <2>1. i - 1 \in 0 .. Len(s) - 1 /\ r[i] = s[i] /\ i \in DOMAIN s
    BY <1>1, <1>3
  <2>2. s[i].level = Inside(p, s, i - 1)
    BY <2>1 DEF Nested
  <2>3. QED
    BY <1>2, <2>1, <2>2
<1>4. s[Len(s)].level = Inside(p, r, Len(r))
  <2>1. s[Len(s)].level = Inside(p, s, Len(s) - 1)
    BY <1>1 DEF Nested
  <2>2. QED
    BY <1>1, <1>2, <2>1
<1>5. s[Len(s)].lock \in PushLocks => Inside(p, s, Len(s)) = Inside(p, r, Len(r))
  <2>1. s[Len(s)].lock \in PushLocks =>
           ((\E i \in 1 .. Len(r) : r[i].lock \notin PushLocks) <=>
               \E i \in 1 .. Len(s) : s[i].lock \notin PushLocks)
    BY <1>1
  <2>2. QED
    BY <2>1 DEF Inside
<1>6. QED
  BY <1>3, <1>4, <1>5 DEF Nested

(* The critical regions when a bracket is opened, and when it is closed. *)
LEMMA PushedRegions ==
    ASSUME NEW p, NEW s \in Seq(Brackets), NEW b \in Brackets, NEW r, r = Append(s, b)
    PROVE  /\ Cardinality(PushesIn(p, s)) \in Nat
           /\ Cardinality(PushesIn(p, r)) =
                 Cardinality(PushesIn(p, s)) + IF PushLock(p, b.lock) THEN 1 ELSE 0
<1>1. /\ Len(s) \in Nat /\ Len(r) = Len(s) + 1 /\ r[Len(r)] = b
      /\ DOMAIN s = 1 .. Len(s) /\ DOMAIN r = 1 .. Len(s) + 1
      /\ \A i \in 1 .. Len(s) : r[i] = s[i]
  BY Pushed
<1>2. IsFiniteSet(PushesIn(p, s)) /\ Cardinality(PushesIn(p, s)) \in Nat
  <2>1. IsFiniteSet(1 .. Len(s)) /\ PushesIn(p, s) \subseteq 1 .. Len(s)
    BY <1>1, FS_Interval DEF PushesIn
  <2>2. QED
    BY <2>1, FS_Subset, FS_CardinalityType
<1>3. CASE PushLock(p, b.lock)
  <2>1. PushesIn(p, r) = PushesIn(p, s) \cup {Len(s) + 1} /\ Len(s) + 1 \notin PushesIn(p, s)
    BY <1>1, <1>3 DEF PushesIn
  <2>2. QED
    BY <1>2, <1>3, <2>1, FS_AddElement, Zenon
<1>4. CASE ~PushLock(p, b.lock)
  <2>1. PushesIn(p, r) = PushesIn(p, s)
    BY <1>1, <1>4 DEF PushesIn
  <2>2. QED
    BY <1>2, <1>4, <2>1
<1>5. QED
  BY <1>2, <1>3, <1>4

LEMMA PoppedRegions ==
    ASSUME NEW p, NEW s \in Seq(Brackets), s # <<>>, NEW r, r = SubSeq(s, 1, Len(s) - 1)
    PROVE  /\ Cardinality(PushesIn(p, r)) \in Nat
           /\ Cardinality(PushesIn(p, s)) =
                 Cardinality(PushesIn(p, r)) + IF PushLock(p, s[Len(s)].lock) THEN 1 ELSE 0
<1>1. /\ r \in Seq(Brackets) /\ Len(s) \in Nat \ {0} /\ Len(r) = Len(s) - 1
      /\ DOMAIN s = 1 .. Len(s) /\ DOMAIN r = 1 .. Len(s) - 1
      /\ \A i \in 1 .. Len(s) - 1 : r[i] = s[i]
  BY Popped, Zenon
<1>2. IsFiniteSet(PushesIn(p, r)) /\ Cardinality(PushesIn(p, r)) \in Nat
  <2>1. IsFiniteSet(1 .. Len(s) - 1) /\ PushesIn(p, r) \subseteq 1 .. Len(s) - 1
    BY <1>1, FS_Interval DEF PushesIn
  <2>2. QED
    BY <2>1, FS_Subset, FS_CardinalityType
<1>3. CASE PushLock(p, s[Len(s)].lock)
  <2>1. PushesIn(p, s) = PushesIn(p, r) \cup {Len(s)} /\ Len(s) \notin PushesIn(p, r)
    BY <1>1, <1>3 DEF PushesIn
  <2>2. QED
    BY <1>2, <1>3, <2>1, FS_AddElement, Zenon
<1>4. CASE ~PushLock(p, s[Len(s)].lock)
  <2>1. PushesIn(p, s) = PushesIn(p, r)
    BY <1>1, <1>4 DEF PushesIn
  <2>2. QED
    BY <1>2, <1>4, <2>1
<1>5. QED
  BY <1>2, <1>3, <1>4

(* Holders from one level stay so when none is added but b, and b came     *)
(* from the level of the others.                                           *)
LEMMA SameLevelStays ==
    ASSUME SameLevel, UNCHANGED platform, NEW b,
           \A u \in Threads : \A j \in DOMAIN held'[u] :
              \/ \E i \in DOMAIN held[u] : held'[u][j] = held[u][i]
              \/ held'[u][j] = b,
           Spin(platform, b.lock) =>
              \A u \in Threads : \A i \in DOMAIN held[u] :
                 held[u][i].lock = b.lock => held[u][i].level = b.level
    PROVE  SameLevel'
<1> SUFFICES ASSUME NEW t \in Threads, NEW u \in Threads,
                    NEW i \in DOMAIN held'[t], NEW j \in DOMAIN held'[u],
                    Spin(platform', held'[t][i].lock), held'[t][i].lock = held'[u][j].lock
             PROVE  held'[t][i].level = held'[u][j].level
  BY DEF SameLevel
<1>1. \/ \E k \in DOMAIN held[t] : held'[t][i] = held[t][k]
      \/ held'[t][i] = b
  OBVIOUS
<1>2. \/ \E k \in DOMAIN held[u] : held'[u][j] = held[u][k]
      \/ held'[u][j] = b
  OBVIOUS
<1>3. QED
  BY <1>1, <1>2 DEF SameLevel

(* ... and when a bracket is closed. *)
LEMMA PoppedSameLevel ==
    ASSUME SameLevel, UNCHANGED platform, NEW t \in Threads,
           \A u \in Threads \ {t} : held'[u] = held[u],
           Len(held[t]) \in Nat,
           DOMAIN held[t] = 1 .. Len(held[t]), DOMAIN held'[t] = 1 .. Len(held[t]) - 1,
           \A i \in 1 .. Len(held[t]) - 1 : held'[t][i] = held[t][i]
    PROVE  SameLevel'
<1>1. \A u \in Threads : \A j \in DOMAIN held'[u] :
         j \in DOMAIN held[u] /\ held'[u][j] = held[u][j]
  OBVIOUS
<1>2. QED
  BY <1>1 DEF SameLevel

(* A thread that a step leaves alone. *)
LEMMA OthersStay ==
    ASSUME NEW u \in Threads, UNCHANGED platform,
           held'[u] = held[u], pc'[u] = pc[u], bracket'[u] = bracket[u],
           old'[u] = old[u], irql'[u] = irql[u], region'[u] = region[u]
    PROVE  /\ MacroInv(u) => MacroInv(u)'
           /\ RegionInv(u) => RegionInv(u)'
           /\ LevelInv(u) => LevelInv(u)'
           /\ FieldOK(u) /\ UNCHANGED PrevIrql => FieldOK(u)'
<1>1. MacroInv(u) => MacroInv(u)'
  BY DEF MacroInv
<1>2. RegionInv(u) => RegionInv(u)'
  BY DEF RegionInv
<1>3. LevelInv(u) => LevelInv(u)'
  BY DEF LevelInv
<1>4. FieldOK(u) /\ UNCHANGED PrevIrql => FieldOK(u)'
  BY DEF FieldOK
<1>5. QED
  BY <1>1, <1>2, <1>3, <1>4

LEMMA Initially == Init => LInv
<1> SUFFICES ASSUME Init
             PROVE  LInv
  OBVIOUS
<1>1. Typed
  <2>1. Raised \in Brackets /\ <<>> \in Seq(Brackets) /\ "PASSIVE" \in Levels
    BY DEF Raised, Brackets, Levels
  <2>2. mixed \in BOOLEAN
    BY Zenon DEF Init
  <2>3. platform \in {"posix", "winuser", "winkernel"}
    BY LockAssumption DEF Init
  <2>4. QED
    BY <2>1, <2>2, <2>3 DEF Init, Typed
<1>2. \A t \in Threads : /\ held[t] = <<>> /\ pc[t] = "run" /\ irql[t] = "PASSIVE"
                         /\ region[t] = 0 /\ Len(held[t]) = 0
  BY DEF Init
<1>3. ASSUME NEW t \in Threads
      PROVE  MacroInv(t) /\ LevelInv(t) /\ FieldOK(t)
  BY <1>2 DEF MacroInv, InMacro, Formed, LevelInv, LevelsOK, Nested, Inside, FieldOK
<1>4. ASSUME NEW t \in Threads
      PROVE  RegionInv(t)
  <2>1. PushesIn(platform, held[t]) = {} /\ Between(platform, pc[t], bracket[t]) = 0
    BY <1>2 DEF PushesIn, Between
  <2>2. QED
    BY <1>2, <2>1, FS_EmptySet DEF RegionInv
<1>5. SameLevel
  BY <1>2 DEF SameLevel
<1>6. QED
  BY <1>1, <1>3, <1>4, <1>5 DEF LInv

(* A step of one thread, once it is known what it does to that thread. *)
LEMMA OneThread ==
    ASSUME LInv, NEW t \in Threads, Typed', UNCHANGED platform,
           \A u \in Threads \ {t} :
              /\ held'[u] = held[u] /\ pc'[u] = pc[u] /\ bracket'[u] = bracket[u]
              /\ old'[u] = old[u] /\ irql'[u] = irql[u] /\ region'[u] = region[u],
           MacroInv(t)', RegionInv(t)',
           ~mixed' => /\ ~mixed /\ SameLevel' /\ LevelInv(t)' /\ FieldOK(t)'
                      /\ UNCHANGED PrevIrql \/ \A u \in Threads \ {t} : FieldOK(u)'
    PROVE  LInv'
<1>1. ASSUME NEW u \in Threads \ {t}
      PROVE  /\ MacroInv(u)' /\ RegionInv(u)'
             /\ ~mixed => LevelInv(u)' /\ (UNCHANGED PrevIrql => FieldOK(u)')
  BY <1>1, OthersStay DEF LInv
<1>2. QED
  BY <1>1 DEF LInv

-----------------------------------------------------------------------------
(* One lemma for each action: the invariant survives it. *)
LEMMA RaiseStep ==
    ASSUME LInv, NEW t \in Threads, CXPLAT_RAISE_IRQL(t)
    PROVE  LInv'
<1> DEFINE b == [Raised EXCEPT !.level = irql[t]]
<1>1. /\ Typed /\ MacroInv(t) /\ RegionInv(t) /\ platform = "winkernel" /\ pc[t] = "run"
      /\ UNCHANGED <<platform, region, PrevIrql, pc, bracket, old, mixed>>
      /\ irql' = [irql EXCEPT ![t] = "DISPATCH"]
      /\ held' = [held EXCEPT ![t] = Append(@, b)]
  BY DEF LInv, CXPLAT_RAISE_IRQL, Push
<1>2. b \in Brackets /\ b.lock = -1 /\ b.mode = "raise" /\ b.level = irql[t]
  BY <1>1 DEF Raised, Brackets, Typed, Levels
<1>3. /\ held[t] \in Seq(Brackets) /\ held'[t] = Append(held[t], b)
      /\ irql'[t] = "DISPATCH"
      /\ \A u \in Threads \ {t} : held'[u] = held[u] /\ irql'[u] = irql[u]
  BY <1>1 DEF Typed
<1>4. -1 \notin DispatchLocks /\ -1 \notin PushLocks
  BY LockAssumption DEF Locks
<1> HIDE DEF b
<1>5. /\ held'[t] \in Seq(Brackets)
      /\ Len(held[t]) \in Nat /\ Len(held'[t]) = Len(held[t]) + 1 /\ held'[t][Len(held'[t])] = b
      /\ DOMAIN held[t] = 1 .. Len(held[t]) /\ DOMAIN held'[t] = 1 .. Len(held[t]) + 1
      /\ \A i \in 1 .. Len(held[t]) : held'[t][i] = held[t][i]
  BY <1>2, <1>3, Pushed
<1>6. Typed'
  BY <1>1, <1>3, <1>5 DEF Typed, Levels
<1>7. MacroInv(t)'
  BY <1>1, <1>2, <1>5 DEF MacroInv, InMacro, Formed
<1>8. RegionInv(t)'
  <2>1. ~PushLock(platform, b.lock)
    BY <1>2, <1>4 DEF PushLock
  <2>2. /\ Cardinality(PushesIn(platform, held[t])) \in Nat
        /\ Cardinality(PushesIn(platform, held'[t])) =
              Cardinality(PushesIn(platform, held[t])) + IF PushLock(platform, b.lock) THEN 1 ELSE 0
    BY <1>2, <1>3, PushedRegions, Zenon
  <2>3. QED
    BY <1>1, <2>1, <2>2 DEF RegionInv
<1>9. ASSUME ~mixed'
      PROVE  SameLevel' /\ LevelInv(t)' /\ FieldOK(t)'
  <2>1. SameLevel /\ LevelInv(t) /\ FieldOK(t)
    BY <1>1, <1>9 DEF LInv
  <2>2. SameLevel'
    <3>1. \A u \in Threads : \A j \in DOMAIN held'[u] :
             \/ \E i \in DOMAIN held[u] : held'[u][j] = held[u][i]
             \/ held'[u][j] = b
      <4>1. \A j \in DOMAIN held'[t] :
               (j \in DOMAIN held[t] /\ held'[t][j] = held[t][j]) \/ held'[t][j] = b
        BY <1>5
      <4>2. QED
        BY <1>3, <4>1, ZenonT(40)
    <3>2. ~Spin(platform, b.lock)
      BY <1>2, <1>4 DEF Spin
    <3>3. QED
      BY <1>1, <2>1, <3>1, <3>2, SameLevelStays, Zenon
  <2>3. LevelInv(t)'
    <3>1. Nested(platform, held[t]) /\ irql[t] = Inside(platform, held[t], Len(held[t]))
      BY <1>1, <2>1 DEF LevelInv, LevelsOK
    <3>2. /\ Nested(platform, held[t]) /\ b.level = Inside(platform, held[t], Len(held[t]))
                => Nested(platform, held'[t])
          /\ Inside(platform, held'[t], Len(held'[t])) =
                IF platform = "winkernel" /\ b.lock \notin PushLocks
                THEN "DISPATCH" ELSE Inside(platform, held[t], Len(held[t]))
      BY <1>2, <1>3, PushedLevels, Zenon
    <3>3. QED
      BY <1>1, <1>2, <1>3, <1>4, <3>1, <3>2 DEF LevelInv, LevelsOK
  <2>4. FieldOK(t)'
    BY <1>1, <1>2, <1>4, <1>5, <2>1 DEF FieldOK, Spin
  <2>5. QED
    BY <2>2, <2>3, <2>4
<1>10. QED
  BY <1>1, <1>3, <1>6, <1>7, <1>8, <1>9, OneThread

LEMMA LowerStep ==
    ASSUME LInv, NEW t \in Threads, CXPLAT_LOWER_IRQL(t)
    PROVE  LInv'
<1>1. /\ Typed /\ MacroInv(t) /\ RegionInv(t) /\ pc[t] = "run"
      /\ held[t] # <<>> /\ Top(t).mode = "raise"
      /\ UNCHANGED <<platform, region, PrevIrql, pc, bracket, old, mixed>>
      /\ irql' = [irql EXCEPT ![t] = Top(t).level]
      /\ held' = [held EXCEPT ![t] = SubSeq(@, 1, Len(@) - 1)]
  BY DEF LInv, CXPLAT_LOWER_IRQL, Pop
<1>2. /\ held[t] \in Seq(Brackets) /\ held'[t] = SubSeq(held[t], 1, Len(held[t]) - 1)
      /\ irql'[t] = held[t][Len(held[t])].level
      /\ \A u \in Threads \ {t} : held'[u] = held[u] /\ irql'[u] = irql[u]
  BY <1>1 DEF Typed, Top
<1>3. /\ held'[t] \in Seq(Brackets)
      /\ Len(held[t]) \in Nat \ {0} /\ Len(held'[t]) = Len(held[t]) - 1
      /\ DOMAIN held[t] = 1 .. Len(held[t]) /\ DOMAIN held'[t] = 1 .. Len(held[t]) - 1
      /\ \A i \in 1 .. Len(held[t]) - 1 : held'[t][i] = held[t][i]
  BY <1>1, <1>2, Popped
<1>4. /\ held[t][Len(held[t])].level \in Levels
      /\ ~PushLock(platform, held[t][Len(held[t])].lock)
  <2>1. held[t][Len(held[t])] \in Brackets
    BY <1>2, <1>3
  <2>2. held[t][Len(held[t])].lock = -1
    BY <1>1, <1>3 DEF MacroInv, InMacro, Formed, Top
  <2>3. QED
    BY <2>1, <2>2, LockAssumption DEF Brackets, PushLock, Locks
<1>5. Typed'
  BY <1>1, <1>2, <1>3, <1>4, SMTT(20), SMTT(30) DEF Typed, Top
<1>6. MacroInv(t)'
  BY <1>1, <1>3 DEF MacroInv, InMacro, Formed
<1>7. RegionInv(t)'
  <2>1. /\ Cardinality(PushesIn(platform, held'[t])) \in Nat
        /\ Cardinality(PushesIn(platform, held[t])) =
              Cardinality(PushesIn(platform, held'[t]))
                 + IF PushLock(platform, held[t][Len(held[t])].lock) THEN 1 ELSE 0
    BY <1>1, <1>2, PoppedRegions, Zenon
  <2>2. QED
    BY <1>1, <1>4, <2>1 DEF RegionInv
<1>8. ASSUME ~mixed'
      PROVE  SameLevel' /\ LevelInv(t)' /\ FieldOK(t)'
  <2>1. SameLevel /\ LevelInv(t) /\ FieldOK(t)
    BY <1>1, <1>8 DEF LInv
  <2>2. SameLevel'
    BY <1>1, <1>2, <1>3, <2>1, PoppedSameLevel, SMTT(20), SMTT(30)
  <2>3. LevelInv(t)'
    <3>1. Nested(platform, held[t])
      BY <2>1 DEF LevelInv, LevelsOK
    <3>2. /\ Nested(platform, held'[t])
          /\ held[t][Len(held[t])].level = Inside(platform, held'[t], Len(held'[t]))
      BY <1>1, <1>2, <3>1, PoppedLevels, ZenonT(40)
    <3>3. QED
      BY <1>1, <1>2, <3>2 DEF LevelInv, LevelsOK
  <2>4. FieldOK(t)'
    BY <1>1, <1>3, <2>1 DEF FieldOK, Spin
  <2>5. QED
    BY <2>2, <2>3, <2>4
<1>9. QED
  BY <1>1, <1>2, <1>5, <1>6, <1>7, <1>8, OneThread

LEMMA CallStep ==
    ASSUME LInv, NEW t \in Threads, NEW l \in Locks, NEW mode \in Modes(l), Acquire_call(t, l, mode)
    PROVE  LInv'
<1> DEFINE b == [lock |-> l, mode |-> mode, level |-> irql[t]]
<1>1. /\ Typed /\ MacroInv(t) /\ RegionInv(t) /\ pc[t] = "run"
      /\ UNCHANGED <<platform, held, PrevIrql, mixed>>
      /\ bracket' = [bracket EXCEPT ![t] = b]
      /\ pc' = [pc EXCEPT ![t] = "acquire"]
      /\ region' = IF Kind(l) = "push" THEN [region EXCEPT ![t] = @ + 1] ELSE region
      /\ old' = [old EXCEPT ![t] = irql[t]]
      /\ irql' = IF Kind(l) = "spin" THEN [irql EXCEPT ![t] = "DISPATCH"] ELSE irql
  BY DEF LInv, Acquire_call
<1>2. (Kind(l) = "spin" <=> Spin(platform, l)) /\ (Kind(l) = "push" <=> PushLock(platform, l))
  BY <1>1, Kinds DEF Typed
<1>3. b \in Brackets /\ b.lock = l /\ b.mode # "raise" /\ b.level = irql[t]
  BY <1>1 DEF Brackets, Typed, Modes
<1> HIDE DEF b
<1>4. /\ bracket'[t] = b /\ pc'[t] = "acquire" /\ old'[t] = irql[t]
      /\ region'[t] = IF PushLock(platform, l) THEN region[t] + 1 ELSE region[t]
      /\ irql'[t] = IF Spin(platform, l) THEN "DISPATCH" ELSE irql[t]
      /\ \A u \in Threads \ {t} :
            /\ pc'[u] = pc[u] /\ bracket'[u] = bracket[u]
            /\ old'[u] = old[u] /\ irql'[u] = irql[u] /\ region'[u] = region[u]
  BY <1>1, <1>2 DEF Typed
<1>5. Typed'
  BY <1>1, <1>3 DEF Typed, Levels
<1>6. MacroInv(t)'
  BY <1>1, <1>3, <1>4 DEF MacroInv, InMacro
<1>7. RegionInv(t)'
  <2>1. Between(platform, pc[t], bracket[t]) = 0
    BY <1>1 DEF Between
  <2>2. Between(platform, pc'[t], bracket'[t]) = IF PushLock(platform, l) THEN 1 ELSE 0
    BY <1>3, <1>4 DEF Between
  <2>3. Cardinality(PushesIn(platform, held[t])) \in Nat
    BY <1>1, <1>3, PushedRegions, ZenonT(40) DEF Typed
  <2>4. QED
    BY <1>1, <1>4, <2>1, <2>2, <2>3 DEF RegionInv
<1>8. ASSUME ~mixed'
      PROVE  SameLevel' /\ LevelInv(t)' /\ FieldOK(t)'
  <2>1. SameLevel /\ LevelInv(t) /\ FieldOK(t)
    BY <1>1, <1>8 DEF LInv
  <2>2. SameLevel'
    BY <1>1, <2>1 DEF SameLevel
  <2>3. LevelInv(t)'
    BY <1>1, <1>3, <1>4, <2>1, SMTT(20), SMTT(30) DEF LevelInv, LevelsOK
  <2>4. FieldOK(t)'
    BY <1>1, <2>1, SMTT(20), SMTT(30) DEF FieldOK
  <2>5. QED
    BY <2>2, <2>3, <2>4
<1>9. QED
  BY <1>1, <1>4, <1>5, <1>6, <1>7, <1>8, OneThread

LEMMA GrantStep ==
    ASSUME LInv, NEW t \in Threads, Acquire_grant(t)
    PROVE  LInv'
<1> DEFINE b == bracket[t]
           l == bracket[t].lock
           spin == Spin(platform, l)
<1>1. /\ Typed /\ MacroInv(t) /\ RegionInv(t) /\ pc[t] = "acquire"
      /\ UNCHANGED <<platform, irql, region, PrevIrql>>
      /\ held' = [held EXCEPT ![t] = Append(@, b)]
  BY DEF LInv, Acquire_grant, Push
<1>2. b \in Brackets /\ l \in Locks /\ b.lock = l /\ b.mode # "raise"
  BY <1>1 DEF Typed, MacroInv, InMacro
<1>3. Kind(l) = "spin" <=> spin
  BY <1>1, <1>2, Kinds DEF Typed
<1>4. l # -1 /\ (l \in DispatchLocks <=> l \notin PushLocks)
  BY <1>2, LockAssumption DEF Locks
<1>5. /\ spin => pc' = [pc EXCEPT ![t] = "store"] /\ UNCHANGED <<bracket, old>>
      /\ ~spin => /\ pc' = [pc EXCEPT ![t] = "run"]
                  /\ bracket' = [bracket EXCEPT ![t] = Raised]
                  /\ old' = [old EXCEPT ![t] = "PASSIVE"]
  BY <1>3 DEF Acquire_grant, Goto, Return
<1>6. mixed' = (mixed \/ /\ spin
                         /\ \E u \in HoldersOf(l) : \E i \in DOMAIN held[u] :
                               held[u][i].lock = l /\ held[u][i].level # bracket[t].level)
  BY <1>3 DEF Acquire_grant
<1> HIDE DEF b, l, spin
<1>7. /\ held[t] \in Seq(Brackets) /\ held'[t] = Append(held[t], b)
      /\ spin => pc'[t] = "store" /\ bracket'[t] = bracket[t] /\ old'[t] = old[t]
      /\ ~spin => pc'[t] = "run"
      /\ \A u \in Threads \ {t} : /\ held'[u] = held[u] /\ pc'[u] = pc[u]
                                  /\ bracket'[u] = bracket[u] /\ old'[u] = old[u]
  BY <1>1, <1>5 DEF Typed
<1>8. /\ held'[t] \in Seq(Brackets) /\ held'[t] # <<>>
      /\ Len(held[t]) \in Nat /\ Len(held'[t]) = Len(held[t]) + 1 /\ held'[t][Len(held'[t])] = b
      /\ DOMAIN held[t] = 1 .. Len(held[t]) /\ DOMAIN held'[t] = 1 .. Len(held[t]) + 1
      /\ \A i \in 1 .. Len(held[t]) : held'[t][i] = held[t][i]
  BY <1>2, <1>7, Pushed
<1>9. Typed'
  <2>1. Raised \in Brackets /\ "PASSIVE" \in Levels
    BY DEF Raised, Brackets, Levels
  <2>2. held' \in [Threads -> Seq(Brackets)]
    BY <1>1, <1>7, <1>8 DEF Typed
  <2>3. mixed' \in BOOLEAN
    BY <1>6, Zenon
  <2>4. pc' \in [Threads -> {"run", "acquire", "store", "release", "leave", "ended"}]
    BY <1>1, <1>5, Zenon DEF Typed
  <2>5. bracket' \in [Threads -> Brackets] /\ old' \in [Threads -> Levels]
    <3>1. bracket \in [Threads -> Brackets] /\ old \in [Threads -> Levels]
      BY <1>1 DEF Typed
    <3>2. CASE spin
      BY <1>5, <3>1, <3>2
    <3>3. CASE ~spin
      BY <1>5, <2>1, <3>1, <3>3
    <3>4. QED
      BY <3>2, <3>3
  <2>6. QED
    BY <1>1, <2>2, <2>3, <2>4, <2>5 DEF Typed
<1>10. MacroInv(t)'
  <2>1. Formed(held'[t])
    BY <1>1, <1>2, <1>4, <1>8, SMTT(20), SMTT(30) DEF MacroInv, InMacro, Formed
  <2>2. CASE spin
    BY <1>1, <1>2, <1>7, <1>8, <2>1, <2>2 DEF MacroInv, InMacro, b, l, spin
  <2>3. CASE ~spin
    BY <1>7, <2>1, <2>3 DEF MacroInv, InMacro
  <2>4. QED
    BY <2>2, <2>3
<1>11. RegionInv(t)'
  <2>1. /\ Cardinality(PushesIn(platform, held[t])) \in Nat
        /\ Cardinality(PushesIn(platform, held'[t])) =
              Cardinality(PushesIn(platform, held[t])) + IF PushLock(platform, b.lock) THEN 1 ELSE 0
    BY <1>2, <1>7, PushedRegions, Zenon
  <2>2. Between(platform, pc[t], bracket[t]) = IF PushLock(platform, b.lock) THEN 1 ELSE 0
    BY <1>1 DEF Between, b
  <2>3. Between(platform, pc'[t], bracket'[t]) = 0
    BY <1>7 DEF Between
  <2>4. QED
    BY <1>1, <2>1, <2>2, <2>3 DEF RegionInv
<1>12. ASSUME ~mixed'
      PROVE  ~mixed /\ SameLevel' /\ LevelInv(t)' /\ FieldOK(t)'
  <2>1. ~mixed /\ (spin => \A u \in HoldersOf(l) : \A i \in DOMAIN held[u] :
                              held[u][i].lock = l => held[u][i].level = bracket[t].level)
    BY <1>6, <1>12, Zenon
  <2>2. SameLevel /\ LevelInv(t) /\ FieldOK(t)
    BY <2>1 DEF LInv
  <2>3. SameLevel'
    <3>1. \A u \in Threads : \A j \in DOMAIN held'[u] :
             \/ \E i \in DOMAIN held[u] : held'[u][j] = held[u][i]
             \/ held'[u][j] = b
      BY <1>7, <1>8, SMTT(40), SMTT(30)
    <3>2. ASSUME NEW u \in Threads, NEW i \in DOMAIN held[u], held[u][i].lock = l
          PROVE  u \in HoldersOf(l)
      <4>1. held[u][i] \in Brackets /\ held[u][i].mode # "raise"
        BY <1>1, <1>4, <3>2, SMTT(40) DEF Typed, LInv, MacroInv, InMacro, Formed
      <4>2. held[u][i].mode = "shared" \/ held[u][i].mode = "exclusive"
        BY <4>1 DEF Brackets
      <4>3. QED
        BY <3>2, <4>2 DEF HoldersOf, Holders
    <3>3. Spin(platform, b.lock) =>
             \A u \in Threads : \A i \in DOMAIN held[u] :
                held[u][i].lock = b.lock => held[u][i].level = b.level
      BY <1>2, <2>1, <3>2, SMTT(20), SMTT(30) DEF b, spin
    <3>4. QED
      BY <1>1, <2>2, <3>1, <3>3, SameLevelStays, Zenon
  <2>4. LevelInv(t)'
    <3>1. /\ Nested(platform, held[t]) /\ b.level = Inside(platform, held[t], Len(held[t]))
          /\ spin => old[t] = b.level
          /\ irql[t] = IF spin THEN "DISPATCH" ELSE Inside(platform, held[t], Len(held[t]))
      BY <1>1, <2>2 DEF LevelInv, LevelsOK, b, l, spin
    <3>2. /\ Nested(platform, held[t]) /\ b.level = Inside(platform, held[t], Len(held[t]))
                => Nested(platform, held'[t])
          /\ Inside(platform, held'[t], Len(held'[t])) =
                IF platform = "winkernel" /\ b.lock \notin PushLocks
                THEN "DISPATCH" ELSE Inside(platform, held[t], Len(held[t]))
      BY <1>2, <1>7, PushedLevels, Zenon
    <3>3. spin <=> platform = "winkernel" /\ b.lock \notin PushLocks
      BY <1>2, <1>4 DEF spin, Spin
    <3>4. Nested(platform, held'[t]) /\ irql[t] = Inside(platform, held'[t], Len(held'[t]))
      BY <3>1, <3>2, <3>3
    <3>5. QED
      BY <1>1, <1>7, <3>1, <3>4, SMTT(20), SMTT(30) DEF LevelInv, LevelsOK, b
  <2>5. FieldOK(t)'
    <3>1. ASSUME NEW i \in 1 .. Len(held[t]), Spin(platform, held[t][i].lock)
          PROVE  PrevIrql[held[t][i].lock] = held[t][i].level
      BY <1>1, <1>8, <2>2, <3>1 DEF FieldOK
    <3>2. spin => pc'[t] = "store"
      BY <1>7
    <3>3. Spin(platform, b.lock) <=> spin
      BY <1>2 DEF spin
    <3>4. ASSUME NEW i \in DOMAIN held'[t], Spin(platform, held'[t][i].lock)
          PROVE  \/ pc'[t] = "store" /\ i = Len(held'[t])
                 \/ PrevIrql[held'[t][i].lock] = held'[t][i].level
      <4>1. CASE i = Len(held'[t])
        BY <1>8, <3>2, <3>3, <3>4, <4>1
      <4>2. CASE i # Len(held'[t])
        <5>1. i \in 1 .. Len(held[t]) /\ held'[t][i] = held[t][i]
          BY <1>8, <3>4, <4>2
        <5>2. QED
          BY <3>1, <3>4, <5>1
      <4>3. QED
        BY <4>1, <4>2
    <3>5. QED
      BY <1>1, <3>4, SMTT(20), SMTT(30) DEF FieldOK
  <2>6. QED
    BY <2>1, <2>3, <2>4, <2>5
<1>13. QED
  BY <1>1, <1>7, <1>9, <1>10, <1>11, <1>12, OneThread, ZenonT(40)

(* Acquire_EDEADLK ends all threads; it happens on POSIX only. *)
LEMMA DeadlkStep ==
    ASSUME LInv, NEW t \in Threads, Acquire_EDEADLK(t)
    PROVE  LInv'
<1>1. /\ Typed /\ MacroInv(t) /\ pc[t] = "acquire" /\ Kind(bracket[t].lock) = "rwlock"
      /\ pc' = [u \in Threads |-> "ended"]
      /\ UNCHANGED <<platform, irql, region, held, PrevIrql, bracket, old, mixed>>
  BY DEF LInv, Acquire_EDEADLK
<1>2. platform = "posix"
  <2>1. bracket[t].lock \in Locks
    BY <1>1 DEF MacroInv, InMacro
  <2>2. QED
    BY <1>1, <2>1, Kinds, SMTT(20), SMTT(30) DEF Typed
<1>3. Typed'
  BY <1>1 DEF Typed
<1>4. ASSUME NEW u \in Threads
      PROVE  MacroInv(u)' /\ RegionInv(u)'
  <2>1. MacroInv(u) /\ RegionInv(u) /\ pc'[u] = "ended"
    <3>1. MacroInv(u) /\ RegionInv(u)
      BY Zenon DEF LInv
    <3>2. pc'[u] = "ended"
      BY <1>1, Zenon
    <3>3. QED
      BY <3>1, <3>2, Zenon
  <2>2. MacroInv(u)'
    <3>1. Formed(held[u])
      BY <2>1, Zenon DEF MacroInv, InMacro
    <3>2. InMacro(platform, held[u], "ended", bracket[u])
      BY <1>2, <3>1 DEF InMacro
    <3>3. QED
      BY <1>1, <2>1, <3>2, Zenon DEF MacroInv
  <2>3. Between(platform, pc[u], bracket[u]) = 0 /\ Between(platform, pc'[u], bracket[u]) = 0
    BY <1>2, <2>1 DEF Between, PushLock, MacroInv, InMacro
  <2>4. QED
    BY <1>1, <2>1, <2>2, <2>3 DEF RegionInv
<1>5. ASSUME ~mixed'
      PROVE  SameLevel' /\ \A u \in Threads : LevelInv(u)' /\ FieldOK(u)'
  <2>1. SameLevel /\ \A u \in Threads : LevelInv(u)
    BY <1>1, <1>5 DEF LInv
  <2>2. SameLevel'
    BY <1>1, <2>1 DEF SameLevel
  <2>3. \A u \in Threads : LevelInv(u)'
    BY <1>1, <1>2, <2>1 DEF LevelInv, LevelsOK, Spin
  <2>4. \A u \in Threads : FieldOK(u)'
    BY <1>1, <1>2 DEF FieldOK, Spin
  <2>5. QED
    BY <2>2, <2>3, <2>4
<1>6. QED
  BY <1>3, <1>4, <1>5 DEF LInv

LEMMA StoreStep ==
    ASSUME LInv, NEW t \in Threads, Acquire_store(t)
    PROVE  LInv'
<1> DEFINE l == bracket[t].lock
<1>1. /\ Typed /\ MacroInv(t) /\ RegionInv(t) /\ pc[t] = "store"
      /\ UNCHANGED <<platform, irql, region, held, mixed>>
      /\ PrevIrql' = [PrevIrql EXCEPT ![l] = old[t]]
      /\ pc' = [pc EXCEPT ![t] = "run"]
      /\ bracket' = [bracket EXCEPT ![t] = Raised]
      /\ old' = [old EXCEPT ![t] = "PASSIVE"]
  BY DEF LInv, Acquire_store, Return
<1>2. /\ Spin(platform, l) /\ l \in DispatchLocks /\ Formed(held[t])
      /\ held[t] # <<>> /\ bracket[t] = held[t][Len(held[t])] /\ Len(held[t]) \in DOMAIN held[t]
  BY <1>1 DEF MacroInv, InMacro, Spin, Typed
<1> HIDE DEF l
<1>3. /\ pc'[t] = "run" /\ PrevIrql'[l] = old[t]
      /\ \A k \in DispatchLocks \ {l} : PrevIrql'[k] = PrevIrql[k]
      /\ \A u \in Threads \ {t} : /\ pc'[u] = pc[u]
                                  /\ bracket'[u] = bracket[u] /\ old'[u] = old[u]
  BY <1>1, <1>2 DEF Typed
<1>4. Typed'
  <2>1. Raised \in Brackets /\ "PASSIVE" \in Levels
    BY DEF Raised, Brackets, Levels
  <2>2. QED
    BY <1>1, <1>2, <2>1 DEF Typed
<1>5. MacroInv(t)'
  BY <1>1, <1>2, <1>3, SMTT(20), SMTT(30) DEF MacroInv, InMacro
<1>6. RegionInv(t)'
  BY <1>1, <1>3 DEF RegionInv, Between
<1>7. ASSUME ~mixed'
      PROVE  ~mixed /\ SameLevel' /\ LevelInv(t)' /\ \A u \in Threads : FieldOK(u)'
  <2>1. SameLevel /\ LevelInv(t) /\ \A u \in Threads : FieldOK(u)
    BY <1>1, <1>7 DEF LInv
  <2>2. SameLevel'
    BY <1>1, <2>1, SMTT(20) DEF SameLevel
  <2>3. LevelInv(t)' /\ old[t] = bracket[t].level
    BY <1>1, <1>2, <1>3, <2>1, ZenonT(40) DEF LevelInv, LevelsOK, l
  <2>4. ASSUME NEW u \in Threads, NEW i \in DOMAIN held[u], Spin(platform, held[u][i].lock)
        PROVE  \/ pc'[u] = "store" /\ i = Len(held[u])
               \/ PrevIrql'[held[u][i].lock] = held[u][i].level
    <3>1. CASE held[u][i].lock = l
      <4>1. held[t][Len(held[t])].level = held[u][i].level
        BY <1>2, <2>1, <2>4, <3>1, SMTT(40) DEF SameLevel, l
      <4>2. QED
        BY <1>2, <1>3, <2>3, <3>1, <4>1, SMTT(20), SMTT(30)
    <3>2. CASE held[u][i].lock # l
      <4>1. PrevIrql'[held[u][i].lock] = PrevIrql[held[u][i].lock]
        BY <1>3, <2>4, <3>2 DEF Spin
      <4>2. \/ pc[u] = "store" /\ i = Len(held[u])
            \/ PrevIrql[held[u][i].lock] = held[u][i].level
        BY <2>1, <2>4 DEF FieldOK
      <4>3. u # t \/ i # Len(held[u])
        BY <1>2, <3>2 DEF l
      <4>4. QED
        BY <1>3, <4>1, <4>2, <4>3
    <3>3. QED
      BY <3>1, <3>2
  <2>5. \A u \in Threads : FieldOK(u)'
    BY <1>1, <2>4, SMTT(20) DEF FieldOK
  <2>6. QED
    BY <1>1, <1>7, <2>2, <2>3, <2>5
<1>8. QED
  BY <1>1, <1>3, <1>4, <1>5, <1>6, <1>7, OneThread

LEMMA LoadStep ==
    ASSUME LInv, NEW t \in Threads, Release_load(t)
    PROVE  LInv'
<1> DEFINE b == held[t][Len(held[t])]
<1>1. /\ Typed /\ MacroInv(t) /\ RegionInv(t) /\ pc[t] = "run"
      /\ held[t] # <<>> /\ b.mode # "raise"
      /\ UNCHANGED <<platform, irql, region, held, PrevIrql, mixed>>
      /\ bracket' = [bracket EXCEPT ![t] = b]
      /\ old' = IF Kind(b.lock) = "spin" THEN [old EXCEPT ![t] = PrevIrql[b.lock]] ELSE old
      /\ pc' = [pc EXCEPT ![t] = "release"]
  BY DEF LInv, Release_load, Top
<1>2. Len(held[t]) \in DOMAIN held[t] /\ b \in Brackets /\ b.lock \in Locks
  <2>1. Len(held[t]) \in DOMAIN held[t] /\ b \in Brackets
    BY <1>1 DEF Typed
  <2>2. b.lock # -1
    BY <1>1, <2>1, SMTT(20), SMTT(30) DEF MacroInv, InMacro, Formed
  <2>3. QED
    BY <2>1, <2>2 DEF Brackets
<1>3. Kind(b.lock) = "spin" <=> Spin(platform, b.lock)
  BY <1>1, <1>2, Kinds DEF Typed
<1>4. /\ bracket'[t] = b /\ pc'[t] = "release"
      /\ Spin(platform, b.lock) => old'[t] = PrevIrql[b.lock]
      /\ \A u \in Threads \ {t} : /\ pc'[u] = pc[u]
                                  /\ bracket'[u] = bracket[u] /\ old'[u] = old[u]
  BY <1>1, <1>3 DEF Typed
<1>5. Typed'
  <2>1. Spin(platform, b.lock) => PrevIrql[b.lock] \in Levels
    BY <1>1 DEF Typed, Spin
  <2>2. old' \in [Threads -> Levels]
    BY <1>1, <1>3, <2>1, SMTT(20), SMTT(30) DEF Typed
  <2>3. QED
    BY <1>1, <1>2, <2>2 DEF Typed
<1>6. MacroInv(t)'
  BY <1>1, <1>2, <1>4, SMTT(20), SMTT(30) DEF MacroInv, InMacro
<1>7. RegionInv(t)'
  BY <1>1, <1>4, SMTT(20), SMTT(30) DEF RegionInv, Between
<1>8. ASSUME ~mixed'
      PROVE  SameLevel' /\ LevelInv(t)' /\ FieldOK(t)'
  <2>1. SameLevel /\ LevelInv(t) /\ FieldOK(t)
    BY <1>1, <1>8, SMTT(20), SMTT(30) DEF LInv
  <2>2. SameLevel'
    BY <1>1, <2>1, SMTT(40) DEF SameLevel
  <2>3. Spin(platform, b.lock) => old'[t] = b.level
    <3>1. pc[t] # "store"
      BY <1>1
    <3>2. Spin(platform, b.lock) => PrevIrql[b.lock] = b.level
      BY <1>2, <2>1, <3>1, Zenon DEF FieldOK
    <3>3. QED
      BY <1>4, <3>2, Zenon
  <2>4. LevelInv(t)'
    BY <1>1, <1>4, <2>1, <2>3, ZenonT(40) DEF LevelInv, LevelsOK
  <2>5. FieldOK(t)'
    BY <1>1, <1>4, <2>1, ZenonT(40) DEF FieldOK
  <2>6. QED
    BY <2>2, <2>4, <2>5, SMTT(20)
<1>9. QED
  BY <1>1, <1>4, <1>5, <1>6, <1>7, <1>8, OneThread, ZenonT(40)

LEMMA UnlockStep ==
    ASSUME LInv, NEW t \in Threads, Release_unlock(t)
    PROVE  LInv'
<1> DEFINE l == bracket[t].lock
           push == PushLock(platform, l)
           spin == Spin(platform, l)
<1>1. /\ Typed /\ MacroInv(t) /\ RegionInv(t) /\ pc[t] = "release"
      /\ UNCHANGED <<platform, region, PrevIrql, mixed>>
      /\ held' = [held EXCEPT ![t] = SubSeq(@, 1, Len(@) - 1)]
  BY SMTT(20), SMTT(30) DEF LInv, Release_unlock, Pop
<1>2. held[t] # <<>> /\ bracket[t] = held[t][Len(held[t])] /\ l \in Locks
  BY <1>1, SMTT(20), SMTT(30) DEF MacroInv, InMacro
<1>3. (Kind(l) = "spin" <=> spin) /\ (Kind(l) = "push" <=> push)
  BY <1>1, <1>2, Kinds DEF Typed
<1>4. /\ push => pc' = [pc EXCEPT ![t] = "leave"] /\ UNCHANGED <<bracket, old>>
      /\ ~push => /\ pc' = [pc EXCEPT ![t] = "run"]
                  /\ bracket' = [bracket EXCEPT ![t] = Raised]
                  /\ old' = [old EXCEPT ![t] = "PASSIVE"]
      /\ irql' = IF spin THEN [irql EXCEPT ![t] = old[t]] ELSE irql
  BY <1>3 DEF Release_unlock, Goto, Return
<1>5. l \in DispatchLocks <=> l \notin PushLocks
  BY <1>2, LockAssumption DEF Locks
<1> HIDE DEF l, push, spin
<1>6. /\ held[t] \in Seq(Brackets) /\ held'[t] = SubSeq(held[t], 1, Len(held[t]) - 1)
      /\ pc'[t] = IF push THEN "leave" ELSE "run"
      /\ irql'[t] = IF spin THEN old[t] ELSE irql[t]
      /\ \A u \in Threads \ {t} : /\ held'[u] = held[u] /\ pc'[u] = pc[u] /\ irql'[u] = irql[u]
                                  /\ bracket'[u] = bracket[u] /\ old'[u] = old[u]
  BY <1>1, <1>4 DEF Typed
<1>7. /\ held'[t] \in Seq(Brackets)
      /\ Len(held[t]) \in Nat \ {0} /\ Len(held'[t]) = Len(held[t]) - 1
      /\ DOMAIN held[t] = 1 .. Len(held[t]) /\ DOMAIN held'[t] = 1 .. Len(held[t]) - 1
      /\ \A i \in 1 .. Len(held[t]) - 1 : held'[t][i] = held[t][i]
  BY <1>2, <1>6, Popped
<1>8. Typed'
  <2>1. Raised \in Brackets /\ "PASSIVE" \in Levels
    BY DEF Raised, Brackets, Levels
  <2>2. held' \in [Threads -> Seq(Brackets)] /\ irql' \in [Threads -> Levels]
    BY <1>1, <1>4, <1>6, <1>7 DEF Typed
  <2>3. pc' \in [Threads -> {"run", "acquire", "store", "release", "leave", "ended"}]
    BY <1>1, <1>4, ZenonT(40) DEF Typed
  <2>4. bracket' \in [Threads -> Brackets] /\ old' \in [Threads -> Levels]
    <3>1. bracket \in [Threads -> Brackets] /\ old \in [Threads -> Levels]
      BY <1>1 DEF Typed
    <3>2. CASE push
      BY <1>4, <3>1, <3>2
    <3>3. CASE ~push
      BY <1>4, <2>1, <3>1, <3>3, SMTT(20), SMTT(30)
    <3>4. QED
      BY <3>2, <3>3
  <2>5. QED
    BY <1>1, <2>2, <2>3, <2>4 DEF Typed
<1>9. MacroInv(t)'
  <2>1. Formed(held'[t])
    BY <1>1, <1>7 DEF MacroInv, InMacro, Formed
  <2>2. push => platform = "winkernel"
    BY SMTT(20), SMTT(30) DEF push, PushLock
  <2>3. QED
    BY <1>1, <1>6, <2>1, <2>2, SMTT(20), SMTT(30) DEF MacroInv, InMacro
<1>10. RegionInv(t)'
  <2>1. /\ Cardinality(PushesIn(platform, held'[t])) \in Nat
        /\ Cardinality(PushesIn(platform, held[t])) =
              Cardinality(PushesIn(platform, held'[t]))
                 + IF PushLock(platform, held[t][Len(held[t])].lock) THEN 1 ELSE 0
    BY <1>2, <1>6, PoppedRegions, Zenon
  <2>2. push <=> PushLock(platform, held[t][Len(held[t])].lock)
    BY <1>2 DEF push, l
  <2>3. Between(platform, pc[t], bracket[t]) = 0
    <3>1. pc[t] = "release"
      BY <1>1, Zenon
    <3>2. QED
      BY <3>1 DEF Between
  <2>4. Between(platform, pc'[t], bracket'[t]) = IF push THEN 1 ELSE 0
    BY <1>6, Zenon DEF Between
  <2>5. QED
    BY <1>1, <2>1, <2>2, <2>3, <2>4 DEF RegionInv
<1>11. ASSUME ~mixed'
      PROVE  SameLevel' /\ LevelInv(t)' /\ FieldOK(t)'
  <2>1. SameLevel /\ LevelInv(t) /\ FieldOK(t)
    BY <1>1, <1>11 DEF LInv
  <2>2. SameLevel'
    <3>1. Len(held[t]) \in Nat
      BY <1>7
    <3>2. UNCHANGED platform /\ \A u \in Threads \ {t} : held'[u] = held[u]
      BY <1>1, <1>6, Zenon
    <3>3. QED
      BY <1>7, <2>1, <3>1, <3>2, PoppedSameLevel, Zenon
  <2>3. LevelInv(t)'
    <3>1. /\ spin => old[t] = bracket[t].level
          /\ irql[t] = Inside(platform, held[t], Len(held[t]))
      BY <1>1, <2>1 DEF LevelInv, LevelsOK, spin, l
    <3>2. /\ Nested(platform, held'[t])
          /\ held[t][Len(held[t])].level = Inside(platform, held'[t], Len(held'[t]))
          /\ held[t][Len(held[t])].lock \in PushLocks =>
                Inside(platform, held[t], Len(held[t])) = Inside(platform, held'[t], Len(held'[t]))
      <4>1. Nested(platform, held[t])
        BY <1>1, <2>1 DEF LevelInv, LevelsOK
      <4>2. QED
        BY <1>2, <1>6, <4>1, PoppedLevels, ZenonT(40)
    <3>3. irql'[t] = Inside(platform, held'[t], Len(held'[t]))
      <4>1. CASE spin
        BY <1>2, <1>6, <3>1, <3>2, <4>1, ZenonT(40)
      <4>2. CASE ~spin /\ platform = "winkernel"
        <5>1. held[t][Len(held[t])].lock \in PushLocks
          BY <1>2, <1>5, <4>2 DEF spin, Spin, l
        <5>2. QED
          BY <1>6, <3>1, <3>2, <4>2, <5>1
      <4>3. CASE platform # "winkernel"
        <5>1. ~spin
          BY <4>3, SMTT(20), SMTT(30) DEF spin, Spin
        <5>2. QED
          BY <1>6, <3>1, <4>3, <5>1 DEF Inside
      <4>4. QED
        BY <4>1, <4>2, <4>3, SMTT(20)
    <3>4. QED
      BY <1>1, <1>6, <3>2, <3>3, ZenonT(40) DEF LevelInv, LevelsOK
  <2>4. FieldOK(t)'
    BY <1>1, <1>6, <1>7, <2>1, SMTT(40), SMTT(30) DEF FieldOK, Spin
  <2>5. QED
    BY <2>2, <2>3, <2>4
<1>12. QED
  BY <1>1, <1>6, <1>8, <1>9, <1>10, <1>11, OneThread, SMTT(20), SMTT(30)

LEMMA LeaveStep ==
    ASSUME LInv, NEW t \in Threads, Release_leave(t)
    PROVE  LInv'
<1>1. /\ Typed /\ MacroInv(t) /\ RegionInv(t) /\ pc[t] = "leave"
      /\ UNCHANGED <<platform, irql, held, PrevIrql, mixed>>
      /\ region' = [region EXCEPT ![t] = @ - 1]
      /\ pc' = [pc EXCEPT ![t] = "run"]
      /\ bracket' = [bracket EXCEPT ![t] = Raised]
      /\ old' = [old EXCEPT ![t] = "PASSIVE"]
  BY DEF LInv, Release_leave, Return
<1>2. Raised \in Brackets /\ "PASSIVE" \in Levels
  BY DEF Raised, Brackets, Levels
<1>3. /\ pc'[t] = "run" /\ region'[t] = region[t] - 1
      /\ \A u \in Threads \ {t} : /\ pc'[u] = pc[u] /\ region'[u] = region[u]
                                  /\ bracket'[u] = bracket[u] /\ old'[u] = old[u]
  BY <1>1 DEF Typed
<1>4. Typed'
  BY <1>1, <1>2, SMTT(20), SMTT(30) DEF Typed
<1>5. MacroInv(t)'
  BY <1>1, <1>3 DEF MacroInv, InMacro
<1>6. RegionInv(t)'
  <2>1. Between(platform, pc[t], bracket[t]) = 1 /\ Between(platform, pc'[t], bracket'[t]) = 0
    BY <1>1, <1>3 DEF Between
  <2>2. Cardinality(PushesIn(platform, held[t])) \in Nat
    BY <1>1, <1>2, PushedRegions, ZenonT(40) DEF Typed
  <2>3. QED
    BY <1>1, <1>3, <2>1, <2>2 DEF RegionInv
<1>7. ASSUME ~mixed'
      PROVE  SameLevel' /\ LevelInv(t)' /\ FieldOK(t)'
  <2>1. SameLevel /\ LevelInv(t) /\ FieldOK(t)
    BY <1>1, <1>7 DEF LInv
  <2>2. SameLevel'
    BY <1>1, <2>1 DEF SameLevel
  <2>3. LevelInv(t)'
    BY <1>1, <1>3, <2>1, ZenonT(40) DEF LevelInv, LevelsOK
  <2>4. FieldOK(t)'
    BY <1>1, <1>3, <2>1 DEF FieldOK
  <2>5. QED
    BY <2>2, <2>3, <2>4
<1>8. QED
  BY <1>1, <1>3, <1>4, <1>5, <1>6, <1>7, OneThread, ZenonT(40)

(* A step that changes nothing. *)
LEMMA StutterStep ==
    ASSUME LInv, UNCHANGED vars
    PROVE  LInv'
<1>1. UNCHANGED <<platform, irql, region, held, PrevIrql, pc, bracket, old, mixed>>
  BY DEF vars
<1>2. Typed' /\ (SameLevel => SameLevel')
  BY <1>1, SMTT(20) DEF LInv, Typed, SameLevel
<1>3. ASSUME NEW u \in Threads
      PROVE  /\ MacroInv(u) => MacroInv(u)'
             /\ RegionInv(u) => RegionInv(u)'
             /\ LevelInv(u) => LevelInv(u)'
             /\ FieldOK(u) => FieldOK(u)'
  BY <1>1, OthersStay, Zenon
<1>4. QED
  BY <1>1, <1>2, <1>3 DEF LInv

-----------------------------------------------------------------------------
(* The invariant holds of every state the macros reach, for any number of  *)
(* threads and locks, any nesting and each platform.                       *)
THEOREM LocksInvariance == Spec => []LInv
<1>1. Init => LInv
  BY Initially
<1>2. LInv /\ [Next]_vars => LInv'
  <2> SUFFICES ASSUME LInv, [Next]_vars
               PROVE  LInv'
    OBVIOUS
  <2>1. CASE Next
    <3>1. PICK t \in Threads :
             \/ CXPLAT_RAISE_IRQL(t)
             \/ CXPLAT_LOWER_IRQL(t)
             \/ \E l \in Locks : \E mode \in Modes(l) : Acquire_call(t, l, mode)
             \/ Acquire_grant(t)
             \/ Acquire_EDEADLK(t)
             \/ Acquire_store(t)
             \/ Release_load(t)
             \/ Release_unlock(t)
             \/ Release_leave(t)
      BY <2>1 DEF Next
    <3>2. CASE \E l \in Locks : \E mode \in Modes(l) : Acquire_call(t, l, mode)
      BY <3>2, CallStep
    <3>3. QED
      BY <3>1, <3>2, RaiseStep, LowerStep, GrantStep, DeadlkStep, StoreStep, LoadStep,
         UnlockStep, LeaveStep, SMTT(20), SMTT(30)
  <2>2. CASE UNCHANGED vars
    BY <2>2, StutterStep
  <2>3. QED
    BY <2>1, <2>2
<1>3. QED
  BY <1>1, <1>2, PTL DEF Spec

(* After the release of a dispatch lock, and after CXPLAT_LOWER_IRQL, the  *)
(* thread runs at the level it had before, as long as no two threads of    *)
(* different levels share a CXPLAT_DISPATCH_RW_LOCK: one field PrevIrql    *)
(* serves all holders.                                                     *)
THEOREM LevelIsRestored == Spec => []IrqlIsRestoredUnlessMixed
<1>1. LInv => IrqlIsRestoredUnlessMixed
  <2> SUFFICES ASSUME LInv, ~mixed, NEW t \in Threads, pc[t] = "run"
               PROVE  irql[t] = Expected(t)
    BY SMTT(20), SMTT(30) DEF IrqlIsRestoredUnlessMixed, IrqlIsRestored
  <2>1. irql[t] = Inside(platform, held[t], Len(held[t]))
    BY DEF LInv, LevelInv, LevelsOK
  <2>2. DOMAIN held[t] = 1 .. Len(held[t])
    BY DEF LInv, Typed
  <2>3. QED
    BY <2>1, <2>2 DEF Inside, Expected
<1>2. QED
  BY <1>1, LocksInvariance, PTL

(* A thread that holds CXPLAT_LOCKs or CXPLAT_RW_LOCKs in kernel mode is   *)
(* inside a critical region for each of them, and between two macros       *)
(* inside no other.                                                        *)
THEOREM HoldersAreInCriticalRegions == Spec => []HoldersCannotBeSuspended
<1>1. LInv => HoldersCannotBeSuspended
  <2> DEFINE pushes(t) ==
               {i \in DOMAIN held[t] : held[t][i].lock # -1 /\ Kind(held[t][i].lock) = "push"}
  <2> SUFFICES ASSUME LInv, NEW t \in Threads
               PROVE  /\ Cardinality(pushes(t)) <= region[t]
                      /\ pc[t] = "run" => Cardinality(pushes(t)) = region[t]
    BY DEF HoldersCannotBeSuspended
  <2>1. Typed /\ RegionInv(t)
    BY DEF LInv
  <2>2. ASSUME NEW i \in DOMAIN held[t]
        PROVE  held[t][i].lock # -1 /\ Kind(held[t][i].lock) = "push"
                  <=> PushLock(platform, held[t][i].lock)
    <3>1. held[t][i].lock \in Locks \cup {-1}
      <4>1. held[t] \in Seq(Brackets)
        BY <2>1 DEF Typed
      <4>2. held[t][i] \in Brackets
        BY <2>2, <4>1
      <4>3. QED
        BY <4>2 DEF Brackets
    <3>2. CASE held[t][i].lock \in Locks
      BY <2>1, <3>2, Kinds DEF Typed
    <3>3. CASE held[t][i].lock = -1
      BY <3>3, LockAssumption DEF PushLock, Locks
    <3>4. QED
      BY <3>1, <3>2, <3>3
  <2>3. pushes(t) = PushesIn(platform, held[t])
    BY <2>2 DEF PushesIn
  <2> HIDE DEF pushes
  <2>4. Cardinality(PushesIn(platform, held[t])) \in Nat
    <3>1. Raised \in Brackets /\ held[t] \in Seq(Brackets)
      BY <2>1, Zenon DEF Raised, Brackets, Levels, Typed
    <3>2. QED
      BY <3>1, PushedRegions, Zenon
  <2>5. /\ Between(platform, pc[t], bracket[t]) \in {0, 1}
        /\ pc[t] = "run" => Between(platform, pc[t], bracket[t]) = 0
    BY DEF Between
  <2>6. QED
    BY <2>1, <2>3, <2>4, <2>5, SMTT(40) DEF RegionInv
<1>2. QED
  BY <1>1, LocksInvariance, PTL

-----------------------------------------------------------------------------
(* Who holds a lock exclusively holds it alone, and threads that acquire   *)
(* locks in order do not wait for each other in a circle unless one        *)
(* acquires a lock again.                                                  *)

(* A thread acquires a lock that it holds, or one above all that it holds. *)
Ordered(s, where, b) ==
    where = "acquire" =>
       /\ b.mode \in Modes(b.lock)
       /\ \/ \E i \in DOMAIN s : s[i].lock = b.lock
          \/ \A i \in DOMAIN s : s[i].lock < b.lock

ModesOK(s) == \A i \in DOMAIN s : s[i].lock # -1 => s[i].mode \in Modes(s[i].lock)

(* A CXPLAT_LOCK, a CXPLAT_DISPATCH_LOCK, and a reader-writer lock that is *)
(* held exclusively, are held by one thread.                               *)
Exclusive ==
    \A t, u \in Threads : \A i \in DOMAIN held[t], j \in DOMAIN held[u] :
       t # u /\ held[t][i].lock = held[u][j].lock => held[t][i].mode # "exclusive"

OInv ==
    /\ \A t \in Threads : Ordered(held[t], pc[t], bracket[t]) /\ ModesOK(held[t])
    /\ Exclusive

-----------------------------------------------------------------------------
(* A finite set of numbers has a greatest one: the sets of those above one *)
(* of them are ordered by strict inclusion.                                *)
LEMMA Greatest ==
    ASSUME NEW T, T \subseteq Nat, IsFiniteSet(T), T # {}
    PROVE  \E x \in T : \A y \in T : y <= x
<1> DEFINE Above(x) == {y \in T : y > x}
           R == StrictSubsetOrdering(T)
           U == {Above(x) : x \in T}
<1>1. IsWellFoundedOn(R, FiniteSubsetsOf(T))
  BY FS_StrictSubsetOrderingWellFounded, Zenon
<1>2. \A A, B \in SUBSET T : A \subseteq B /\ A # B => <<A, B>> \in R
  BY Zenon DEF StrictSubsetOrdering
<1>3. U \subseteq FiniteSubsetsOf(T) /\ U # {}
  <2>1. ASSUME NEW x \in T
        PROVE  Above(x) \in FiniteSubsetsOf(T)
    <3>1. IsFiniteSet(Above(x)) /\ Above(x) \subseteq T
      BY FS_Subset
    <3>2. QED
      BY <3>1 DEF FiniteSubsetsOf
  <2>2. QED
    BY <2>1, Zenon
<1> HIDE DEF R
<1>4. \E A \in U : \A B \in U : ~(<<B, A>> \in R)
  <2> HIDE DEF U
  <2>1. QED
    BY <1>1, <1>3, WFMin, Zenon
<1>5. PICK x \in T : \A y \in T : ~(<<Above(y), Above(x)>> \in R)
  BY <1>4, Zenon
<1>6. ASSUME NEW y \in T
      PROVE  y <= x
  <2>1. SUFFICES ASSUME y > x
                 PROVE  FALSE
    BY DEF Above
  <2>2. Above(y) \subseteq Above(x)
    <3>1. \A z \in T : z > y => z > x
      BY <2>1
    <3>2. QED
      BY <3>1, Zenon
  <2>3. y \in Above(x) /\ y \notin Above(y)
    BY <2>1
  <2>4. <<Above(y), Above(x)>> \in R
    BY <1>2, <2>2, <2>3
  <2>5. QED
    BY <1>5, <2>4
<1>7. QED
  BY <1>6

(* The locks that can be acquired again. *)
LEMMA RecursiveKind ==
    ASSUME NEW l \in Locks, platform \in {"posix", "winuser", "winkernel"}
    PROVE  Kind(l) = "recursive" <=> platform # "winkernel" /\ l \notin RwLocks
<1>1. CASE platform = "posix"
  <2>1. Kind(l) = PosixKind(l)
    BY <1>1 DEF Kind
  <2>2. QED
    BY <1>1, <2>1 DEF PosixKind
<1>2. CASE platform = "winuser"
  <2>1. Kind(l) = WinUserKind(l)
    BY <1>2 DEF Kind
  <2>2. QED
    BY <1>2, <2>1 DEF WinUserKind
<1>3. CASE platform = "winkernel"
  <2>1. Kind(l) = WinKernelKind(l)
    BY <1>3, SMTT(20) DEF Kind
  <2>2. QED
    BY <1>3, <2>1 DEF WinKernelKind
<1>4. QED
  BY <1>1, <1>2, <1>3

(* A step of one thread that opens no bracket. *)
LEMMA KeptStep ==
    ASSUME OInv, NEW t \in Threads,
           \A u \in Threads \ {t} :
              held'[u] = held[u] /\ pc'[u] = pc[u] /\ bracket'[u] = bracket[u],
           \A j \in DOMAIN held'[t] : \E i \in DOMAIN held[t] : held'[t][j] = held[t][i],
           Ordered(held'[t], pc'[t], bracket'[t])
    PROVE  OInv'
<1>1. \A u \in Threads : \A j \in DOMAIN held'[u] :
         \E i \in DOMAIN held[u] : held'[u][j] = held[u][i]
  BY SMTT(20), SMTT(30)
<1>2. Exclusive'
  <2> SUFFICES ASSUME NEW u \in Threads, NEW v \in Threads,
                      NEW i \in DOMAIN held'[u], NEW j \in DOMAIN held'[v],
                      u # v, held'[u][i].lock = held'[v][j].lock
               PROVE  held'[u][i].mode # "exclusive"
    BY DEF Exclusive
  <2>1. PICK m \in DOMAIN held[u] : held'[u][i] = held[u][m]
    BY <1>1
  <2>2. PICK n \in DOMAIN held[v] : held'[v][j] = held[v][n]
    BY <1>1
  <2>3. QED
    BY <2>1, <2>2, SMTT(20) DEF OInv, Exclusive
<1>3. ASSUME NEW u \in Threads
      PROVE  ModesOK(held'[u])
  BY <1>1, SMTT(20), SMTT(30) DEF OInv, ModesOK
<1>4. ASSUME NEW u \in Threads
      PROVE  Ordered(held'[u], pc'[u], bracket'[u])
  BY DEF OInv
<1>5. QED
  BY <1>2, <1>3, <1>4 DEF OInv

(* A step of one thread that opens the bracket b. *)
LEMMA AddedStep ==
    ASSUME OInv, NEW t \in Threads, NEW b \in Brackets,
           held[t] \in Seq(Brackets), held'[t] = Append(held[t], b),
           \A u \in Threads \ {t} :
              held'[u] = held[u] /\ pc'[u] = pc[u] /\ bracket'[u] = bracket[u],
           pc'[t] # "acquire",
           b.lock # -1 => b.mode \in Modes(b.lock),
           \A u \in Threads \ {t} : \A j \in DOMAIN held[u] :
              held[u][j].lock = b.lock => b.mode # "exclusive" /\ held[u][j].mode # "exclusive"
    PROVE  OInv'
<1>1. \A j \in DOMAIN held'[t] :
         (\E i \in DOMAIN held[t] : held'[t][j] = held[t][i]) \/ held'[t][j] = b
  <2>1. /\ Len(held[t]) \in Nat /\ Len(held'[t]) = Len(held[t]) + 1 /\ held'[t][Len(held'[t])] = b
        /\ DOMAIN held[t] = 1 .. Len(held[t]) /\ DOMAIN held'[t] = 1 .. Len(held[t]) + 1
        /\ \A i \in 1 .. Len(held[t]) : held'[t][i] = held[t][i]
    BY Pushed
  <2>2. QED
    BY <2>1
<1>2. Exclusive'
  <2> SUFFICES ASSUME NEW u \in Threads, NEW v \in Threads,
                      NEW i \in DOMAIN held'[u], NEW j \in DOMAIN held'[v],
                      u # v, held'[u][i].lock = held'[v][j].lock
               PROVE  held'[u][i].mode # "exclusive"
    BY DEF Exclusive
  <2>1. Exclusive
    BY DEF OInv
  <2>2. CASE u = t
    <3>1. held'[v] = held[v] /\ v \in Threads \ {t}
      BY <2>2
    <3>2. CASE held'[t][i] = b
      BY <2>2, <3>1, <3>2, SMTT(20), SMTT(30)
    <3>3. CASE \E m \in DOMAIN held[t] : held'[t][i] = held[t][m]
      BY <2>1, <2>2, <3>1, <3>3, SMTT(20), SMTT(30) DEF Exclusive
    <3>4. QED
      BY <1>1, <2>2, <3>2, <3>3
  <2>3. CASE v = t
    <3>1. held'[u] = held[u] /\ u \in Threads \ {t}
      BY <2>3
    <3>2. CASE held'[t][j] = b
      BY <2>3, <3>1, <3>2, SMTT(20)
    <3>3. CASE \E m \in DOMAIN held[t] : held'[t][j] = held[t][m]
      BY <2>1, <2>3, <3>1, <3>3 DEF Exclusive
    <3>4. QED
      BY <1>1, <2>3, <3>2, <3>3
  <2>4. CASE u # t /\ v # t
    BY <2>1, <2>4, SMTT(20) DEF Exclusive
  <2>5. QED
    BY <2>2, <2>3, <2>4
<1>3. ASSUME NEW u \in Threads
      PROVE  ModesOK(held'[u])
  <2>1. ModesOK(held[u])
    BY DEF OInv
  <2>2. CASE u = t
    BY <1>1, <2>1, <2>2, SMTT(20), SMTT(30) DEF ModesOK
  <2>3. CASE u # t
    BY <2>1, <2>3
  <2>4. QED
    BY <2>2, <2>3
<1>4. ASSUME NEW u \in Threads
      PROVE  Ordered(held'[u], pc'[u], bracket'[u])
  BY DEF OInv, Ordered
<1>5. QED
  BY <1>2, <1>3, <1>4 DEF OInv

-----------------------------------------------------------------------------
LEMMA OrderInitially == Init => OInv
<1> SUFFICES ASSUME Init
             PROVE  OInv
  OBVIOUS
<1>1. \A t \in Threads : DOMAIN held[t] = {} /\ pc[t] = "run"
  BY DEF Init
<1>2. QED
  BY <1>1 DEF OInv, Ordered, ModesOK, Exclusive

(* One lemma for the actions that open, that close and that keep brackets. *)
LEMMA OpeningStep ==
    ASSUME LInv, OInv, NEW t \in Threads, CXPLAT_RAISE_IRQL(t) \/ Acquire_grant(t)
    PROVE  OInv'
<1>1. Typed /\ MacroInv(t) /\ held[t] \in Seq(Brackets)
  BY DEF LInv, Typed
<1>2. CASE CXPLAT_RAISE_IRQL(t)
  <2> DEFINE b == [Raised EXCEPT !.level = irql[t]]
  <2>1. /\ pc[t] = "run" /\ UNCHANGED <<pc, bracket>>
        /\ held' = [held EXCEPT ![t] = Append(@, b)]
    BY <1>2 DEF CXPLAT_RAISE_IRQL, Push
  <2>2. b \in Brackets /\ b.lock = -1 /\ b.mode = "raise"
    BY <1>1 DEF Raised, Brackets, Typed, Levels
  <2> HIDE DEF b
  <2>3. held'[t] = Append(held[t], b) /\ \A u \in Threads \ {t} : held'[u] = held[u]
    BY <1>1, <2>1, SMTT(20) DEF Typed
  <2>4. ASSUME NEW u \in Threads \ {t}, NEW j \in DOMAIN held[u], held[u][j].lock = b.lock
        PROVE  b.mode # "exclusive" /\ held[u][j].mode # "exclusive"
    BY <2>2, <2>4, ZenonT(40) DEF LInv, MacroInv, InMacro, Formed
  <2>5. QED
    BY <1>1, <2>1, <2>2, <2>3, <2>4, AddedStep
<1>3. CASE Acquire_grant(t)
  <2> DEFINE b == bracket[t]
  <2>1. /\ pc[t] = "acquire" /\ Conflicts(t) = {}
        /\ held' = [held EXCEPT ![t] = Append(@, b)]
    BY <1>3, ZenonT(40) DEF Acquire_grant, Push
  <2>2. /\ pc'[t] # "acquire"
        /\ \A u \in Threads \ {t} : pc'[u] = pc[u] /\ bracket'[u] = bracket[u]
    BY <1>1, <1>3, ZenonT(40) DEF Acquire_grant, Goto, Return, Typed
  <2>3. b \in Brackets /\ b.lock # -1 /\ b.mode \in Modes(b.lock)
    <3>1. b \in Brackets /\ b.lock \in Locks
      BY <1>1, <2>1, Zenon DEF Typed, MacroInv, InMacro
    <3>2. b.mode \in Modes(b.lock)
      BY <2>1 DEF OInv, Ordered
    <3>3. QED
      BY <3>1, <3>2, LockAssumption
  <2>4. ASSUME NEW u \in Threads \ {t}, NEW j \in DOMAIN held[u], held[u][j].lock = b.lock
        PROVE  b.mode # "exclusive" /\ held[u][j].mode # "exclusive"
    <3>1. u \notin IF b.mode = "shared" THEN Holders(b.lock, "exclusive") ELSE HoldersOf(b.lock)
      BY <2>1 DEF Conflicts
    <3>2. held[u][j].mode \in {"shared", "exclusive"}
      BY <2>3, <2>4 DEF OInv, ModesOK, Modes
    <3>3. CASE b.mode = "shared"
      BY <2>4, <3>1, <3>3, SMTT(20), SMTT(30) DEF Holders
    <3>4. CASE b.mode # "shared"
      BY <2>4, <3>1, <3>2, <3>4 DEF HoldersOf, Holders
    <3>5. QED
      BY <3>3, <3>4
  <2> HIDE DEF b
  <2>5. held'[t] = Append(held[t], b) /\ \A u \in Threads \ {t} : held'[u] = held[u]
    BY <1>1, <2>1, SMTT(20), SMTT(30) DEF Typed
  <2>6. QED
    BY <1>1, <2>2, <2>3, <2>4, <2>5, AddedStep, ZenonT(40)
<1>4. QED
  BY <1>2, <1>3

LEMMA ClosingStep ==
    ASSUME LInv, OInv, NEW t \in Threads, CXPLAT_LOWER_IRQL(t) \/ Release_unlock(t)
    PROVE  OInv'
<1>1. Typed /\ MacroInv(t)
  BY SMTT(20), SMTT(30) DEF LInv
<1>2. /\ held[t] # <<>> /\ held' = [held EXCEPT ![t] = SubSeq(@, 1, Len(@) - 1)]
      /\ pc'[t] # "acquire"
      /\ \A u \in Threads \ {t} : pc'[u] = pc[u] /\ bracket'[u] = bracket[u]
  <2>1. CASE CXPLAT_LOWER_IRQL(t)
    BY <2>1, SMTT(20), SMTT(30) DEF CXPLAT_LOWER_IRQL, Pop
  <2>2. CASE Release_unlock(t)
    <3>1. pc[t] = "release" /\ Pop(t) /\ (Goto(t, "leave") \/ Return(t))
      BY <2>2, Zenon DEF Release_unlock
    <3>2. QED
      BY <1>1, <3>1, SMTT(20) DEF Typed, MacroInv, InMacro, Pop, Goto, Return
  <2>3. QED
    BY <2>1, <2>2
<1>3. /\ held[t] \in Seq(Brackets) /\ held'[t] = SubSeq(held[t], 1, Len(held[t]) - 1)
      /\ \A u \in Threads \ {t} : held'[u] = held[u]
  BY <1>1, <1>2 DEF Typed
<1>4. \A j \in DOMAIN held'[t] : j \in DOMAIN held[t] /\ held'[t][j] = held[t][j]
  <2>1. /\ Len(held[t]) \in Nat \ {0}
        /\ DOMAIN held[t] = 1 .. Len(held[t]) /\ DOMAIN held'[t] = 1 .. Len(held[t]) - 1
        /\ \A i \in 1 .. Len(held[t]) - 1 : held'[t][i] = held[t][i]
    BY <1>2, <1>3, Popped, SMTT(20), SMTT(30)
  <2>2. QED
    BY <2>1, SMTT(20), SMTT(30)
<1>5. Ordered(held'[t], pc'[t], bracket'[t])
  BY <1>2, ZenonT(40) DEF Ordered
<1>6. QED
  BY <1>2, <1>3, <1>4, <1>5, KeptStep

LEMMA KeepingStep ==
    ASSUME LInv, OInv, NEW t \in Threads,
           \/ \E l \in Locks : \E mode \in Modes(l) : Acquire_call(t, l, mode)
           \/ Acquire_store(t)
           \/ Release_load(t)
           \/ Release_leave(t)
    PROVE  OInv'
<1>1. Typed
  BY SMTT(20) DEF LInv
<1>2. CASE Acquire_store(t) \/ Release_load(t) \/ Release_leave(t)
  <2>1. /\ UNCHANGED held /\ pc'[t] # "acquire"
        /\ \A u \in Threads \ {t} : pc'[u] = pc[u] /\ bracket'[u] = bracket[u]
    <3>1. CASE Acquire_store(t)
      BY <1>1, <3>1, SMTT(20) DEF Acquire_store, Return, Typed
    <3>2. CASE Release_load(t)
      BY <1>1, <3>2, SMTT(20) DEF Release_load, Typed
    <3>3. CASE Release_leave(t)
      BY <1>1, <3>3, SMTT(20) DEF Release_leave, Return, Typed
    <3>4. QED
      BY <1>2, <3>1, <3>2, <3>3, Zenon
  <2>2. Ordered(held'[t], pc'[t], bracket'[t])
    BY <2>1, Zenon DEF Ordered
  <2>3. QED
    BY <2>1, <2>2, KeptStep, SMTT(20)
<1>3. ASSUME NEW l \in Locks, NEW mode \in Modes(l), Acquire_call(t, l, mode)
      PROVE  OInv'
  <2>1. /\ UNCHANGED held
        /\ t \in HoldersOf(l) \/ \A i \in DOMAIN held[t] : held[t][i].lock < l
        /\ bracket' = [bracket EXCEPT ![t] = [lock |-> l, mode |-> mode, level |-> irql[t]]]
        /\ pc' = [pc EXCEPT ![t] = "acquire"]
    BY <1>3, ZenonT(40) DEF Acquire_call
  <2>2. /\ bracket'[t].lock = l /\ bracket'[t].mode = mode
        /\ \A u \in Threads \ {t} : pc'[u] = pc[u] /\ bracket'[u] = bracket[u]
    BY <1>1, <2>1, ZenonT(40) DEF Typed
  <2>3. Ordered(held'[t], pc'[t], bracket'[t])
    BY <2>1, <2>2, Zenon DEF Ordered, HoldersOf, Holders
  <2>4. QED
    BY <2>1, <2>2, <2>3, KeptStep, ZenonT(40)
<1>4. QED
  BY <1>2, <1>3

-----------------------------------------------------------------------------
(* Threads acquire locks in order, and who holds a lock exclusively holds  *)
(* it alone, for any number of threads and locks and each platform.        *)
THEOREM OrderInvariance == Spec => []OInv
<1>1. Init => OInv
  BY OrderInitially
<1>2. LInv /\ OInv /\ [Next]_vars => OInv'
  <2> SUFFICES ASSUME LInv, OInv, [Next]_vars
               PROVE  OInv'
    OBVIOUS
  <2>1. CASE Next
    <3>1. PICK t \in Threads :
             \/ CXPLAT_RAISE_IRQL(t) \/ Acquire_grant(t)
             \/ CXPLAT_LOWER_IRQL(t) \/ Release_unlock(t)
             \/ \/ \E l \in Locks : \E mode \in Modes(l) : Acquire_call(t, l, mode)
                \/ Acquire_store(t)
                \/ Release_load(t)
                \/ Release_leave(t)
             \/ Acquire_EDEADLK(t)
      BY <2>1, SMTT(20) DEF Next
    <3>2. CASE Acquire_EDEADLK(t)
      <4>1. UNCHANGED held /\ \A u \in Threads : pc'[u] = "ended"
        BY <3>2, SMTT(20), SMTT(30) DEF Acquire_EDEADLK
      <4>2. QED
        BY <4>1, Zenon DEF OInv, Ordered, Exclusive
    <3>3. QED
      BY <3>1, <3>2, OpeningStep, ClosingStep, KeepingStep
  <2>2. CASE UNCHANGED vars
    BY <2>2, Zenon DEF vars, OInv, Exclusive
  <2>3. QED
    BY <2>1, <2>2
<1>3. QED
  BY <1>1, <1>2, LocksInvariance, PTL DEF Spec

(* Of threads that wait for each other, take one that waits for the        *)
(* greatest lock.  Who holds that lock waits for a greater one, which is   *)
(* none, or for one that it holds already.                                 *)
LEMMA NoCircle ==
    ASSUME LInv, OInv, NEW S \in SUBSET Threads, S # {},
           \A t \in S : WaitsFor(t) \cap S # {},
           \A t \in S : t \in HoldersOf(bracket[t].lock) =>
                           platform # "winkernel" /\ bracket[t].lock \notin RwLocks
    PROVE  FALSE
<1>1. ASSUME NEW t \in S
      PROVE  /\ pc[t] = "acquire" /\ bracket[t].lock \in Locks
             /\ Kind(bracket[t].lock) = "recursive" <=>
                   platform # "winkernel" /\ bracket[t].lock \notin RwLocks
             /\ Ordered(held[t], pc[t], bracket[t])
  <2>1. pc[t] = "acquire"
    BY DEF WaitsFor
  <2>2. bracket[t].lock \in Locks
    BY <2>1 DEF LInv, MacroInv, InMacro
  <2>3. QED
    BY <2>1, <2>2, RecursiveKind, Zenon DEF LInv, Typed, OInv
<1>2. PICK t \in S : \A u \in S : bracket[u].lock <= bracket[t].lock
  <2> DEFINE T == {bracket[u].lock : u \in S}
  <2>1. T \subseteq Locks /\ T # {}
    BY <1>1
  <2>2. T \subseteq Nat /\ IsFiniteSet(T)
    BY <2>1, LockAssumption, FS_Subset, Zenon
  <2>3. \E x \in T : \A y \in T : y <= x
    <3> HIDE DEF T
    <3>1. QED
      BY <2>1, <2>2, Greatest, ZenonT(40)
  <2>4. QED
    BY <2>3, Zenon
<1>3. ASSUME NEW v \in S, v \in HoldersOf(bracket[v].lock)
      PROVE  FALSE
  <2> DEFINE l == bracket[v].lock
  <2>1. platform # "winkernel" /\ l \notin RwLocks /\ Kind(l) = "recursive" /\ l \in Locks
    BY <1>1, <1>3
  <2>2. bracket[v].mode = "exclusive"
    BY <1>1, <2>1 DEF Ordered, Modes
  <2>3. PICK i \in DOMAIN held[v] : held[v][i].lock = l
    BY <1>3, SMTT(20), SMTT(30) DEF HoldersOf, Holders
  <2>4. held[v][i].mode = "exclusive"
    <3>1. l # -1
      BY <2>1, LockAssumption, SMTT(20), SMTT(30)
    <3>2. QED
      BY <2>1, <2>3, <3>1 DEF OInv, ModesOK, Modes
  <2>5. ASSUME NEW u \in Threads \ {v}
        PROVE  u \notin HoldersOf(l)
    BY <2>3, <2>4, SMTT(20) DEF OInv, Exclusive, HoldersOf, Holders
  <2>6. HoldersOf(l) \subseteq {v}
    BY <2>5, SMTT(20) DEF HoldersOf, Holders
  <2>7. Conflicts(v) = {}
    BY <2>1, <2>2, <2>6, SMTT(20), SMTT(30) DEF Conflicts
  <2>8. WaitsFor(v) = {}
    BY <2>2, <2>7, SMTT(20) DEF WaitsFor
  <2>9. QED
    BY <2>8
<1>4. ASSUME NEW u \in S, bracket[u].lock = bracket[t].lock, NEW v \in Conflicts(u) \cap S
      PROVE  FALSE
  <2>1. v \in HoldersOf(bracket[t].lock)
    BY <1>4 DEF Conflicts, HoldersOf
  <2>2. PICK i \in DOMAIN held[v] : held[v][i].lock = bracket[t].lock
    BY <2>1 DEF HoldersOf, Holders
  <2>3. CASE \E j \in DOMAIN held[v] : held[v][j].lock = bracket[v].lock
    <3>1. PICK j \in DOMAIN held[v] : held[v][j].lock = bracket[v].lock
      BY <2>3, SMTT(20)
    <3>2. bracket[v].lock # -1 /\ v \in S
      BY <1>1, LockAssumption, SMTT(20), SMTT(30)
    <3>3. held[v][j].mode \in {"shared", "exclusive"}
      BY <3>1, <3>2, SMTT(20) DEF OInv, ModesOK, Modes
    <3>4. v \in HoldersOf(bracket[v].lock)
      BY <3>1, <3>3, Zenon DEF HoldersOf, Holders
    <3>5. QED
      BY <1>3, <3>2, <3>4
  <2>4. CASE \A j \in DOMAIN held[v] : held[v][j].lock < bracket[v].lock
    <3>1. bracket[t].lock < bracket[v].lock /\ bracket[v].lock <= bracket[t].lock
      BY <1>2, <2>2, <2>4, SMTT(20)
    <3>2. bracket[t].lock \in Nat /\ bracket[v].lock \in Nat
      BY <1>1, LockAssumption, ZenonT(40)
    <3>3. QED
      BY <3>1, <3>2
  <2>5. QED
    BY <1>1, <2>3, <2>4, SMTT(20) DEF Ordered
<1>5. PICK u \in S : u \in WaitsFor(t)
  BY <1>2
<1>6. u \notin Conflicts(t)
  BY <1>2, <1>4, SMTT(20), SMTT(30)
<1>7. bracket[u].lock = bracket[t].lock /\ bracket[u].mode = "exclusive"
  BY <1>1, <1>5, <1>6 DEF WaitsFor
<1>8. PICK v \in S : v \in WaitsFor(u)
  BY SMTT(20)
<1>9. v \in Conflicts(u)
  BY <1>1, <1>7, <1>8 DEF WaitsFor
<1>10. QED
  BY <1>4, <1>7, <1>8, <1>9

(* Threads that acquire locks in order wait for each other forever only if *)
(* one of them acquires again a lock that it holds, other than the         *)
(* recursive locks of user mode and POSIX.                                 *)
THEOREM DeadlocksAreReacquisitions == Spec => []DeadlockNeedsReacquisition
<1>1. LInv /\ OInv => DeadlockNeedsReacquisition
  BY NoCircle DEF DeadlockNeedsReacquisition
<1>2. QED
  BY <1>1, LocksInvariance, OrderInvariance, PTL
=============================================================================
