---------------------------- MODULE PlatformProof ----------------------------
(***************************************************************************)
(* Platform: the processor tables agree with what the system reported, for *)
(* any number of groups and processors, and what is allocated, opened and  *)
(* freed by any number of initializations is as the later calls expect.    *)
(***************************************************************************)
EXTENDS Platform, FiniteSetTheorems, TLAPS

(* Induction up to a number, for a set of numbers.  *)
LEMMA UpTo ==
    ASSUME NEW n \in Nat, NEW T, 0 \in T, \A k \in 0..(n - 1) : k \in T => k + 1 \in T
    PROVE  0..n \subseteq T
<1> DEFINE W == {k \in 0..n : k \notin T}
<1>1. SUFFICES ASSUME W # {}
               PROVE  FALSE
  OBVIOUS
<1>2. W \subseteq Nat
  OBVIOUS
<1>3. IsWellFoundedOn(OpToRel(<, Nat), Nat)
  BY NatLessThanWellFounded, Zenon
<1> HIDE DEF W
<1>4. PICK x \in W : \A y \in W : ~(<<y, x>> \in OpToRel(<, Nat))
  BY <1>1, <1>2, <1>3, WFMin, Zenon
<1>5. x \in 0..n /\ x \notin T /\ x # 0
  BY DEF W
<1>6. x - 1 \in 0..(n - 1) /\ x - 1 \in 0..n /\ (x - 1) + 1 = x /\ x - 1 < x /\ x - 1 \in Nat /\ x \in Nat
  BY <1>5
<1>7. x - 1 \notin T
  BY <1>5, <1>6
<1>8. x - 1 \in W
  BY <1>6, <1>7 DEF W
<1>9. <<x - 1, x>> \in OpToRel(<, Nat)
  BY <1>6 DEF OpToRel
<1>10. QED
  BY <1>4, <1>8, <1>9, Zenon

-----------------------------------------------------------------------------
(* The sums of a report.  *)

IsSum(r, n, f) == f = [g \in 0..n |-> IF g = 0 THEN 0 ELSE f[g - 1] + r[g]]

LEMMA SumExists ==
    ASSUME NEW r, NEW n \in Nat
    PROVE  \E f : IsSum(r, n, f)
<1> DEFINE T == {k \in Nat : \E f : IsSum(r, k, f)}
<1>1. 0 \in T
  <2> DEFINE f == [g \in 0..0 |-> 0]
  <2>1. f = [g \in 0..0 |-> IF g = 0 THEN 0 ELSE f[g - 1] + r[g]]
    OBVIOUS
  <2>2. IsSum(r, 0, f)
    BY <2>1 DEF IsSum
  <2> QED
    BY <2>2
<1>2. ASSUME NEW k \in 0..(n - 1), k \in T
      PROVE  k + 1 \in T
  <2>1. PICK f : IsSum(r, k, f)
    BY <1>2
  <2> DEFINE h == [g \in 0..(k + 1) |-> IF g = k + 1 THEN f[k] + r[g] ELSE f[g]]
             i == [g \in 0..(k + 1) |-> IF g = 0 THEN 0 ELSE h[g - 1] + r[g]]
  <2>2. k \in Nat /\ k + 1 \in Nat
    OBVIOUS
  <2>3. ASSUME NEW g \in 0..k
        PROVE  f[g] = IF g = 0 THEN 0 ELSE f[g - 1] + r[g]
    BY <2>1, <2>3 DEF IsSum
  <2>4. ASSUME NEW g \in 0..(k + 1)
        PROVE  h[g] = i[g]
    <3>1. CASE g = k + 1
      BY <2>2, <3>1
    <3>2. CASE g # k + 1 /\ g = 0
      BY <2>2, <2>3, <3>2
    <3>3. CASE g # k + 1 /\ g # 0
      <4>1. g \in 0..k /\ g - 1 \in 0..(k + 1) /\ g - 1 # k + 1
        BY <2>2, <3>3
      <4>2. h[g] = f[g] /\ h[g - 1] = f[g - 1]
        BY <3>3, <4>1
      <4> QED
        BY <2>3, <3>3, <4>1, <4>2
    <3> QED
      BY <3>1, <3>2, <3>3
  <2>5. h = i
    BY <2>4
  <2>6. IsSum(r, k + 1, h)
    BY <2>5 DEF IsSum
  <2> QED
    BY <2>2, <2>6
<1> HIDE DEF T
<1>3. 0..n \subseteq T
  BY <1>1, <1>2, UpTo
<1> QED
  BY <1>3 DEF T

LEMMA SumIs ==
    ASSUME NEW r \in Seq(Nat)
    PROVE  IsSum(r, Len(r), Before(r))
<1>1. Len(r) \in Nat
  OBVIOUS
<1>2. Before(r) = CHOOSE f : IsSum(r, Len(r), f)
  BY DEF Before, IsSum
<1> QED
  BY <1>1, <1>2, SumExists

LEMMA Sums ==
    ASSUME NEW r \in Seq(Nat)
    PROVE  /\ Before(r) \in [0..Len(r) -> Nat]
           /\ Before(r)[0] = 0
           /\ \A g \in 1..Len(r) : Before(r)[g] = Before(r)[g - 1] + r[g]
<1> DEFINE f == Before(r)
<1>1. f = [g \in 0..Len(r) |-> IF g = 0 THEN 0 ELSE f[g - 1] + r[g]]
  BY SumIs DEF IsSum
<1> HIDE DEF f
<1>2. Len(r) \in Nat /\ \A g \in 1..Len(r) : r[g] \in Nat
  OBVIOUS
<1>3. f[0] = 0 /\ \A g \in 1..Len(r) : f[g] = f[g - 1] + r[g]
  BY <1>1, <1>2, SMTT(20)
<1> DEFINE T == {g \in 0..Len(r) : f[g] \in Nat}
<1>4. 0 \in T
  BY <1>2, <1>3
<1>5. ASSUME NEW k \in 0..(Len(r) - 1), k \in T
      PROVE  k + 1 \in T
  <2>1. k + 1 \in 1..Len(r) /\ (k + 1) - 1 = k
    BY <1>2
  <2>2. f[k + 1] = f[k] + r[k + 1]
    BY <1>3, <2>1
  <2> QED
    BY <1>2, <1>5, <2>1, <2>2
<1> HIDE DEF T
<1>6. 0..Len(r) \subseteq T
  BY <1>2, <1>4, <1>5, UpTo, Zenon
<1>7. \A g \in 0..Len(r) : f[g] \in Nat
  BY <1>6 DEF T
<1> QED
  BY <1>1, <1>3, <1>7, Zenon DEF f

LEMMA SumsIncrease ==
    ASSUME NEW r \in Seq(Nat), NEW i \in 0..Len(r), NEW j \in 0..Len(r), i <= j
    PROVE  Before(r)[i] <= Before(r)[j]
<1> DEFINE f == Before(r)
           T == {k \in Nat : i + k <= Len(r) => f[i] <= f[i + k]}
<1>1. f \in [0..Len(r) -> Nat] /\ Len(r) \in Nat
  BY Sums
<1>2. \A g \in 1..Len(r) : f[g] = f[g - 1] + r[g] /\ r[g] \in Nat
  BY Sums
<1> HIDE DEF f
<1>3. i \in Nat /\ j \in Nat /\ f[i] \in Nat
  BY <1>1
<1>4. 0 \in T
  <2>1. i + 0 = i /\ f[i] <= f[i]
    BY <1>3
  <2> QED
    BY <2>1
<1>5. ASSUME NEW k \in 0..(j - i - 1), k \in T
      PROVE  k + 1 \in T
  <2>1. CASE i + (k + 1) <= Len(r)
    <3>1. /\ i + (k + 1) \in 1..Len(r) /\ (i + (k + 1)) - 1 = i + k
          /\ i + k \in 0..Len(r) /\ k \in Nat /\ i + k <= Len(r)
      BY <1>1, <2>1
    <3>2. f[i + (k + 1)] = f[i + k] + r[i + (k + 1)] /\ r[i + (k + 1)] \in Nat
      BY <1>2, <3>1
    <3>3. f[i] <= f[i + k] /\ f[i + k] \in Nat
      BY <1>1, <1>5, <3>1, Zenon
    <3> QED
      BY <1>3, <3>1, <3>2, <3>3
  <2> QED
    BY <2>1
<1> HIDE DEF T
<1>6. j - i \in Nat
  BY <1>3
<1>7. 0..(j - i) \subseteq T
  BY <1>4, <1>5, <1>6, UpTo, Zenon
<1>8. j - i \in T /\ i + (j - i) = j
  BY <1>3, <1>6, <1>7
<1> QED
  BY <1>8 DEF T, f

-----------------------------------------------------------------------------
(* The processor tables.  *)

Table == [proc \in 0..(Active - 1) |->
    LET g == Min(Owners(proc)) IN [Group |-> g, Index |-> proc - Groups[g].Offset]]

Filled == GroupInfo = Groups /\ CxPlatProcessorCount = Active /\ ProcInfo = Table

(* A processor of a group is found in that group and in no other.  *)
LEMMA OwnerIs ==
    ASSUME reported \in Seq(Nat), NEW g \in DOMAIN reported, NEW k \in 0..(reported[g] - 1), NEW i,
           i = Groups[g].Offset + k
    PROVE  /\ i \in 0..(Active - 1)
           /\ i - Groups[g].Offset = k
           /\ Min(Owners(i)) = g
<1> DEFINE f == Before(reported)
<1>1. f \in [0..Len(reported) -> Nat] /\ Len(reported) \in Nat
  BY Sums
<1>2. \A h \in 1..Len(reported) : f[h] = f[h - 1] + reported[h]
  BY Sums
<1>3. \A x, y \in 0..Len(reported) : x <= y => f[x] <= f[y]
  BY SumsIncrease
<1>4. /\ g \in 1..Len(reported) /\ g - 1 \in 0..Len(reported)
      /\ reported[g] \in Nat
  BY <1>1
<1>5. \A h \in 1..Len(reported) : Groups[h].Offset = f[h - 1]
  BY DEF Groups
<1>6. Active = f[Len(reported)]
  BY DEF Active
<1> HIDE DEF f
<1>7. f[g] = f[g - 1] + reported[g] /\ Groups[g].Offset = f[g - 1]
  BY <1>2, <1>4, <1>5
<1>8. f[g - 1] \in Nat /\ f[g] \in Nat /\ k \in Nat /\ k < reported[g]
  <2>1. f[g - 1] \in Nat /\ f[g] \in Nat
    BY <1>1, <1>4
  <2> QED
    BY <1>4, <2>1
<1> DEFINE low == f[g - 1]
           high == f[g]
<1>a. i = low + k /\ i \in Nat /\ low <= i /\ i < high /\ low \in Nat /\ high \in Nat /\ i - low = k
  <2>1. i = low + k
    BY <1>7
  <2>2. high = low + reported[g] /\ low \in Nat
    BY <1>7, <1>8
  <2>3. k \in Nat /\ k < reported[g] /\ reported[g] \in Nat
    BY <1>4, <1>8
  <2> DEFINE c == reported[g]
  <2> HIDE DEF low, high, c
  <2>4. high = low + c /\ low \in Nat /\ k \in Nat /\ k < c /\ c \in Nat
    BY <2>2, <2>3 DEF c
  <2> QED
    BY ONLY <2>1, <2>4
<1> HIDE DEF low, high
<1>9. i \in 0..(Active - 1)
  <2>1. f[g] <= f[Len(reported)] /\ f[Len(reported)] \in Nat
    BY <1>1, <1>3, <1>4
  <2>2. high <= Active /\ Active \in Nat
    BY <1>6, <2>1 DEF high
  <2> QED
    BY <1>a, <2>2
<1>10. i - Groups[g].Offset = k
  BY <1>7, <1>a DEF low
<1>11. ASSUME NEW h \in 1..Len(reported), i >= f[h - 1], i < f[h - 1] + reported[h]
       PROVE  h = g
  <2>1. f[h] = f[h - 1] + reported[h]
    BY <1>2
  <2>2. h - 1 \in 0..Len(reported) /\ h \in 0..Len(reported) /\ g \in 0..Len(reported) /\ h \in Int /\ g \in Int
    BY <1>1, <1>4, SMTT(20)
  <2>3. f[h - 1] \in Nat /\ f[h] \in Nat
    BY <1>1, <2>2, Zenon
  <2>4. CASE h < g
    <3>1. h <= g - 1
      BY <2>2, <2>4
    <3>2. f[h] <= low
      BY <1>3, <1>4, <2>2, <3>1, SMTT(20) DEF low
    <3>3. i < f[h]
      BY <1>11, <2>1
    <3> QED
      BY <1>a, <2>3, <3>2, <3>3
  <2>5. CASE h > g
    <3>1. g <= h - 1
      BY <2>2, <2>5
    <3>2. high <= f[h - 1]
      BY <1>3, <1>4, <2>2, <3>1, SMTT(20) DEF high
    <3>3. i >= f[h - 1] /\ f[h - 1] \in Nat
      BY <1>11, <2>3
    <3> DEFINE m == f[h - 1]
    <3> HIDE DEF m
    <3>4. i >= m /\ m \in Nat /\ high <= m
      BY <3>2, <3>3 DEF m
    <3> QED
      BY <1>a, <3>4
  <2> QED
    BY <2>2, <2>4, <2>5
<1>12. g \in Owners(i)
  BY <1>4, <1>7, <1>a, Zenon DEF Owners, low, high
<1>13. ASSUME NEW h \in Owners(i)
       PROVE  h = g
  <2>1. h \in 1..Len(reported) /\ i >= Groups[h].Offset /\ i < Groups[h].Offset + reported[h]
    BY DEF Owners
  <2> QED
    BY <1>5, <1>11, <2>1
<1>14. Owners(i) = {g}
  BY <1>12, <1>13
<1>15. Min({g}) = g
  <2>1. \E x \in {g} : \A y \in {g} : x <= y
    BY <1>4
  <2> QED
    BY <2>1 DEF Min
<1> QED
  BY <1>9, <1>10, <1>14, <1>15, Zenon

(* A thread's processor is found from its group and its number there.  *)
LEMMA Lookup ==
    ASSUME reported \in Seq(Nat), Filled, build.platform = "winuser",
           NEW g \in DOMAIN reported, reported[g] > 0, NEW n \in Nat
    PROVE  /\ g \in DOMAIN GroupInfo /\ GroupInfo[g].Count > 0
           /\ CxPlatProcCurrentNumber(g, n) \in 0..(CxPlatProcessorCount - 1)
           /\ ProcInfo[CxPlatProcCurrentNumber(g, n)] = [Group |-> g, Index |-> n % GroupInfo[g].Count]
<1> DEFINE k == n % reported[g]
           i == CxPlatProcCurrentNumber(g, n)
<1>1. GroupInfo = Groups /\ CxPlatProcessorCount = Active /\ ProcInfo = Table
  BY DEF Filled
<1>2. g \in DOMAIN GroupInfo /\ GroupInfo[g].Count = reported[g]
  BY <1>1 DEF Groups
<1>3. reported[g] \in Nat
  OBVIOUS
<1>4. k \in 0..(reported[g] - 1)
  BY <1>3
<1>5. i = Groups[g].Offset + k
  BY <1>1, <1>2 DEF CxPlatProcCurrentNumber
<1> HIDE DEF i, k
<1>6. i \in 0..(Active - 1) /\ i - Groups[g].Offset = k /\ Min(Owners(i)) = g
  BY <1>4, <1>5, OwnerIs
<1>7. Table[i] = [Group |-> g, Index |-> k]
  BY <1>6 DEF Table
<1> QED
  BY <1>1, <1>2, <1>6, <1>7 DEF i, k

-----------------------------------------------------------------------------
(* The inductive invariant.  *)

Before_report == {"size", "info", "query"}

With_buffer == {"query", "count", "proc", "group", "tables"}

User_steps == {"size", "info", "query", "count", "proc", "group", "tables", "error", "heap"}

Posix_steps == {"numa", "open"}

Down == pc = "idle" /\ up = FALSE

\* CxPlatProcessorInfoInit is about to succeed, or it has.
Succeeded == (pc = "error" /\ Status = "success") \/ up = TRUE

Typed ==
    /\ build \in Builds /\ up \in BOOLEAN /\ grown \in BOOLEAN /\ Status \in {"success", "failure"}
    /\ memory \in [Blocks -> {"free", "tmp", "proc"}]
    /\ reported \in Seq(Nat) /\ system \in Seq(Nat)
    /\ failures \in Nat

Placed ==
    /\ pc \in {"idle"} \cup User_steps \cup Posix_steps
    /\ pc \in User_steps => build.platform = "winuser"
    /\ pc \in Posix_steps => build.platform = "posix"
    /\ pc = "numa" => build.numa = TRUE
    /\ up = TRUE => pc = "idle"

(* Windows user mode: the blocks of the tables, the block of the buffer,   *)
(* and the tables themselves.                                              *)
Owns_tables ==
    /\ CxPlatProcessorInfo \in Blocks \cup {Null} /\ CxPlatProcessorGroupInfo \in Blocks \cup {Null}
    /\ CxPlatProcessorInfo = CxPlatProcessorGroupInfo => CxPlatProcessorInfo = Null
    /\ \A b \in Blocks : memory[b] = "proc" <=> b \in {CxPlatProcessorInfo, CxPlatProcessorGroupInfo}
    /\ Down \/ pc \in Before_report \cup {"count", "proc", "heap"} =>
          CxPlatProcessorInfo = Null /\ CxPlatProcessorGroupInfo = Null
    /\ pc = "group" => CxPlatProcessorGroupInfo = Null /\ CxPlatProcessorInfo # Null
    /\ pc = "tables" \/ Succeeded => CxPlatProcessorInfo # Null /\ CxPlatProcessorGroupInfo # Null

Owns_buffer ==
    /\ \A b \in Blocks : memory[b] = "tmp" => b = Info /\ pc \in With_buffer \cup {"error"}
    /\ pc \in {"size", "info"} => Info = Null
    /\ pc \in With_buffer => Info \in Blocks /\ memory[Info] = "tmp"
    /\ pc = "error" => \/ Info = Null
                       \/ Info \in Blocks /\ memory[Info] = "tmp"
                       \/ Info \in Blocks /\ memory[Info] = "free" /\ reported = <<>>
    /\ pc \in Before_report => reported = <<>>

Reported ==
    /\ pc \in {"proc", "group", "tables"} \/ Succeeded => Active \in 1..MaxProcessors
    /\ Succeeded => Filled
    /\ (pc \in {"count", "proc", "group", "tables"} \/ Succeeded) /\ grown = FALSE =>
          \A g \in DOMAIN system : system[g] > 0 => g \in DOMAIN reported /\ reported[g] > 0

User ==
    /\ Down => Heap = "none"
    /\ ~Down => Heap = "open"
    /\ RandomFd = "none" /\ RngAlgorithm = "none"
    /\ Owns_tables /\ Owns_buffer /\ Reported

(* Elsewhere: the random generator and the NUMA masks.  *)
Held == {b \in Blocks : memory[b] # "free"}

Leaked ==
    \/ Cardinality(Held) <= failures
    \/ /\ up = TRUE \/ pc = "open"
       /\ build.numa = TRUE /\ CxPlatNumaNodeMasks \in Held
       /\ Cardinality(Held \ {CxPlatNumaNodeMasks}) <= failures

Posix ==
    /\ RngAlgorithm = "none"
    /\ up = TRUE => RandomFd = "open"
    /\ up = FALSE => RandomFd # "open"
    /\ CxPlatNumaNodeMasks \in Blocks \cup {Null} /\ \A b \in Blocks : memory[b] # "tmp"
    /\ Leaked

Kernel ==
    /\ RandomFd = "none" /\ Held = {}
    /\ up = TRUE => RngAlgorithm = "open"
    /\ up = FALSE => RngAlgorithm = "none"

MaxCount == IF build.platform = "posix" THEN UINT32_MAX ELSE MaxProcessors

(* The largest numbers of processors.  *)
LEMMA Counts_are == MaxCount \in Nat \ {0} /\ MaxProcessors <= UINT32_MAX /\ UINT32_MAX \in Nat \ {0}
<1>1. (MaxProcessors + 1) * (MaxProcessors + 1) = MaxProcessors * MaxProcessors + 2 * MaxProcessors + 1
  BY PlatformAssumption
<1>2. MaxProcessors * MaxProcessors \in Nat
  BY PlatformAssumption
<1>3. UINT32_MAX \in Nat /\ MaxProcessors <= UINT32_MAX
  BY <1>1, <1>2, PlatformAssumption DEF UINT32_MAX
<1> QED
  BY <1>3, PlatformAssumption DEF MaxCount

Other ==
    /\ Heap = "none" /\ CxPlatProcessorInfo = Null /\ CxPlatProcessorGroupInfo = Null
    /\ ~Down => CxPlatProcessorCount \in 1..MaxCount

IInv ==
    /\ Typed /\ Placed
    /\ build.platform = "winuser" => User
    /\ build.platform = "posix" => Other /\ Posix
    /\ build.platform = "winkernel" => Other /\ Kernel
    /\ StopsAreKnown

-----------------------------------------------------------------------------
(* It implies the properties.  *)

LEMMA Builds_are ==
    ASSUME Typed
    PROVE  /\ build.platform \in {"winuser", "posix", "winkernel"}
           /\ build.debug \in BOOLEAN /\ build.numa \in BOOLEAN
  BY PlatformAssumption DEF Typed

LEMMA TablesAgree ==
    ASSUME IInv
    PROVE  ProcessorTablesAgree
<1>1. Typed /\ Placed /\ build.platform \in {"winuser", "posix", "winkernel"}
  BY Builds_are DEF IInv
<1>2. ASSUME up
      PROVE  CxPlatProcessorCount \in 1..MaxCount
  <2>1. CASE build.platform = "winuser"
    BY <1>2, <2>1 DEF IInv, User, Reported, Succeeded, Filled, MaxCount
  <2>2. CASE build.platform # "winuser"
    BY <1>1, <1>2, <2>2 DEF IInv, Other, Down
  <2> QED
    BY <2>1, <2>2
<1>3. ASSUME up, build.platform = "winuser", ~grown,
             NEW g \in {h \in DOMAIN system : system[h] > 0}, NEW n \in 0..MaxNumber
      PROVE  /\ g \in DOMAIN GroupInfo /\ GroupInfo[g].Count > 0
             /\ CxPlatProcCurrentNumber(g, n) \in 0..(CxPlatProcessorCount - 1)
             /\ ProcInfo[CxPlatProcCurrentNumber(g, n)] = [Group |-> g, Index |-> n % GroupInfo[g].Count]
  <2>1. Reported /\ Succeeded /\ grown = FALSE
    BY <1>1, <1>3 DEF IInv, User, Succeeded, Typed
  <2>2. Filled /\ g \in DOMAIN reported /\ reported[g] > 0
    BY <2>1 DEF Reported
  <2>3. reported \in Seq(Nat) /\ n \in Nat
    BY <1>1, PlatformAssumption DEF Typed
  <2> QED
    BY <1>3, <2>2, <2>3, Lookup
<1>4. ASSUME up, build.platform # "winuser", NEW n \in 0..MaxNumber
      PROVE  CxPlatProcCurrentNumber(1, n) \in 0..(CxPlatProcessorCount - 1)
  <2>1. CxPlatProcessorCount \in Nat \ {0} /\ n \in Nat
    BY <1>2, <1>4, Counts_are, PlatformAssumption
  <2>2. n % CxPlatProcessorCount \in 0..(CxPlatProcessorCount - 1)
    BY <2>1
  <2> QED
    BY <1>4, <2>2 DEF CxPlatProcCurrentNumber
<1> QED
  BY <1>2, <1>3, <1>4, Zenon DEF ProcessorTablesAgree, MaxCount

LEMMA HeldUp ==
    ASSUME IInv
    PROVE  HeldWhileUp
<1>1. Typed /\ build.platform \in {"winuser", "posix", "winkernel"}
  BY Builds_are DEF IInv
<1>2. SUFFICES ASSUME up, pc = "idle"
               PROVE  CASE build.platform = "winuser" ->
                             /\ Heap = "open"
                             /\ CxPlatProcessorInfo # CxPlatProcessorGroupInfo
                             /\ \A b \in Blocks : memory[b] = "proc" <=> b \in {CxPlatProcessorInfo, CxPlatProcessorGroupInfo}
                        [] build.platform = "posix" -> RandomFd = "open"
                        [] OTHER -> RngAlgorithm = "open"
  BY Zenon DEF HeldWhileUp
<1>3. CASE build.platform = "winuser"
  <2>1. /\ Heap = "open"
        /\ CxPlatProcessorInfo # CxPlatProcessorGroupInfo
        /\ \A b \in Blocks : memory[b] = "proc" <=> b \in {CxPlatProcessorInfo, CxPlatProcessorGroupInfo}
    BY <1>1, <1>2, <1>3 DEF IInv, User, Owns_tables, Succeeded, Down
  <2>2. build.platform # "posix"
    BY <1>3
  <2> QED
    BY <1>3, <2>1, <2>2, Zenon
<1>4. CASE build.platform = "posix"
  <2>1. RandomFd = "open" /\ build.platform # "winuser"
    BY <1>1, <1>2, <1>4 DEF IInv, Posix
  <2> QED
    BY <1>4, <2>1, Zenon
<1>5. CASE build.platform = "winkernel"
  <2>1. RngAlgorithm = "open" /\ build.platform # "winuser" /\ build.platform # "posix"
    BY <1>1, <1>2, <1>5 DEF IInv, Kernel
  <2> QED
    BY <2>1, Zenon
<1> QED
  BY <1>1, <1>3, <1>4, <1>5

LEMMA NothingHeld ==
    ASSUME IInv
    PROVE  NothingHeldWhileDown
<1>1. Typed /\ build.platform \in {"winuser", "posix", "winkernel"} /\ failures \in Nat
  BY Builds_are DEF IInv, Typed
<1>2. SUFFICES ASSUME up = FALSE, pc = "idle"
               PROVE  /\ Heap = "none" /\ RngAlgorithm = "none" /\ RandomFd # "open"
                      /\ CxPlatProcessorInfo = Null /\ CxPlatProcessorGroupInfo = Null
                      /\ Cardinality(Held) <= failures
  BY <1>1, Zenon DEF NothingHeldWhileDown, Held, Typed
<1>3. Held = {} => Cardinality(Held) <= failures
  BY <1>1, FS_EmptySet
<1>4. CASE build.platform = "winuser"
  <2>1. User
    BY <1>4 DEF IInv
  <2>2. /\ Heap = "none" /\ RngAlgorithm = "none" /\ RandomFd # "open"
        /\ CxPlatProcessorInfo = Null /\ CxPlatProcessorGroupInfo = Null
    BY <1>2, <2>1 DEF User, Owns_tables, Down
  <2>3. Held = {}
    BY <1>1, <1>2, <2>1, <2>2, PlatformAssumption
       DEF User, Owns_tables, Owns_buffer, Held, With_buffer, Typed
  <2> QED
    BY <1>3, <2>2, <2>3
<1>5. CASE build.platform = "posix"
  BY <1>1, <1>2, <1>5 DEF IInv, Other, Posix, Leaked
<1>6. CASE build.platform = "winkernel"
  BY <1>1, <1>2, <1>3, <1>6 DEF IInv, Other, Kernel
<1> QED
  BY <1>1, <1>4, <1>5, <1>6

-----------------------------------------------------------------------------
(* It holds initially and every step keeps it.  *)

LEMMA InitInv == Init => IInv
<1> SUFFICES ASSUME Init
             PROVE  IInv
  OBVIOUS
<1>1. Typed /\ Placed
  <2>1. reported \in Seq(Nat) /\ system \in Seq(Nat)
    BY PlatformAssumption DEF Init
  <2>2. memory \in [Blocks -> {"free", "tmp", "proc"}]
    BY DEF Init
  <2>3. Placed
    BY DEF Init, Placed, User_steps, Posix_steps
  <2> QED
    BY <2>1, <2>2, <2>3, Zenon DEF Init, Typed
<1>2. Held = {} /\ Cardinality(Held) = 0
  <2>1. Held = {}
    BY DEF Init, Held
  <2> QED
    BY <2>1, FS_EmptySet
<1>3. User
  <2>1. Owns_tables
    BY PlatformAssumption DEF Init, Owns_tables, Succeeded, Before_report
  <2>2. Owns_buffer
    BY DEF Init, Owns_buffer, Before_report, With_buffer
  <2>3. Reported
    BY DEF Init, Reported, Succeeded
  <2> QED
    BY <2>1, <2>2, <2>3 DEF Init, User, Down
<1>4. Other /\ Posix /\ Kernel
  BY <1>2 DEF Init, Other, Posix, Kernel, Leaked, Down
<1>5. StopsAreKnown
  BY DEF Init, StopsAreKnown
<1> QED
  BY <1>1, <1>3, <1>4, <1>5 DEF IInv

(* A step of one platform.  *)
LEMMA UserStep ==
    ASSUME build.platform = "winuser", build' = build, Typed', Placed', User', StopsAreKnown'
    PROVE  IInv'
  BY DEF IInv

LEMMA PosixStep ==
    ASSUME build.platform = "posix", build' = build, Typed', Placed', Other', Posix', StopsAreKnown'
    PROVE  IInv'
  BY DEF IInv

LEMMA KernelStep ==
    ASSUME build.platform = "winkernel", build' = build, Typed', Placed', Other', Kernel', StopsAreKnown'
    PROVE  IInv'
  BY DEF IInv

LEMMA NotStopped ==
    ASSUME stopped' = "no"
    PROVE  StopsAreKnown'
  BY DEF StopsAreKnown

(* The tables and the report stay as they are.  *)
LEMMA SameTables ==
    ASSUME UNCHANGED <<reported, GroupInfo, ProcInfo, CxPlatProcessorCount>>
    PROVE  Active' = Active /\ (Filled' <=> Filled)
<1>1. Active' = Active
  BY DEF Active
<1>2. Groups' = Groups
  BY DEF Groups
<1>3. Table' = Table
  BY <1>1, <1>2 DEF Table, Owners
<1> QED
  BY <1>1, <1>2, <1>3 DEF Filled

(* The program is stopped: nothing else changes.  *)
LEMMA StopStep ==
    ASSUME IInv, NEW why, Stop(why), StopsAreKnown'
    PROVE  IInv'
<1>1. /\ UNCHANGED <<build, up, pc, Status, Heap, RandomFd, RngAlgorithm, memory, Info, reported, system, grown>>
      /\ UNCHANGED <<CxPlatProcessorInfo, CxPlatProcessorGroupInfo, ProcInfo, GroupInfo, CxPlatProcessorCount>>
      /\ UNCHANGED <<CxPlatNumaNodeMasks, failures>>
  BY DEF Stop, control, handles, buffer, tables
<1>2. Active' = Active /\ (Filled' <=> Filled)
  BY <1>1, SameTables
<1>3. (Down' <=> Down) /\ (Succeeded' <=> Succeeded) /\ Held' = Held
  BY <1>1 DEF Down, Succeeded, Held
<1>4. Typed' /\ Placed'
  BY <1>1 DEF IInv, Typed, Placed
<1>5. build.platform = "winuser" => User'
  <2>1. User => Owns_tables'
    BY <1>1, <1>3 DEF User, Owns_tables
  <2>2. User => Owns_buffer'
    BY <1>1 DEF User, Owns_buffer
  <2>3. User => Reported'
    BY <1>1, <1>2, <1>3 DEF User, Reported
  <2> QED
    BY <1>1, <1>3, <2>1, <2>2, <2>3 DEF IInv, User
<1>6. /\ Other => Other'
      /\ Posix => Posix'
      /\ Kernel => Kernel'
  BY <1>1, <1>3 DEF Other, MaxCount, Posix, Kernel, Leaked
<1> QED
  BY <1>1, <1>4, <1>5, <1>6 DEF IInv

LEMMA Returns ==
    ASSUME NEW status, Return(status)
    PROVE  /\ pc' = "idle" /\ Status' = status /\ UNCHANGED <<build, stopped>>
           /\ status = "success" => up' = TRUE
           /\ status = "failure" => up' = FALSE
           /\ pc # "open" => failures' = failures
<1>1. status = "success" => up' = TRUE
  BY Zenon DEF Return
<1>2. status = "failure" => up' = FALSE
  BY Zenon DEF Return
<1> QED
  BY <1>1, <1>2 DEF Return

(* What the steps of CxPlatProcessorInfoInit start from.  *)
LEMMA AtUserStep ==
    ASSUME IInv, NEW step \in User_steps, At(step)
    PROVE  /\ build.platform = "winuser" /\ User
           /\ pc = step /\ up = FALSE /\ stopped = "no" /\ Heap = "open"
<1>1. pc = step /\ stopped = "no"
  BY DEF At
<1>2. build.platform = "winuser" /\ up = FALSE
  BY <1>1 DEF IInv, Placed, Typed, User_steps
<1>3. pc # "idle"
  BY <1>1 DEF User_steps
<1> QED
  BY <1>1, <1>2, <1>3 DEF IInv, User, Down

LEMMA Initialize_winuserStep ==
    ASSUME IInv, Initialize_winuser
    PROVE  IInv'
<1>1. /\ pc = "idle" /\ up = FALSE /\ stopped = "no" /\ build.platform = "winuser" /\ Down
      /\ Info' = Null /\ reported' = <<>>
      /\ UNCHANGED <<RandomFd, RngAlgorithm, memory, system, grown, CxPlatProcessorInfo, CxPlatProcessorGroupInfo>>
  BY DEF Initialize_winuser, At, IInv, Typed, tables, Down
<1>2. Typed /\ User /\ Owns_tables /\ Owns_buffer
  BY <1>1 DEF IInv, User
<1>3. /\ up' = FALSE /\ UNCHANGED <<build, stopped, failures>>
      /\ \/ Heap' = "open" /\ pc' = "size" /\ Status' = "success"
         \/ Heap' = "none" /\ pc' = "idle" /\ Status' = "failure"
  <2>1. CASE Heap' = "open" /\ Goto("size", "success")
    BY <1>1, <2>1 DEF Goto
  <2>2. CASE Heap' = "none" /\ Return("failure")
    BY <1>1, <2>2, Returns, Zenon
  <2> QED
    BY <2>1, <2>2, Zenon DEF Initialize_winuser
<1>4. Typed'
  <2>1. reported' \in Seq(Nat)
    BY <1>1
  <2> QED
    BY <1>1, <1>2, <1>3, <2>1, Zenon DEF Typed
<1>5. Placed'
  BY <1>1, <1>3 DEF Placed, User_steps, Posix_steps
<1>6. User'
  <2>1. Owns_tables'
    BY <1>1, <1>2, <1>3 DEF Owns_tables, Succeeded
  <2>2. Owns_buffer'
    BY <1>1, <1>2, <1>3 DEF Owns_buffer, With_buffer, Before_report
  <2>3. Reported'
    BY <1>3 DEF Reported, Succeeded
  <2> QED
    BY <1>1, <1>2, <1>3, <2>1, <2>2, <2>3 DEF User, Down
<1> QED
  BY <1>1, <1>3, <1>4, <1>5, <1>6, UserStep, NotStopped

LEMMA QuerySizeStep ==
    ASSUME IInv, QuerySize
    PROVE  IInv'
<1>1. At("size") /\ "size" \in User_steps
  BY DEF QuerySize, User_steps
<1>2. build.platform = "winuser" /\ User /\ pc = "size" /\ up = FALSE /\ stopped = "no" /\ Heap = "open"
  BY <1>1, AtUserStep, Zenon
<1>3. Typed /\ Owns_tables /\ Owns_buffer
  BY <1>2 DEF IInv, User
<1>4. /\ UNCHANGED <<build, up, stopped, failures, Heap, RandomFd, RngAlgorithm, memory, Info, reported, system, grown>>
      /\ UNCHANGED <<CxPlatProcessorInfo, CxPlatProcessorGroupInfo>>
      /\ \/ pc' = "info" /\ Status' = "success"
         \/ pc' = "error" /\ Status' = "failure"
  BY DEF QuerySize, Goto, handles, buffer, tables
<1>5. Typed'
  BY <1>3, <1>4 DEF Typed
<1>6. Placed'
  BY <1>2, <1>4 DEF Placed, User_steps, Posix_steps
<1>7. User'
  <2>1. Owns_tables'
    BY <1>2, <1>3, <1>4 DEF Owns_tables, Succeeded, Before_report
  <2>2. Owns_buffer'
    BY <1>2, <1>3, <1>4 DEF Owns_buffer, With_buffer, Before_report
  <2>3. Reported'
    BY <1>2, <1>4 DEF Reported, Succeeded
  <2> QED
    BY <1>2, <1>4, <2>1, <2>2, <2>3 DEF User, Down
<1> QED
  BY <1>2, <1>4, <1>5, <1>6, <1>7, UserStep, NotStopped

LEMMA AllocInfoStep ==
    ASSUME IInv, AllocInfo
    PROVE  IInv'
<1>1. At("info") /\ "info" \in User_steps
  BY DEF AllocInfo, User_steps
<1>2. build.platform = "winuser" /\ User /\ pc = "info" /\ up = FALSE /\ stopped = "no" /\ Heap = "open"
  BY <1>1, AtUserStep, Zenon
<1>3. Typed /\ Owns_tables /\ Owns_buffer
  BY <1>2 DEF IInv, User
<1>4. /\ UNCHANGED <<build, up, stopped, failures, Heap, RandomFd, RngAlgorithm, reported, system, grown>>
      /\ UNCHANGED <<CxPlatProcessorInfo, CxPlatProcessorGroupInfo>>
      /\ \/ /\ pc' = "query" /\ Status' = "success"
            /\ \E b \in Blocks : memory[b] = "free" /\ memory' = [memory EXCEPT ![b] = "tmp"] /\ Info' = b
         \/ pc' = "error" /\ Status' = "failure" /\ UNCHANGED <<memory, Info>>
  BY DEF AllocInfo, Goto, CxPlatAlloc, handles, tables
<1>5. Typed'
  BY <1>3, <1>4 DEF Typed
<1>6. Placed'
  BY <1>2, <1>4 DEF Placed, User_steps, Posix_steps
<1>7. Reported'
  BY <1>2, <1>4 DEF Reported, Succeeded
<1>8. CASE pc' = "error" /\ Status' = "failure" /\ UNCHANGED <<memory, Info>>
  <2>1. Owns_tables'
    BY <1>2, <1>3, <1>4, <1>8 DEF Owns_tables, Succeeded, Before_report
  <2>2. Owns_buffer'
    BY <1>2, <1>3, <1>4, <1>8 DEF Owns_buffer, With_buffer, Before_report
  <2>3. User'
    BY <1>2, <1>4, <1>7, <1>8, <2>1, <2>2 DEF User, Down
  <2> QED
    BY <1>2, <1>4, <1>5, <1>6, <2>3, UserStep, NotStopped
<1>9. CASE /\ pc' = "query" /\ Status' = "success"
           /\ \E b \in Blocks : memory[b] = "free" /\ memory' = [memory EXCEPT ![b] = "tmp"] /\ Info' = b
  <2>1. PICK b \in Blocks : memory[b] = "free" /\ memory' = [memory EXCEPT ![b] = "tmp"] /\ Info' = b
    BY <1>9, Zenon
  <2>2. memory'[b] = "tmp" /\ \A x \in Blocks : x # b => memory'[x] = memory[x]
    BY <1>3, <2>1 DEF Typed
  <2>3. Owns_tables'
    BY <1>2, <1>3, <1>4, <1>9, <2>1, <2>2 DEF Owns_tables, Succeeded, Before_report
  <2>4. Owns_buffer'
    BY <1>2, <1>3, <1>4, <1>9, <2>1, <2>2 DEF Owns_buffer, With_buffer, Before_report
  <2>5. User'
    BY <1>2, <1>4, <1>7, <1>9, <2>3, <2>4 DEF User, Down
  <2> QED
    BY <1>2, <1>4, <1>5, <1>6, <2>5, UserStep, NotStopped
<1> QED
  BY <1>4, <1>8, <1>9

LEMMA QueryInfoStep ==
    ASSUME IInv, QueryInfo
    PROVE  IInv'
<1>1. At("query") /\ "query" \in User_steps
  BY DEF QueryInfo, User_steps
<1>2. build.platform = "winuser" /\ User /\ pc = "query" /\ up = FALSE /\ stopped = "no" /\ Heap = "open"
  BY <1>1, AtUserStep, Zenon
<1>3. Typed /\ Owns_tables /\ Owns_buffer
  BY <1>2 DEF IInv, User
<1>4. /\ UNCHANGED <<build, up, stopped, failures, Heap, RandomFd, RngAlgorithm, Info, system>>
      /\ UNCHANGED <<CxPlatProcessorInfo, CxPlatProcessorGroupInfo>>
      /\ \/ pc' = "count" /\ Status' = "success" /\ reported' = system /\ grown' = FALSE /\ memory' = memory
         \/ /\ pc' = "error" /\ Status' = "failure" /\ UNCHANGED <<reported, grown>>
            /\ memory' = [b \in Blocks |-> IF b = Info THEN "free" ELSE memory[b]]
  BY DEF QueryInfo, Goto, CxPlatFree, handles, tables
<1>5. Typed'
  BY <1>3, <1>4, Zenon DEF Typed
<1>6. Placed'
  BY <1>2, <1>4 DEF Placed, User_steps, Posix_steps
<1>7. Reported'
  BY <1>2, <1>3, <1>4 DEF Reported, Succeeded, Typed
<1>8. Owns_tables'
  BY <1>2, <1>3, <1>4 DEF Owns_tables, Owns_buffer, Succeeded, Before_report, With_buffer
<1>9. Owns_buffer'
  BY <1>2, <1>3, <1>4 DEF Owns_buffer, With_buffer, Before_report
<1>10. User'
  BY <1>2, <1>4, <1>7, <1>8, <1>9 DEF User, Down
<1> QED
  BY <1>2, <1>4, <1>5, <1>6, <1>10, UserStep, NotStopped

LEMMA CountProcessorsStep ==
    ASSUME IInv, CountProcessors
    PROVE  IInv'
<1>1. At("count") /\ "count" \in User_steps
  BY DEF CountProcessors, User_steps
<1>2. build.platform = "winuser" /\ User /\ pc = "count" /\ up = FALSE /\ stopped = "no" /\ Heap = "open"
  BY <1>1, AtUserStep, Zenon
<1>3. Typed /\ Owns_tables /\ Owns_buffer /\ Reported
  BY <1>2 DEF IInv, User
<1>4. CASE Stop("assert")
  <2>1. StopsAreKnown'
    BY <1>4 DEF Stop, StopsAreKnown
  <2> QED
    BY <1>4, <2>1, StopStep
<1>5. ASSUME /\ UNCHANGED <<build, up, stopped, failures, Heap, RandomFd, RngAlgorithm, memory, Info, reported, system, grown>>
             /\ UNCHANGED <<CxPlatProcessorInfo, CxPlatProcessorGroupInfo, GroupInfo, ProcInfo, CxPlatProcessorCount>>
             /\ \/ pc' = "proc" /\ Status' = "success" /\ Active > 0 /\ Active <= MaxProcessors
                \/ pc' = "error" /\ Status' = "failure"
      PROVE  IInv'
  <2>1. Typed'
    BY <1>3, <1>5 DEF Typed
  <2>2. Placed'
    BY <1>2, <1>5 DEF Placed, User_steps, Posix_steps
  <2>3. Active \in Nat /\ Active' = Active
    <3>1. reported \in Seq(Nat) /\ Len(reported) \in 0..Len(reported)
      BY <1>3 DEF Typed
    <3>2. Active \in Nat
      BY <3>1, Sums DEF Active
    <3> QED
      BY <1>5, <3>2, SameTables
  <2>4. Reported'
    BY <1>2, <1>3, <1>5, <2>3, PlatformAssumption DEF Reported, Succeeded
  <2>5. Owns_tables'
    BY <1>2, <1>3, <1>5 DEF Owns_tables, Succeeded, Before_report
  <2>6. Owns_buffer'
    BY <1>2, <1>3, <1>5 DEF Owns_buffer, With_buffer, Before_report
  <2>7. User'
    BY <1>2, <1>5, <2>4, <2>5, <2>6 DEF User, Down
  <2> QED
    BY <1>2, <1>5, <2>1, <2>2, <2>7, UserStep, NotStopped
<1>6. \/ Stop("assert")
      \/ /\ UNCHANGED <<build, up, stopped, failures, Heap, RandomFd, RngAlgorithm, memory, Info, reported, system, grown>>
         /\ UNCHANGED <<CxPlatProcessorInfo, CxPlatProcessorGroupInfo, GroupInfo, ProcInfo, CxPlatProcessorCount>>
         /\ \/ pc' = "proc" /\ Status' = "success" /\ Active > 0 /\ Active <= MaxProcessors
            \/ pc' = "error" /\ Status' = "failure"
  BY DEF CountProcessors, Goto, handles, buffer, tables
<1> QED
  BY <1>4, <1>5, <1>6

LEMMA AllocProcessorInfoStep ==
    ASSUME IInv, AllocProcessorInfo
    PROVE  IInv'
<1>1. At("proc") /\ "proc" \in User_steps
  BY DEF AllocProcessorInfo, User_steps
<1>2. build.platform = "winuser" /\ User /\ pc = "proc" /\ up = FALSE /\ stopped = "no" /\ Heap = "open"
  BY <1>1, AtUserStep, Zenon
<1>3. Typed /\ Owns_tables /\ Owns_buffer /\ Reported
  BY <1>2 DEF IInv, User
<1>4. CxPlatProcessorInfo = Null /\ CxPlatProcessorGroupInfo = Null
  BY <1>2, <1>3 DEF Owns_tables
<1>5. /\ UNCHANGED <<build, up, stopped, failures, Heap, RandomFd, RngAlgorithm, Info, reported, system, grown>>
      /\ UNCHANGED <<CxPlatProcessorGroupInfo, GroupInfo, ProcInfo, CxPlatProcessorCount>>
      /\ \/ /\ pc' = "group" /\ Status' = "success"
            /\ \E b \in Blocks : memory[b] = "free" /\ memory' = [memory EXCEPT ![b] = "proc"] /\ CxPlatProcessorInfo' = b
         \/ pc' = "error" /\ Status' = "failure" /\ UNCHANGED <<memory, CxPlatProcessorInfo>>
  BY <1>4 DEF AllocProcessorInfo, Goto, CxPlatAlloc, handles, buffer
<1>6. Typed'
  BY <1>3, <1>5 DEF Typed
<1>7. Placed'
  BY <1>2, <1>5 DEF Placed, User_steps, Posix_steps
<1>8. Reported'
  <2>1. Active' = Active
    BY <1>5, SameTables
  <2> QED
    BY <1>2, <1>3, <1>5, <2>1 DEF Reported, Succeeded
<1>9. CASE pc' = "error" /\ Status' = "failure" /\ UNCHANGED <<memory, CxPlatProcessorInfo>>
  <2>1. Owns_tables'
    BY <1>2, <1>3, <1>5, <1>9 DEF Owns_tables, Succeeded, Before_report
  <2>2. Owns_buffer'
    BY <1>2, <1>3, <1>5, <1>9 DEF Owns_buffer, With_buffer, Before_report
  <2>3. User'
    BY <1>2, <1>5, <1>8, <1>9, <2>1, <2>2 DEF User, Down
  <2> QED
    BY <1>2, <1>5, <1>6, <1>7, <2>3, UserStep, NotStopped
<1>10. CASE /\ pc' = "group" /\ Status' = "success"
            /\ \E b \in Blocks : memory[b] = "free" /\ memory' = [memory EXCEPT ![b] = "proc"] /\ CxPlatProcessorInfo' = b
  <2>1. PICK b \in Blocks : memory[b] = "free" /\ memory' = [memory EXCEPT ![b] = "proc"] /\ CxPlatProcessorInfo' = b
    BY <1>10, Zenon
  <2>2. memory'[b] = "proc" /\ \A x \in Blocks : x # b => memory'[x] = memory[x]
    BY <1>3, <2>1 DEF Typed
  <2>3. b # Null
    BY PlatformAssumption
  <2>4. Owns_tables'
    BY <1>2, <1>3, <1>4, <1>5, <1>10, <2>1, <2>2, <2>3 DEF Owns_tables, Succeeded, Before_report, Down
  <2>5. Owns_buffer'
    BY <1>2, <1>3, <1>5, <1>10, <2>1, <2>2 DEF Owns_buffer, With_buffer, Before_report
  <2>6. User'
    BY <1>2, <1>5, <1>8, <1>10, <2>4, <2>5 DEF User, Down
  <2> QED
    BY <1>2, <1>5, <1>6, <1>7, <2>6, UserStep, NotStopped
<1> QED
  BY <1>5, <1>9, <1>10

LEMMA AllocGroupInfoStep ==
    ASSUME IInv, AllocGroupInfo
    PROVE  IInv'
<1>1. At("group") /\ "group" \in User_steps
  BY DEF AllocGroupInfo, User_steps
<1>2. build.platform = "winuser" /\ User /\ pc = "group" /\ up = FALSE /\ stopped = "no" /\ Heap = "open"
  BY <1>1, AtUserStep, Zenon
<1>3. Typed /\ Owns_tables /\ Owns_buffer /\ Reported
  BY <1>2 DEF IInv, User
<1>4. CxPlatProcessorInfo \in Blocks /\ CxPlatProcessorGroupInfo = Null
  BY <1>2, <1>3 DEF Owns_tables
<1>5. /\ UNCHANGED <<build, up, stopped, failures, Heap, RandomFd, RngAlgorithm, Info, reported, system, grown>>
      /\ UNCHANGED <<CxPlatProcessorInfo, GroupInfo, ProcInfo, CxPlatProcessorCount>>
      /\ \/ /\ pc' = "tables" /\ Status' = "success"
            /\ \E b \in Blocks : memory[b] = "free" /\ memory' = [memory EXCEPT ![b] = "proc"] /\ CxPlatProcessorGroupInfo' = b
         \/ pc' = "error" /\ Status' = "failure" /\ memory' = memory /\ CxPlatProcessorGroupInfo' = Null
  BY <1>4 DEF AllocGroupInfo, Goto, CxPlatAlloc, handles, buffer
<1>6. Typed'
  BY <1>3, <1>5 DEF Typed
<1>7. Placed'
  BY <1>2, <1>5 DEF Placed, User_steps, Posix_steps
<1>8. Reported'
  <2>1. Active' = Active
    BY <1>5, SameTables
  <2> QED
    BY <1>2, <1>3, <1>5, <2>1 DEF Reported, Succeeded
<1>9. CASE pc' = "error" /\ Status' = "failure" /\ memory' = memory /\ CxPlatProcessorGroupInfo' = Null
  <2>1. Owns_tables'
    BY <1>2, <1>3, <1>4, <1>5, <1>9 DEF Owns_tables, Succeeded, Before_report, Down
  <2>2. Owns_buffer'
    BY <1>2, <1>3, <1>5, <1>9 DEF Owns_buffer, With_buffer, Before_report
  <2>3. User'
    BY <1>2, <1>5, <1>8, <1>9, <2>1, <2>2 DEF User, Down
  <2> QED
    BY <1>2, <1>5, <1>6, <1>7, <2>3, UserStep, NotStopped
<1>10. CASE /\ pc' = "tables" /\ Status' = "success"
            /\ \E b \in Blocks : memory[b] = "free" /\ memory' = [memory EXCEPT ![b] = "proc"] /\ CxPlatProcessorGroupInfo' = b
  <2>1. PICK b \in Blocks : memory[b] = "free" /\ memory' = [memory EXCEPT ![b] = "proc"] /\ CxPlatProcessorGroupInfo' = b
    BY <1>10, Zenon
  <2>2. memory'[b] = "proc" /\ \A x \in Blocks : x # b => memory'[x] = memory[x]
    BY <1>3, <2>1 DEF Typed
  <2>3. b # Null /\ b # CxPlatProcessorInfo /\ CxPlatProcessorInfo # Null
    BY <1>3, <1>4, <2>1, PlatformAssumption DEF Owns_tables
  <2>4. Owns_tables'
    <3>1. \A x \in Blocks : memory'[x] = "proc" <=> x \in {CxPlatProcessorInfo', CxPlatProcessorGroupInfo'}
      <4>1. \A x \in Blocks : memory[x] = "proc" <=> x = CxPlatProcessorInfo
        BY <1>3, <1>4, PlatformAssumption DEF Owns_tables
      <4>2. CxPlatProcessorInfo' = CxPlatProcessorInfo /\ CxPlatProcessorGroupInfo' = b
        BY <1>5, <2>1
      <4> QED
        BY <2>2, <4>1, <4>2
    <3> QED
      BY <1>2, <1>4, <1>5, <1>10, <2>1, <2>3, <3>1 DEF Owns_tables, Succeeded, Before_report, Down
  <2>5. Owns_buffer'
    BY <1>2, <1>3, <1>5, <1>10, <2>1, <2>2 DEF Owns_buffer, With_buffer, Before_report
  <2>6. User'
    BY <1>2, <1>5, <1>8, <1>10, <2>4, <2>5 DEF User, Down
  <2> QED
    BY <1>2, <1>5, <1>6, <1>7, <2>6, UserStep, NotStopped
<1> QED
  BY <1>5, <1>9, <1>10

LEMMA FillTablesStep ==
    ASSUME IInv, FillTables
    PROVE  IInv'
<1>1. At("tables") /\ "tables" \in User_steps
  BY DEF FillTables, User_steps
<1>2. build.platform = "winuser" /\ User /\ pc = "tables" /\ up = FALSE /\ stopped = "no" /\ Heap = "open"
  BY <1>1, AtUserStep, Zenon
<1>3. Typed /\ Owns_tables /\ Owns_buffer /\ Reported
  BY <1>2 DEF IInv, User
<1>4. /\ UNCHANGED <<build, up, stopped, failures, Heap, RandomFd, RngAlgorithm, memory, Info, reported, system, grown>>
      /\ UNCHANGED <<CxPlatProcessorInfo, CxPlatProcessorGroupInfo>>
      /\ pc' = "error" /\ Status' = "success"
      /\ GroupInfo' = Groups /\ CxPlatProcessorCount' = Active /\ ProcInfo' = Table
  BY DEF FillTables, Goto, handles, buffer, Table
<1>5. Typed'
  BY <1>3, <1>4 DEF Typed
<1>6. Placed'
  BY <1>2, <1>4 DEF Placed, User_steps, Posix_steps
<1>7. Active' = Active /\ Filled'
  <2>1. Active' = Active
    BY <1>4 DEF Active
  <2>2. Groups' = Groups
    BY <1>4 DEF Groups
  <2>3. Table' = Table
    BY <1>4, <2>1, <2>2 DEF Table, Owners
  <2> QED
    BY <1>4, <2>1, <2>2, <2>3 DEF Filled
<1>8. Reported'
  BY <1>2, <1>3, <1>4, <1>7 DEF Reported, Succeeded
<1>9. Owns_tables'
  BY <1>2, <1>3, <1>4 DEF Owns_tables, Succeeded, Before_report, Down
<1>10. Owns_buffer'
  BY <1>2, <1>3, <1>4 DEF Owns_buffer, With_buffer, Before_report
<1>11. User'
  BY <1>2, <1>4, <1>8, <1>9, <1>10 DEF User, Down
<1> QED
  BY <1>2, <1>4, <1>5, <1>6, <1>11, UserStep, NotStopped

LEMMA ErrorStep ==
    ASSUME IInv, ProcessorInfoInit_error
    PROVE  IInv'
<1>1. At("error") /\ "error" \in User_steps
  BY DEF ProcessorInfoInit_error, User_steps
<1>2. build.platform = "winuser" /\ User /\ pc = "error" /\ up = FALSE /\ stopped = "no" /\ Heap = "open"
  BY <1>1, AtUserStep, Zenon
<1>3. Typed /\ Owns_tables /\ Owns_buffer /\ Reported
  BY <1>2 DEF IInv, User
<1> DEFINE failed == Status = "failure"
           held == IF failed THEN {CxPlatProcessorGroupInfo, CxPlatProcessorInfo} ELSE {}
<1>4. CanFree(held, "proc")
  BY <1>3 DEF CanFree, Owns_tables
<1>5. CASE ~CanFree({Info}, "tmp")
  <2>1. Stop("free")
    BY <1>4, <1>5, Zenon DEF ProcessorInfoInit_error
  <2>2. memory[Info] = "free" /\ reported = <<>>
    BY <1>2, <1>3, <1>5 DEF CanFree, Owns_buffer
  <2>3. UNCHANGED <<build, pc, memory, Info, reported>> /\ stopped' = "free"
    BY <2>1 DEF Stop, control, buffer
  <2>4. StopsAreKnown'
    BY <1>2, <2>2, <2>3 DEF StopsAreKnown
  <2> QED
    BY <2>1, <2>4, StopStep
<1>6. CASE CanFree({Info}, "tmp")
  <2>1. /\ memory' = CxPlatFree({Info} \cup held)
        /\ CxPlatProcessorGroupInfo' = IF failed THEN Null ELSE CxPlatProcessorGroupInfo
        /\ CxPlatProcessorInfo' = IF failed THEN Null ELSE CxPlatProcessorInfo
        /\ IF failed THEN Goto("heap", "failure") ELSE Return("success")
        /\ UNCHANGED <<handles, buffer, ProcInfo, GroupInfo, CxPlatProcessorCount, CxPlatNumaNodeMasks>>
    BY <1>4, <1>6, Zenon DEF ProcessorInfoInit_error
  <2>2. UNCHANGED <<Heap, RandomFd, RngAlgorithm, Info, reported, system, grown, ProcInfo, GroupInfo, CxPlatProcessorCount>>
    BY <2>1 DEF handles, buffer
  <2>3. memory' = [b \in Blocks |-> IF b \in {Info} \cup held THEN "free" ELSE memory[b]]
    BY <2>1 DEF CxPlatFree
  <2>4. \A b \in Blocks : memory'[b] # "tmp"
    BY <1>3, <2>3 DEF Owns_buffer
  <2>5. Active' = Active /\ (Filled' <=> Filled)
    BY <2>2, SameTables
  <2>6. CASE failed
    <3>1. /\ UNCHANGED <<build, up, stopped, failures>> /\ pc' = "heap" /\ Status' = "failure"
          /\ CxPlatProcessorGroupInfo' = Null /\ CxPlatProcessorInfo' = Null
      BY <2>1, <2>6 DEF Goto
    <3>2. \A b \in Blocks : memory'[b] # "proc"
      BY <1>3, <2>3, <2>6 DEF Owns_tables
    <3>3. Typed'
      BY <1>3, <2>2, <2>3, <3>1 DEF Typed
    <3>4. Placed'
      BY <1>2, <3>1 DEF Placed, User_steps, Posix_steps
    <3>5. Owns_tables'
      BY <1>2, <3>1, <3>2, PlatformAssumption DEF Owns_tables, Succeeded
    <3>6. Owns_buffer'
      BY <2>4, <3>1 DEF Owns_buffer, With_buffer, Before_report
    <3>7. Reported'
      BY <1>2, <3>1 DEF Reported, Succeeded
    <3>8. User'
      BY <1>2, <2>2, <3>1, <3>5, <3>6, <3>7 DEF User, Down
    <3> QED
      BY <1>2, <3>1, <3>3, <3>4, <3>8, UserStep, NotStopped
  <2>7. CASE ~failed
    <3>1. /\ UNCHANGED <<build, stopped, failures>> /\ pc' = "idle" /\ Status' = "success" /\ up' = TRUE
          /\ UNCHANGED <<CxPlatProcessorGroupInfo, CxPlatProcessorInfo>>
      BY <1>2, <2>1, <2>7, Returns, Zenon
    <3>2. Succeeded /\ Succeeded'
      BY <1>2, <1>3, <2>7, <3>1 DEF Succeeded, Typed
    <3>3. \A b \in Blocks : memory'[b] = "proc" <=> memory[b] = "proc"
      <4>1. \A b \in Blocks : memory'[b] = IF b = Info THEN "free" ELSE memory[b]
        BY <2>3, <2>7
      <4>2. Info \in Blocks => memory[Info] # "proc"
        BY <1>2, <1>3, PlatformAssumption DEF Owns_buffer
      <4> QED
        BY <4>1, <4>2
    <3>4. Typed'
      BY <1>3, <2>2, <2>3, <3>1 DEF Typed
    <3>5. Placed'
      BY <1>2, <3>1 DEF Placed, User_steps, Posix_steps
    <3>6. Owns_tables'
      BY <1>3, <3>1, <3>2, <3>3 DEF Owns_tables, Before_report, Down
    <3>7. Owns_buffer'
      BY <2>4, <3>1 DEF Owns_buffer, With_buffer, Before_report
    <3>8. Reported'
      BY <1>3, <2>2, <2>5, <3>1, <3>2 DEF Reported
    <3>9. User'
      BY <1>2, <2>2, <3>1, <3>6, <3>7, <3>8 DEF User, Down
    <3> QED
      BY <1>2, <3>1, <3>4, <3>5, <3>9, UserStep, NotStopped
  <2> QED
    BY <2>6, <2>7
<1> QED
  BY <1>5, <1>6

LEMMA Initialize_failedStep ==
    ASSUME IInv, Initialize_failed
    PROVE  IInv'
<1>1. At("heap") /\ "heap" \in User_steps
  BY DEF Initialize_failed, User_steps
<1>2. build.platform = "winuser" /\ User /\ pc = "heap" /\ up = FALSE /\ stopped = "no" /\ Heap = "open"
  BY <1>1, AtUserStep, Zenon
<1>3. Typed /\ Owns_tables
  BY <1>2 DEF IInv, User
<1>4. /\ UNCHANGED <<RandomFd, RngAlgorithm, Info, reported, system, grown, CxPlatProcessorInfo, CxPlatProcessorGroupInfo>>
      /\ Heap' = "none" /\ memory' = [b \in Blocks |-> "free"] /\ Return("failure")
  BY DEF Initialize_failed, HeapDestroy, buffer, tables
<1>5. UNCHANGED <<build, stopped, failures>> /\ pc' = "idle" /\ Status' = "failure" /\ up' = FALSE
  BY <1>2, <1>4, Returns, Zenon
<1>6. Typed'
  BY <1>3, <1>4, <1>5, Zenon DEF Typed
<1>7. Placed'
  BY <1>5 DEF Placed, User_steps, Posix_steps
<1>8. Owns_tables'
  BY <1>2, <1>3, <1>4, <1>5, PlatformAssumption DEF Owns_tables, Succeeded
<1>9. Owns_buffer'
  BY <1>4, <1>5 DEF Owns_buffer, With_buffer, Before_report
<1>10. Reported'
  BY <1>5 DEF Reported, Succeeded
<1>11. User'
  BY <1>2, <1>4, <1>5, <1>8, <1>9, <1>10 DEF User, Down
<1> QED
  BY <1>2, <1>5, <1>6, <1>7, <1>11, UserStep, NotStopped

LEMMA Uninitialize_winuserStep ==
    ASSUME IInv, Uninitialize_winuser
    PROVE  IInv'
<1>1. At("idle") /\ build.platform = "winuser" /\ up = TRUE
  BY DEF Uninitialize_winuser, IInv, Typed
<1>2. pc = "idle" /\ stopped = "no" /\ Typed /\ User /\ Owns_tables
  BY <1>1 DEF IInv, User, At
<1>3. CanFree({CxPlatProcessorGroupInfo, CxPlatProcessorInfo}, "proc")
  BY <1>2 DEF CanFree, Owns_tables
<1>4. /\ CxPlatProcessorGroupInfo' = Null /\ CxPlatProcessorInfo' = Null
      /\ HeapDestroy /\ Uninitialized
      /\ UNCHANGED <<RandomFd, RngAlgorithm, buffer>>
  BY <1>3, Zenon DEF Uninitialize_winuser
<1>5. /\ UNCHANGED <<RandomFd, RngAlgorithm, Info, reported, system, grown, build, pc, Status, stopped, failures>>
      /\ up' = FALSE /\ Heap' = "none" /\ memory' = [b \in Blocks |-> "free"]
  BY <1>4 DEF HeapDestroy, Uninitialized, buffer
<1>6. Typed'
  BY <1>2, <1>5, Zenon DEF Typed
<1>7. Placed'
  BY <1>2, <1>5 DEF Placed, User_steps, Posix_steps
<1>8. Owns_tables'
  BY <1>2, <1>4, <1>5, PlatformAssumption DEF Owns_tables, Succeeded
<1>9. Owns_buffer'
  BY <1>2, <1>5 DEF Owns_buffer, With_buffer, Before_report
<1>10. Reported'
  BY <1>2, <1>5 DEF Reported, Succeeded
<1>11. User'
  BY <1>2, <1>5, <1>8, <1>9, <1>10 DEF User, Down
<1> QED
  BY <1>1, <1>2, <1>5, <1>6, <1>7, <1>11, UserStep, NotStopped

LEMMA AddProcessorsStep ==
    ASSUME IInv, AddProcessors
    PROVE  IInv'
<1>1. stopped = "no" /\ build.platform = "winuser"
  BY DEF AddProcessors
<1>2. Typed /\ Placed /\ User /\ Owns_tables /\ Owns_buffer /\ Reported
  BY <1>1 DEF IInv, User
<1>3. /\ UNCHANGED <<build, up, pc, Status, stopped, failures, Heap, RandomFd, RngAlgorithm, memory, Info, reported>>
      /\ UNCHANGED <<CxPlatProcessorInfo, CxPlatProcessorGroupInfo, ProcInfo, GroupInfo, CxPlatProcessorCount>>
  BY DEF AddProcessors, control, handles, tables
<1>4. /\ system' \in Seq(Nat)
      /\ grown' = (grown \/ \E g \in DOMAIN system' : system'[g] > 0 /\ (g \in DOMAIN system => system[g] = 0))
  BY PlatformAssumption DEF AddProcessors
<1>5. grown' \in BOOLEAN
  BY <1>4
<1>6. ASSUME grown' = FALSE, NEW g \in DOMAIN system', system'[g] > 0
      PROVE  grown = FALSE /\ g \in DOMAIN system /\ system[g] > 0
  <2>1. ~grown /\ (g \in DOMAIN system /\ system[g] # 0)
    BY <1>4, <1>6, Zenon
  <2>2. system[g] \in Nat
    BY <1>2, <2>1 DEF Typed
  <2> QED
    BY <1>2, <2>1, <2>2 DEF Typed
<1>7. Active' = Active /\ (Filled' <=> Filled) /\ (Succeeded' <=> Succeeded)
  BY <1>3, SameTables DEF Succeeded
<1>8. Typed'
  BY <1>2, <1>3, <1>4, <1>5 DEF Typed
<1>9. Placed'
  BY <1>2, <1>3 DEF Placed
<1>10. Owns_tables'
  BY <1>2, <1>3, <1>7 DEF Owns_tables, Down
<1>11. Owns_buffer'
  BY <1>2, <1>3 DEF Owns_buffer
<1>12. Reported'
  BY <1>2, <1>3, <1>6, <1>7, Zenon DEF Reported
<1>13. User'
  BY <1>2, <1>3, <1>10, <1>11, <1>12 DEF User, Down
<1> QED
  BY <1>1, <1>3, <1>8, <1>9, <1>13, UserStep, NotStopped

-----------------------------------------------------------------------------
(* POSIX and Windows kernel mode.  *)

LEMMA HeldIsFinite ==
    /\ IsFiniteSet(Held) /\ Cardinality(Held) \in Nat /\ Cardinality(Held) <= Cardinality(Blocks)
    /\ Cardinality(Blocks) \in Nat
<1>1. IsFiniteSet(Blocks) /\ Held \subseteq Blocks
  BY PlatformAssumption DEF Held
<1> HIDE DEF Held
<1> QED
  BY <1>1, FS_Subset, FS_CardinalityType

LEMMA Initialize_posixStep ==
    ASSUME IInv, Initialize_posix
    PROVE  IInv'
<1>1. pc = "idle" /\ up = FALSE /\ stopped = "no" /\ build.platform = "posix"
  BY DEF Initialize_posix, At, IInv, Typed
<1>2. Typed /\ Other /\ Posix
  BY <1>1 DEF IInv
<1>3. /\ UNCHANGED <<build, up, stopped, failures, Heap, RandomFd, RngAlgorithm, memory, reported, system, grown>>
      /\ UNCHANGED <<CxPlatProcessorInfo, CxPlatProcessorGroupInfo, CxPlatNumaNodeMasks>>
      /\ CxPlatProcessorCount' \in {1, MaxProcessors, UINT32_MAX} /\ Status' = "success"
      /\ pc' = IF build.numa THEN "numa" ELSE "open"
  BY DEF Initialize_posix, Goto, handles, buffer
<1>4. build.numa \in BOOLEAN
  BY <1>2, Builds_are
<1>5. pc' \in {"numa", "open"} /\ (pc' = "numa" => build.numa = TRUE)
  BY <1>3, <1>4
<1>6. Typed'
  BY <1>2, <1>3 DEF Typed
<1>7. Placed'
  BY <1>1, <1>3, <1>5 DEF Placed, User_steps, Posix_steps
<1>8. Other'
  <2>1. CxPlatProcessorCount' \in 1..UINT32_MAX
    BY <1>3, Counts_are, PlatformAssumption
  <2> QED
    BY <1>1, <1>2, <1>3, <2>1 DEF Other, MaxCount
<1>9. Posix'
  BY <1>1, <1>2, <1>3 DEF Posix, Leaked, Held
<1> QED
  BY <1>1, <1>3, <1>6, <1>7, <1>8, <1>9, PosixStep, NotStopped

(* What the steps of CxPlatInitialize start from on POSIX.  *)
LEMMA AtPosixStep ==
    ASSUME IInv, NEW step \in Posix_steps, At(step)
    PROVE  /\ build.platform = "posix" /\ Typed /\ Other /\ Posix
           /\ pc = step /\ up = FALSE /\ stopped = "no" /\ ~Down
<1>1. pc = step /\ stopped = "no"
  BY DEF At
<1>2. build.platform = "posix" /\ up = FALSE
  BY <1>1 DEF IInv, Placed, Typed, Posix_steps
<1>3. pc # "idle"
  BY <1>1 DEF Posix_steps
<1> QED
  BY <1>1, <1>2, <1>3 DEF IInv, Down

LEMMA NumaNodeMasksStep ==
    ASSUME IInv, NumaNodeMasks
    PROVE  IInv'
<1>1. At("numa") /\ "numa" \in Posix_steps
  BY DEF NumaNodeMasks, Posix_steps
<1>2. build.platform = "posix" /\ Typed /\ Other /\ Posix /\ pc = "numa" /\ up = FALSE /\ stopped = "no" /\ ~Down
  BY <1>1, AtPosixStep, Zenon
<1>3. build.numa = TRUE
  BY <1>2 DEF IInv, Placed
<1>4. Cardinality(Held) <= failures
  BY <1>2 DEF Posix, Leaked
<1>5. CASE Stop("assert")
  <2>1. StopsAreKnown'
    BY <1>5 DEF Stop, StopsAreKnown
  <2> QED
    BY <1>5, <2>1, StopStep
<1>6. ASSUME Goto("open", "success"), UNCHANGED <<handles, buffer, tables>>, memory' \in [Blocks -> {"free", "tmp", "proc"}],
             \/ Held' = Held
             \/ CxPlatNumaNodeMasks' \in Held' /\ Held' \ {CxPlatNumaNodeMasks'} = Held,
             CxPlatNumaNodeMasks' \in Blocks \cup {Null}, \A b \in Blocks : memory'[b] # "tmp"
      PROVE  IInv'
  <2>1. /\ UNCHANGED <<build, up, stopped, failures, Heap, RandomFd, RngAlgorithm, reported, system, grown>>
        /\ UNCHANGED <<CxPlatProcessorInfo, CxPlatProcessorGroupInfo, CxPlatProcessorCount>>
        /\ pc' = "open" /\ Status' = "success"
    BY <1>6 DEF Goto, handles, buffer, tables
  <2>2. Typed'
    BY <1>2, <1>6, <2>1 DEF Typed
  <2>3. Placed'
    BY <1>2, <2>1 DEF Placed, User_steps, Posix_steps
  <2>4. Other'
    BY <1>2, <2>1 DEF Other, MaxCount
  <2>5. Leaked'
    BY <1>3, <1>4, <1>6, <2>1 DEF Leaked
  <2>6. Posix'
    BY <1>2, <1>6, <2>1, <2>5 DEF Posix
  <2> QED
    BY <1>2, <2>1, <2>2, <2>3, <2>4, <2>6, PosixStep, NotStopped
<1>7. CASE /\ \E b \in Blocks : CxPlatAlloc(b, "proc") /\ CxPlatNumaNodeMasks' = b
           /\ Goto("open", "success") /\ UNCHANGED <<handles, buffer, tables>>
  <2>1. PICK b \in Blocks : memory[b] = "free" /\ memory' = [memory EXCEPT ![b] = "proc"] /\ CxPlatNumaNodeMasks' = b
    BY <1>7, Zenon DEF CxPlatAlloc
  <2>2. memory' \in [Blocks -> {"free", "tmp", "proc"}]
    BY <1>2, <2>1 DEF Typed
  <2>3. memory'[b] = "proc" /\ \A x \in Blocks : x # b => memory'[x] = memory[x]
    BY <1>2, <2>1 DEF Typed
  <2>4. b \in Held' /\ Held' \ {b} = Held
    BY <2>1, <2>3 DEF Held
  <2>5. \A x \in Blocks : memory'[x] # "tmp"
    BY <1>2, <2>3 DEF Posix
  <2> QED
    BY <1>6, <1>7, <2>1, <2>2, <2>4, <2>5
<1>8. CASE Goto("open", "success") /\ UNCHANGED <<handles, memory, buffer, tables, CxPlatNumaNodeMasks>>
  <2>1. memory' \in [Blocks -> {"free", "tmp", "proc"}] /\ Held' = Held
    BY <1>2, <1>8 DEF Typed, Held
  <2>2. CxPlatNumaNodeMasks' \in Blocks \cup {Null} /\ \A b \in Blocks : memory'[b] # "tmp"
    BY <1>2, <1>8 DEF Posix
  <2> QED
    BY <1>6, <1>8, <2>1, <2>2
<1> QED
  BY <1>5, <1>7, <1>8 DEF NumaNodeMasks

LEMMA OpenRandomStep ==
    ASSUME IInv, OpenRandom
    PROVE  IInv'
<1>1. At("open") /\ "open" \in Posix_steps
  BY DEF OpenRandom, Posix_steps
<1>2. build.platform = "posix" /\ Typed /\ Other /\ Posix /\ pc = "open" /\ up = FALSE /\ stopped = "no" /\ ~Down
  BY <1>1, AtPosixStep, Zenon
<1>3. /\ UNCHANGED <<Heap, RngAlgorithm, memory, reported, system, grown, CxPlatNumaNodeMasks>>
      /\ UNCHANGED <<CxPlatProcessorInfo, CxPlatProcessorGroupInfo, CxPlatProcessorCount>>
      /\ \/ RandomFd' = "open" /\ Return("success")
         \/ RandomFd' = "none" /\ Return("failure")
  BY DEF OpenRandom, buffer, tables
<1>4. Held' = Held
  BY <1>3 DEF Held
<1>5. failures \in Nat /\ failures' \in Nat /\ UNCHANGED <<build, stopped>> /\ pc' = "idle" /\ Status' \in {"success", "failure"}
  BY <1>2, <1>3 DEF Typed, Return
<1>6. Placed'
  BY <1>5 DEF Placed, User_steps, Posix_steps
<1>7. Other'
  BY <1>2, <1>3, <1>5 DEF Other, MaxCount
<1>8. CASE RandomFd' = "open" /\ Return("success")
  <2>1. up' = TRUE /\ failures' = failures
    BY <1>8, Returns, Zenon DEF Return
  <2>2. Typed'
    BY <1>2, <1>3, <1>5, <2>1 DEF Typed
  <2>3. Leaked'
    BY <1>2, <1>3, <1>4, <1>5, <2>1 DEF Posix, Leaked
  <2>4. Posix'
    BY <1>2, <1>3, <1>8, <2>1, <2>3 DEF Posix
  <2> QED
    BY <1>2, <1>5, <1>6, <1>7, <2>2, <2>4, PosixStep, NotStopped
<1>9. CASE RandomFd' = "none" /\ Return("failure")
  <2>1. up' = FALSE
    BY <1>9, Returns, Zenon
  <2>2. failures' = IF failures < Cardinality(Blocks) THEN failures + 1 ELSE failures
    BY <1>2, <1>9 DEF Return
  <2>3. Typed'
    BY <1>2, <1>3, <1>5, <2>1, Zenon DEF Typed
  <2>4. Cardinality(Held) <= failures + 1
    <3>1. CASE Cardinality(Held) <= failures
      BY <1>5, <3>1, HeldIsFinite
    <3>2. CASE CxPlatNumaNodeMasks \in Held /\ Cardinality(Held \ {CxPlatNumaNodeMasks}) <= failures
      <4>1. Cardinality(Held \ {CxPlatNumaNodeMasks}) = Cardinality(Held) - 1
        BY <3>2, HeldIsFinite, FS_RemoveElement
      <4> QED
        BY <1>5, <3>2, <4>1, HeldIsFinite
    <3> QED
      BY <1>2, <3>1, <3>2 DEF Posix, Leaked
  <2>5. Cardinality(Held) <= failures'
    <3> DEFINE c == Cardinality(Held)
               d == Cardinality(Blocks)
    <3>1. c \in Nat /\ d \in Nat /\ c <= d
      BY HeldIsFinite
    <3>2. failures' = (IF failures < d THEN failures + 1 ELSE failures) /\ c <= failures + 1
      BY <2>2, <2>4
    <3> HIDE DEF c, d
    <3>3. c <= failures'
      BY <1>5, <3>1, <3>2
    <3> QED
      BY <3>3 DEF c
  <2>6. Posix'
    BY <1>2, <1>3, <1>4, <1>9, <2>1, <2>5 DEF Posix, Leaked
  <2> QED
    BY <1>2, <1>5, <1>6, <1>7, <2>3, <2>6, PosixStep, NotStopped
<1> QED
  BY <1>3, <1>8, <1>9

LEMMA Uninitialize_posixStep ==
    ASSUME IInv, Uninitialize_posix
    PROVE  IInv'
<1>1. At("idle") /\ build.platform = "posix" /\ up = TRUE
  BY DEF Uninitialize_posix, IInv, Typed
<1>2. pc = "idle" /\ stopped = "no" /\ Typed /\ Placed /\ Other /\ Posix
  BY <1>1 DEF IInv, At
<1> DEFINE held == IF build.numa THEN {CxPlatNumaNodeMasks} ELSE {}
<1>3. build.numa \in BOOLEAN
  BY <1>2, Builds_are
<1>4. CASE ~CanFree(held, "proc")
  <2>1. Stop("free")
    BY <1>4, Zenon DEF Uninitialize_posix
  <2>2. build.numa /\ CxPlatNumaNodeMasks # Null /\ memory[CxPlatNumaNodeMasks] = "free"
    <3>1. build.numa /\ CxPlatNumaNodeMasks # Null /\ memory[CxPlatNumaNodeMasks] # "proc"
      BY <1>3, <1>4 DEF CanFree
    <3> QED
      BY <1>2, <3>1 DEF Posix, Typed
  <2>3. UNCHANGED <<build, up, memory, CxPlatNumaNodeMasks>> /\ stopped' = "free"
    BY <2>1 DEF Stop, control
  <2>4. StopsAreKnown'
    BY <1>1, <2>2, <2>3 DEF StopsAreKnown
  <2> QED
    BY <2>1, <2>4, StopStep
<1>5. CASE CanFree(held, "proc")
  <2>1. /\ memory' = CxPlatFree(held)
        /\ RandomFd' = "closed" /\ Uninitialized
        /\ UNCHANGED <<Heap, RngAlgorithm, buffer, tables, CxPlatNumaNodeMasks>>
    BY <1>5, Zenon DEF Uninitialize_posix
  <2>2. /\ UNCHANGED <<Heap, RngAlgorithm, reported, system, grown, build, pc, Status, stopped, failures>>
        /\ UNCHANGED <<CxPlatProcessorInfo, CxPlatProcessorGroupInfo, CxPlatProcessorCount>>
        /\ up' = FALSE /\ RandomFd' = "closed"
    BY <2>1 DEF Uninitialized, buffer, tables
  <2>3. memory' = [b \in Blocks |-> IF b \in held THEN "free" ELSE memory[b]]
    BY <2>1 DEF CxPlatFree
  <2>4. Typed'
    BY <1>2, <2>2, <2>3, Zenon DEF Typed
  <2>5. Placed'
    BY <1>2, <2>2 DEF Placed, User_steps, Posix_steps
  <2>6. Other'
    BY <1>2, <2>2 DEF Other, Down
  <2>7. Held' = Held \ held
    BY <2>3 DEF Held
  <2>8. Cardinality(Held') <= failures
    <3>1. CASE Cardinality(Held) <= failures
      <4>1. Held \ held \subseteq Held /\ failures \in Nat
        BY <1>2 DEF Typed
      <4> DEFINE rest == Held \ held
                 c == Cardinality(rest)
                 d == Cardinality(Held)
      <4>2. c \in Nat /\ c <= d /\ d \in Nat
        <5> HIDE DEF rest
        <5> QED
          BY <4>1, HeldIsFinite, FS_Subset, FS_CardinalityType DEF rest
      <4> HIDE DEF c, d
      <4>3. c <= failures
        BY <3>1, <4>1, <4>2 DEF d
      <4> QED
        BY <2>7, <4>3 DEF c
    <3>2. CASE build.numa = TRUE /\ Cardinality(Held \ {CxPlatNumaNodeMasks}) <= failures
      <4>1. Held' = Held \ {CxPlatNumaNodeMasks}
        BY <2>7, <3>2
      <4> QED
        BY <3>2, <4>1
    <3> QED
      BY <1>2, <3>1, <3>2, Zenon DEF Posix, Leaked
  <2>9. CxPlatNumaNodeMasks' \in Blocks \cup {Null} /\ \A b \in Blocks : memory'[b] # "tmp"
    BY <1>2, <2>1, <2>3, Zenon DEF Posix
  <2>10. Posix'
    BY <1>2, <2>2, <2>8, <2>9 DEF Posix, Leaked
  <2> QED
    BY <1>1, <1>2, <2>2, <2>4, <2>5, <2>6, <2>10, PosixStep, NotStopped
<1> QED
  BY <1>4, <1>5

LEMMA KernelSteps ==
    ASSUME IInv, Initialize_winkernel \/ Uninitialize_winkernel
    PROVE  IInv'
<1>1. /\ build.platform = "winkernel" /\ pc = "idle" /\ stopped = "no"
      /\ UNCHANGED <<Heap, RandomFd, memory, reported, system, grown, CxPlatProcessorInfo, CxPlatProcessorGroupInfo>>
  BY DEF Initialize_winkernel, Uninitialize_winkernel, At, buffer, tables
<1>2. Typed /\ Placed /\ Other /\ Kernel
  BY <1>1 DEF IInv
<1>3. CASE Initialize_winkernel
  <2>1. /\ CxPlatProcessorCount' \in {1, MaxProcessors}
        /\ \/ RngAlgorithm' = "open" /\ Return("success")
           \/ RngAlgorithm' = "none" /\ Return("failure")
    BY <1>3 DEF Initialize_winkernel
  <2>2. /\ UNCHANGED <<build, stopped, failures>> /\ pc' = "idle"
        /\ \/ RngAlgorithm' = "open" /\ up' = TRUE /\ Status' = "success"
           \/ RngAlgorithm' = "none" /\ up' = FALSE /\ Status' = "failure"
    BY <1>1, <2>1, Returns, Zenon
  <2>3. Typed'
    BY <1>1, <1>2, <2>2, Zenon DEF Typed
  <2>4. Placed'
    BY <2>2 DEF Placed, User_steps, Posix_steps
  <2>5. Other'
    BY <1>1, <1>2, <2>1, <2>2, PlatformAssumption DEF Other, MaxCount
  <2>6. Kernel'
    BY <1>1, <1>2, <2>2 DEF Kernel, Held
  <2> QED
    BY <1>1, <2>2, <2>3, <2>4, <2>5, <2>6, KernelStep, NotStopped
<1>4. CASE Uninitialize_winkernel
  <2>1. /\ UNCHANGED <<build, pc, Status, stopped, failures, CxPlatProcessorCount>>
        /\ up' = FALSE /\ RngAlgorithm' = "none"
    BY <1>4 DEF Uninitialize_winkernel, Uninitialized, tables
  <2>2. Typed'
    BY <1>1, <1>2, <2>1, Zenon DEF Typed
  <2>3. Placed'
    BY <1>1, <2>1 DEF Placed, User_steps, Posix_steps
  <2>4. Other'
    BY <1>1, <1>2, <2>1 DEF Other, Down
  <2>5. Kernel'
    BY <1>1, <1>2, <2>1 DEF Kernel, Held
  <2> QED
    BY <1>1, <2>1, <2>2, <2>3, <2>4, <2>5, KernelStep, NotStopped
<1> QED
  BY <1>3, <1>4

-----------------------------------------------------------------------------
LEMMA StepInv ==
    ASSUME IInv, [Next]_vars
    PROVE  IInv'
<1>1. CASE UNCHANGED vars
  <2>1. stopped' = stopped
    BY <1>1 DEF vars
  <2>2. Stop(stopped)
    BY <1>1 DEF vars, Stop
  <2>3. StopsAreKnown'
    BY <1>1 DEF vars, control, buffer, IInv, StopsAreKnown
  <2> QED
    BY <2>2, <2>3, StopStep
<1>2. CASE Step
  BY <1>2, QuerySizeStep, AllocInfoStep, QueryInfoStep, CountProcessorsStep, AllocProcessorInfoStep,
     AllocGroupInfoStep, FillTablesStep, ErrorStep, Initialize_failedStep, NumaNodeMasksStep, OpenRandomStep
     DEF Step
<1>3. CASE Call
  BY <1>3, Initialize_winuserStep, Initialize_posixStep, Uninitialize_winuserStep, Uninitialize_posixStep,
     KernelSteps DEF Call
<1>4. CASE AddProcessors
  BY <1>4, AddProcessorsStep
<1> QED
  BY <1>1, <1>2, <1>3, <1>4 DEF Next

(* The inductive invariant: on each platform and at each step, which block *)
(* is whose, what is open, and what the tables hold.                       *)
THEOREM Invariance == Spec => []IInv
<1>1. IInv /\ [Next]_vars => IInv'
  BY StepInv
<1> QED
  BY <1>1, InitInv, PTL DEF Spec

(* However many groups and processors the system reports, and whichever    *)
(* are added later, CxPlatProcCurrentNumber returns an index below the     *)
(* number of processors, and the tables CxPlatProcessorInfoInit filled     *)
(* lead back from it to the group and the number within it.                *)
THEOREM TablesAlwaysAgree == Spec => []ProcessorTablesAgree
<1>1. IInv => ProcessorTablesAgree
  BY TablesAgree
<1> QED
  BY <1>1, Invariance, PTL

(* While the library is initialized it holds the heap, the two tables in   *)
(* blocks of their own and the random generator.                           *)
THEOREM AlwaysHeldWhileUp == Spec => []HeldWhileUp
<1>1. IInv => HeldWhileUp
  BY HeldUp
<1> QED
  BY <1>1, Invariance, PTL

(* After a failed CxPlatInitialize and after CxPlatUninitialize nothing is *)
(* held but at most one block of NUMA masks for each time the random       *)
(* device could not be opened.                                             *)
THEOREM NothingIsHeldWhileDown == Spec => []NothingHeldWhileDown
<1>1. IInv => NothingHeldWhileDown
  BY NothingHeld
<1> QED
  BY <1>1, Invariance, PTL

(* No table is overwritten, and what is freed was allocated, but for the   *)
(* failing second query of user mode and the NUMA masks of POSIX.          *)
THEOREM OnlyKnownStops == Spec => []StopsAreKnown
<1>1. IInv => StopsAreKnown
  BY DEF IInv
<1> QED
  BY <1>1, Invariance, PTL
=============================================================================
