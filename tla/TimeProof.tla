------------------------------ MODULE TimeProof ------------------------------
(***************************************************************************)
(* The properties of Time for words of every width, every frequency and    *)
(* all units.                                                              *)
(***************************************************************************)
EXTENDS Time, TLAPS

(* What the division and the remainder of the code are. *)
LEMMA DivMod ==
    ASSUME NEW a \in Nat, NEW b \in Nat \ {0}
    PROVE  /\ a \div b \in Nat /\ a % b \in 0 .. b - 1
           /\ a = b * (a \div b) + (a % b)
OBVIOUS

LEMMA DivPick ==
    ASSUME NEW a \in Nat, NEW b \in Nat \ {0}
    PROVE  \E q \in Nat, r \in 0 .. b - 1 : q = a \div b /\ r = a % b /\ a = b * q + r
<1>1. a \div b \in Nat /\ a % b \in 0 .. b - 1 /\ a = b * (a \div b) + (a % b)
  BY DivMod, Zenon
<1>2. QED
  BY <1>1, Zenon

LEMMA DivUnique ==
    ASSUME NEW a \in Nat, NEW b \in Nat \ {0}, NEW q \in Nat, NEW r \in 0 .. b - 1,
           a = b * q + r
    PROVE  a \div b = q /\ a % b = r
OBVIOUS

LEMMA TimesMonotone ==
    ASSUME NEW a \in Nat, NEW b \in Nat, NEW c \in Nat, a <= b
    PROVE  a * c <= b * c /\ a * c \in Nat /\ b * c \in Nat
OBVIOUS

LEMMA TimesCancel ==
    ASSUME NEW a \in Nat, NEW b \in Nat, NEW c \in Nat \ {0}, a * c <= b * c
    PROVE  a <= b
OBVIOUS

LEMMA DivMonotone ==
    ASSUME NEW a \in Nat, NEW b \in Nat, NEW c \in Nat \ {0}, a <= b
    PROVE  a \div c <= b \div c
OBVIOUS

(* A number below the range does not wrap around. *)
LEMMA ModSmall ==
    ASSUME NEW b \in Nat \ {0}, NEW a \in 0 .. b - 1
    PROVE  a % b = a
BY DivUnique

------------------------------------------------------------------------------
LEMMA Constants ==
    /\ Word \in Nat \ {0} /\ Half \in Nat \ {0} /\ Word = 2 * Half
    /\ DoubleWord \in Nat \ {0} /\ DoubleWord = Word * Word
    /\ UsPerMs \in Nat \ {0} /\ UsPerSec \in Nat \ {0} /\ MsPerSec \in Nat \ {0}
    /\ NsPerUs \in Nat \ {0} /\ NsPerMs \in Nat \ {0} /\ NsPerSec \in Nat \ {0}
    /\ NsPerSec = NsPerUs * UsPerSec
    /\ Ns100PerMs \in Nat \ {0} /\ Ns100PerSec \in Nat \ {0}
BY TimeAssumption DEF Word, DoubleWord, UsPerSec, NsPerMs, NsPerSec, Ns100PerSec

(* The conversion of the code is the multiplication and the division, as   *)
(* long as the two factors together do not exceed the range of a word.     *)
THEOREM MulDivIsExact ==
    ASSUME NEW Count \in 0 .. DoubleWord - 1, NEW M \in Nat \ {0}, NEW F \in Nat \ {0},
           F + M <= Word + 1
    PROVE  MulDiv(Count, M, F, F) = U64((Count * M) \div F)
<1>1. PICK W \in Nat \ {0} : W = Word /\ W * W = DoubleWord /\ Count \in 0 .. W * W - 1 /\ F + M <= W + 1
  BY Constants
<1>2. PICK h \in Nat, l \in 0 .. W - 1 :
         h = Count \div W /\ l = Count % W /\ Count = W * h + l
  <2>1. Count \in Nat
    BY <1>1
  <2>2. QED
    BY <2>1, DivPick, Zenon
<1>3. PICK q \in Nat, r \in 0 .. F - 1 : q = (h * M) \div F /\ r = (h * M) % F /\ h * M = F * q + r
  <2>1. PICK p \in Nat : p = h * M
    OBVIOUS
  <2>2. QED
    BY <2>1, DivPick
<1>4. h <= W - 1
  <2>1. W * h < W * W
    BY <1>1, <1>2
  <2>2. QED
    BY <2>1
<1>5. h * M <= (W - 1) * W /\ l * M <= (W - 1) * M
  BY <1>1, <1>4
<1>6. r * W <= (F - 1) * W
  BY TimesMonotone
<1>7. l * M + r * W <= (W - 1) * M + (F - 1) * W
  BY <1>5, <1>6
<1>8. (W - 1) * M + (F - 1) * W = (F - 1 + M) * W - M
  OBVIOUS
<1>9. (F - 1 + M) * W <= W * W
  <2>1. F - 1 + M <= W
    BY <1>1
  <2>2. QED
    BY <2>1, TimesMonotone
<1>10. l * M + r * W < W * W
  BY <1>7, <1>8, <1>9
<1>11. (W - 1) * W < W * W
  OBVIOUS
<1>12. r * W \in Nat /\ l * M \in Nat /\ h * M \in Nat
  OBVIOUS
<1>13. Count * M = F * (q * W) + (l * M + r * W)
  <2>1. Count * M = (h * M) * W + l * M
    BY <1>2
  <2>2. (h * M) * W = F * (q * W) + r * W
    BY <1>3
  <2>3. QED
    BY <2>1, <2>2
<1>14. (Count * M) \div F = (q * W) + ((l * M + r * W) \div F)
  <2>1. PICK x \in Nat : x = l * M + r * W
    BY <1>12
  <2>2. PICK d \in Nat, e \in 0 .. F - 1 : d = x \div F /\ e = x % F /\ x = (F * d) + e
    <3>1. x \div F \in Nat /\ x % F \in 0 .. F - 1 /\ x = F * (x \div F) + (x % F)
      BY DivMod, Zenon
    <3>2. QED
      BY <3>1, Zenon
  <2>3. PICK k \in Nat : k = q * W
    OBVIOUS
  <2>4. PICK p \in Nat : p = Count * M
    BY <1>1
  <2>5. p = F * k + x
    BY <1>13, <2>1, <2>3, <2>4
  <2>6. p \div F = k + d
    <3>1. PICK s \in Nat : s = k + d
      OBVIOUS
    <3>2. p = F * s + e
      BY <2>2, <2>5, <3>1
    <3>3. QED
      BY <3>1, <3>2, DivUnique, Zenon
  <2>7. QED
    BY <2>1, <2>2, <2>3, <2>4, <2>6
<1>15. /\ U64(h * M) = h * M /\ U64(l * M) = l * M /\ U64(r * W) = r * W
       /\ U64(l * M + r * W) = l * M + r * W
  <2>1. W * W \in Nat \ {0}
    OBVIOUS
  <2>2. h * M \in 0 .. W * W - 1 /\ l * M \in 0 .. W * W - 1
        /\ r * W \in 0 .. W * W - 1 /\ l * M + r * W \in 0 .. W * W - 1
    BY <1>5, <1>10, <1>11, <1>12
  <2>3. QED
    BY <1>1, <2>1, <2>2, ModSmall, Zenon DEF U64
<1>16. QED
  BY <1>1, <1>2, <1>3, <1>14, <1>15, Zenon DEF MulDiv

------------------------------------------------------------------------------
(* On POSIX the clock counts nanoseconds. *)
FreqOK == CxPlatPerfFreq \in Nat \ {0} /\ (OnPosix => CxPlatPerfFreq = NsPerSec)

(* On POSIX the seconds and the nanoseconds are converted apart. *)
LEMMA TimespecIsExact ==
    ASSUME NEW n \in Nat
    PROVE  (n \div NsPerSec) * UsPerSec + (n % NsPerSec) \div NsPerUs = (n * UsPerSec) \div NsPerSec
<1>1. PICK N \in Nat \ {0}, U \in Nat \ {0}, V \in Nat \ {0} :
         N = NsPerSec /\ U = UsPerSec /\ V = NsPerUs /\ N = V * U
  BY Constants
<1>2. PICK s \in Nat, m \in Nat : s = n \div N /\ m = n % N /\ n = N * s + m
  <2>1. n \div N \in Nat /\ n % N \in Nat /\ n = N * (n \div N) + (n % N)
    BY DivMod
  <2>2. QED
    BY <2>1, Zenon
<1>3. PICK q \in Nat, r \in 0 .. V - 1 : q = m \div V /\ m = V * q + r
  <2>1. m \div V \in Nat /\ m % V \in 0 .. V - 1 /\ m = V * (m \div V) + (m % V)
    BY DivMod, Zenon
  <2>2. QED
    BY <2>1, Zenon
<1>4. PICK k \in Nat, p \in Nat, x \in Nat : k = s * U + q /\ p = n * U /\ x = r * U
  OBVIOUS
<1>5. x \in 0 .. N - 1
  BY <1>1, <1>4
<1>6. p = N * k + x
  <2>1. p = N * (s * U) + m * U
    BY <1>2, <1>4
  <2>2. m * U = N * q + r * U
    BY <1>1, <1>3
  <2>3. QED
    BY <1>4, <2>1, <2>2
<1>7. p \div N = k
  BY <1>5, <1>6, DivUnique
<1>8. QED
  BY <1>1, <1>2, <1>3, <1>4, <1>7, Zenon

(* So what a thread reads is the time in microseconds. *)
LEMMA Exact ==
    ASSUME FreqOK, now \in Nat, platform \in Platforms
    PROVE  TimeIsExact
<1> SUFFICES ASSUME OnPosix \/ InRange, now < DoubleWord
             PROVE  CxPlatTimeUs64 = U64(TrueUs(now))
  BY DEF TimeIsExact
<1>1. CASE OnPosix
  BY <1>1, TimespecIsExact DEF CxPlatTimeUs64, CxPlatTimespecToUs, clock_gettime, TrueUs, FreqOK
<1>2. CASE ~OnPosix
  <2>1. now \in 0 .. DoubleWord - 1 /\ CxPlatPerfFreq + UsPerSec <= Word + 1
    BY <1>2, Constants DEF InRange
  <2>2. QED
    BY <1>2, <2>1, Constants, MulDivIsExact DEF CxPlatTimeUs64, CxPlatTimePlatToUs64, TrueUs, FreqOK
<1>3. QED
  BY <1>1, <1>2

------------------------------------------------------------------------------
(* CxPlatTimeDiff32 and CxPlatTimeAtOrBefore32 of two numbers that have    *)
(* been cut off to a word.                                                 *)
LEMMA Diff32 ==
    ASSUME NEW a \in Nat, NEW b \in Nat, a <= b, b - a < Word
    PROVE  CxPlatTimeDiff32(U32(a), U32(b)) = b - a
<1>1. PICK W \in Nat \ {0} : W = Word
  BY Constants
<1>2. PICK d \in Nat, x \in 0 .. W - 1 : x = a % W /\ a = W * d + x
  <2>1. a \div W \in Nat /\ a % W \in 0 .. W - 1 /\ a = W * (a \div W) + (a % W)
    BY DivMod, Zenon
  <2>2. QED
    BY <2>1, Zenon
<1>3. CASE x + (b - a) < W
  <2>1. PICK y \in 0 .. W - 1 : y = x + (b - a)
    BY <1>1, <1>3
  <2>2. b = W * d + y
    BY <1>2, <2>1, SMTT(20)
  <2>3. U32(a) = x /\ U32(b) = y
    BY <1>1, <1>2, <2>2, DivUnique, Zenon DEF U32
  <2>4. CASE y > x
    BY <2>1, <2>3, <2>4 DEF CxPlatTimeDiff32
  <2>5. CASE y = x
    <3>1. U32(W) = 0
      BY <1>1, DivUnique DEF U32
    <3>2. y + (Word - 1 - x) + 1 = W /\ ~(y > x) /\ b - a = 0
      BY <1>1, <2>1, <2>5
    <3>3. QED
      BY <2>3, <3>1, <3>2 DEF CxPlatTimeDiff32
  <2>6. QED
    BY <2>1, <2>4, <2>5
<1>4. CASE x + (b - a) >= W
  <2>1. PICK y \in 0 .. W - 1 : y = x + (b - a) - W
    BY <1>1, <1>4
  <2>2. PICK e \in Nat, m \in Nat : e = d + 1 /\ m = W * d /\ W * e = m + W
    OBVIOUS
  <2>3. b = W * e + y
    <3>1. a = m + x
      BY <1>2, <2>2
    <3>2. b = m + W + y
      BY <2>1, <3>1
    <3>3. QED
      BY <2>2, <3>2
  <2>4. U32(a) = x /\ U32(b) = y
    BY <1>1, <1>2, <2>3, DivUnique, Zenon DEF U32
  <2>5. y + (Word - 1 - x) + 1 \in 0 .. W - 1 /\ y + (Word - 1 - x) + 1 = b - a /\ ~(y > x)
    BY <1>1, <2>1
  <2>6. U32(y + (Word - 1 - x) + 1) = b - a
    BY <1>1, <2>5, ModSmall DEF U32
  <2>7. QED
    BY <2>4, <2>5, <2>6 DEF CxPlatTimeDiff32
<1>5. QED
  BY <1>3, <1>4

LEMMA AtOrBefore32 ==
    ASSUME NEW a \in Nat, NEW b \in Nat, a <= b
    PROVE  /\ CxPlatTimeAtOrBefore32(U32(a), U32(b)) <=> U32(b - a) <= Half
           /\ CxPlatTimeAtOrBefore32(U32(b), U32(a)) <=> U32(b - a) = 0 \/ U32(b - a) >= Half
<1>1. PICK W \in Nat \ {0} : W = Word /\ W = 2 * Half /\ Half \in Nat \ {0}
  BY Constants
<1>2. PICK z \in 0 .. W - 1, k \in Nat : z = (b - a) % W /\ b - a = W * k + z
  <2>1. b - a \in Nat
    OBVIOUS
  <2>2. (b - a) \div W \in Nat /\ (b - a) % W \in 0 .. W - 1 /\ b - a = W * ((b - a) \div W) + ((b - a) % W)
    BY <2>1, DivMod, Zenon
  <2>3. QED
    BY <2>2, Zenon
<1>3. PICK x \in 0 .. W - 1, d \in Nat : x = a % W /\ a = W * d + x
  <2>1. a \div W \in Nat /\ a % W \in 0 .. W - 1 /\ a = W * (a \div W) + (a % W)
    BY DivMod
  <2>2. QED
    BY <2>1, Zenon
<1>4. PICK y \in 0 .. W - 1, e \in Nat : y = b % W /\ b = W * e + y
  <2>1. b \div W \in Nat /\ b % W \in 0 .. W - 1 /\ b = W * (b \div W) + (b % W)
    BY DivMod, Zenon
  <2>2. QED
    BY <2>1, Zenon
<1>5. y = x + z \/ y = x + z - W
  <2>1. W * e + y = W * d + x + W * k + z
    BY <1>2, <1>3, <1>4
  <2>2. PICK i \in Int : i = d + k - e
    OBVIOUS
  <2>3. x + z - y = W * (-i)
    BY <2>1, <2>2
  <2>4. -i = 0 \/ -i = 1
    BY <2>3
  <2>5. QED
    BY <2>3, <2>4
<1>6. (x - y) % W = IF z = 0 THEN 0 ELSE W - z
  BY <1>5
<1>7. (y - x) % W = z
  BY <1>5
<1>8. QED
  BY <1>1, <1>2, <1>3, <1>4, <1>6, <1>7 DEF CxPlatTimeAtOrBefore32, S32, U32

------------------------------------------------------------------------------
(* The times the thread holds are those of the moment it took them, and it *)
(* waits for as many units as its milliseconds have, less those its clock  *)
(* was set forward and more those it was set back, or for one of the two   *)
(* exceptions: a date in the past, and INFINITE.                           *)
StampOK ==
    (OnPosix \/ InRange) /\ at < DoubleWord =>
       /\ T1Us32 = U32(U64(TrueUs(at)))
       /\ T1Ms32 = U32(U64(TrueUs(at)) \div UsPerMs)

UnitsPerMs ==
    CASE OnPosix                -> NsPerMs
      [] platform = "winuser"   -> 1
      [] platform = "winkernel" -> Ns100PerMs

SetOK ==
    wait.forward # 0 \/ wait.back # 0 => platform = "darwin" /\ wait.call = "event"

UnitsAreMs ==
    /\ wait.units \in Nat
    /\ wait.units + wait.forward >= wait.ms * UnitsPerMs
    /\ wait.units <= wait.ms * UnitsPerMs + wait.back

UnitsOK ==
    wait.call \in {"sleep", "event"} =>
       \/ UnitsAreMs
       \/ wait.units = 0 /\ SleepsForAPastDate
       \/ wait.units = Never /\ platform = "winuser" /\ wait.call = "sleep" /\ wait.ms = Word - 1

IInv == TypeOK /\ FreqOK /\ StampOK /\ SetOK /\ UnitsOK

LEMMA UnitsAdd ==
    ASSUME platform \in Platforms
    PROVE  UnitsPerMs \in Nat \ {0} /\ UnitsPerSec = MsPerSec * UnitsPerMs
BY TimeAssumption, Constants DEF OnPosix, UnitsPerMs, UnitsPerSec, NsPerSec, Ns100PerSec

LEMMA SleepUnits ==
    ASSUME platform \in Platforms, NEW ms \in 0 .. Word - 1
    PROVE  \/ CxPlatSleep(ms) = ms * UnitsPerMs
           \/ CxPlatSleep(ms) = 0 /\ platform = "winkernel" /\ ms >= Half
           \/ CxPlatSleep(ms) = Never /\ platform = "winuser" /\ ms = Word - 1
<1>1. CASE OnPosix
  <2>1. PICK P \in Nat \ {0}, N \in Nat \ {0} : P = MsPerSec /\ N = NsPerMs /\ NsPerSec = N * P
    BY Constants DEF NsPerSec
  <2>2. PICK d \in Nat, e \in Nat : d = ms \div P /\ e = ms % P /\ ms = P * d + e
    <3>1. ms \div P \in Nat /\ ms % P \in Nat /\ ms = P * (ms \div P) + (ms % P)
      BY Constants, DivMod
    <3>2. QED
      BY <3>1, Zenon
  <2>3. d * (N * P) + N * e = ms * N
    <3>1. (P * d + e) * N = d * (N * P) + N * e
      OBVIOUS
    <3>2. QED
      BY <2>2, <3>1, Zenon
  <2>4. QED
    BY <1>1, <2>1, <2>2, <2>3 DEF OnPosix, CxPlatSleep, UnitsPerMs
<1>2. CASE platform = "winuser"
  BY <1>2, Constants DEF OnPosix, CxPlatSleep, UnitsPerMs, WindowsUnits
<1>3. CASE platform = "winkernel"
  <2>1. CASE ms < Half
    <3>1. ms * Ns100PerMs \in Nat /\ ms * (-Ns100PerMs) = -(ms * Ns100PerMs)
      BY Constants
    <3>2. QED
      BY <1>3, <2>1, <3>1, Constants DEF OnPosix, CxPlatSleep, UnitsPerMs, KernelUnits, S32
  <2>2. CASE ms >= Half
    <3>1. (ms - Word) * (-Ns100PerMs) >= 0 /\ (ms - Word) * (-Ns100PerMs) \in Int
      BY Constants
    <3>2. QED
      BY <1>3, <2>2, <3>1, Constants DEF OnPosix, CxPlatSleep, KernelUnits, S32
  <2>3. QED
    BY <2>1, <2>2, Constants
<1>4. QED
  BY <1>1, <1>2, <1>3, TimeAssumption DEF OnPosix

LEMMA EventUnits ==
    ASSUME platform \in Platforms, now \in Nat, skew \in Nat, NEW ms \in 0 .. Word - 2
    PROVE  CxPlatEventWaitWithTimeout(ms) = ms * UnitsPerMs
<1>1. CASE OnPosix
  <2>1. PICK P \in Nat \ {0}, N \in Nat \ {0}, S \in Nat \ {0} :
           P = MsPerSec /\ N = NsPerMs /\ S = NsPerSec /\ S = N * P
    BY Constants DEF NsPerSec
  <2>2. PICK d \in Nat, e \in Nat : d = ms \div P /\ e = ms % P /\ ms = P * d + e
    <3>1. ms \div P \in Nat /\ ms % P \in Nat /\ ms = P * (ms \div P) + (ms % P)
      BY Constants, DivMod
    <3>2. QED
      BY <3>1, Zenon
  <2>3. PICK c \in Nat, sec \in Nat, nsec \in Nat :
           /\ c = DeadlineClock /\ AbsoluteNow = [tv_sec |-> sec, tv_nsec |-> nsec]
           /\ c = S * sec + nsec
    <3>1. PICK c \in Nat : c = DeadlineClock /\ AbsoluteNow = [tv_sec |-> c \div S, tv_nsec |-> c % S]
      BY <2>1 DEF DeadlineClock, AbsoluteNow, clock_gettime, timespec_get
    <3>2. c \div S \in Nat /\ c % S \in Nat /\ c = S * (c \div S) + (c % S)
      BY DivMod
    <3>3. QED
      BY <3>1, <3>2, Zenon
  <2>4. ms * N = d * S + e * N
    <3>1. (P * d + e) * N = d * (N * P) + e * N
      OBVIOUS
    <3>2. QED
      BY <2>1, <2>2, <3>1, Zenon
  <2>5. (sec + d) * S + (nsec + e * N) - c = ms * N
    <3>1. (sec + d) * S = S * sec + d * S
      OBVIOUS
    <3>2. QED
      BY <2>3, <2>4, <3>1
  <2>6. (sec + d + 1) * S + (nsec + e * N - S) - c = ms * N
    <3>1. (sec + d + 1) * S = S * sec + d * S + S
      OBVIOUS
    <3>2. QED
      BY <2>3, <2>4, <3>1
  <2>7. CxPlatEventWaitWithTimeout(ms) = ms * N
    <3>1. CASE nsec + e * N >= S
      BY <1>1, <2>1, <2>2, <2>3, <2>6, <3>1
         DEF OnPosix, CxPlatEventWaitWithTimeout, CxPlatGetAbsoluteTime
    <3>2. CASE ~(nsec + e * N >= S)
      BY <1>1, <2>1, <2>2, <2>3, <2>5, <3>2
         DEF OnPosix, CxPlatEventWaitWithTimeout, CxPlatGetAbsoluteTime
    <3>3. QED
      BY <3>1, <3>2
  <2>8. QED
    BY <1>1, <2>1, <2>7 DEF OnPosix, UnitsPerMs
<1>2. CASE platform = "winuser"
  BY <1>2, Constants DEF OnPosix, CxPlatEventWaitWithTimeout, UnitsPerMs, WindowsUnits
<1>3. CASE platform = "winkernel"
  <2>1. PICK x \in Nat, D \in Nat \ {0}, H \in Nat :
           x = ms * Ns100PerMs /\ D = DoubleWord /\ H = Half * Word /\ D = 2 * H
    BY Constants
  <2>2. x <= H
    <3>1. ms * Ns100PerMs <= ms * Half /\ ms * Half <= Word * Half
      BY Constants, TimeAssumption
    <3>2. QED
      BY <2>1, <3>1, Constants
  <2>3. U64(-1 * x) = IF x = 0 THEN 0 ELSE D - x
    BY <2>1, <2>2 DEF U64
  <2>4. KernelUnits(S64(U64(-1 * x))) = x
    BY <2>1, <2>2, <2>3 DEF KernelUnits, S64
  <2>5. QED
    BY <1>3, <2>1, <2>4
       DEF OnPosix, CxPlatEventWaitWithTimeout, CxPlatInternalEventWaitWithTimeout, UnitsPerMs
<1>4. QED
  BY <1>1, <1>2, <1>3, TimeAssumption DEF OnPosix

LEMMA Initially == Init => IInv
<1> SUFFICES ASSUME Init
             PROVE  IInv
  OBVIOUS
<1>1. FreqOK
  BY TimeAssumption, Constants DEF Init, FreqOK, OnPosix
<1>2. TypeOK
  BY <1>1, TimeAssumption, Constants DEF Init, TypeOK, FreqOK, Awake
<1>3. StampOK
  <2>1. PICK F \in Nat \ {0} : F = CxPlatPerfFreq
    BY <1>1 DEF FreqOK
  <2>2. (0 * UsPerSec) \div F = 0 /\ 0 \div UsPerMs = 0 /\ 0 % Word = 0 /\ 0 % DoubleWord = 0
    BY Constants
  <2>3. QED
    BY <2>1, <2>2 DEF Init, StampOK, TrueUs, U32, U64
<1>4. SetOK /\ UnitsOK
  BY DEF Init, SetOK, UnitsOK, Awake
<1>5. QED
  BY <1>1, <1>2, <1>3, <1>4 DEF IInv

(* The three actions in which the thread takes the time. *)
LEMMA TakeTimeStep ==
    ASSUME IInv, TakeTime
    PROVE  /\ FreqOK' /\ StampOK'
           /\ platform' \in Platforms /\ CxPlatPerfFreq' \in Nat \ {0}
           /\ now' \in Nat /\ at' \in 0 .. now' /\ skew' \in Nat
           /\ T1Us32' \in 0 .. Word - 1 /\ T1Ms32' \in 0 .. Word - 1
<1>1. platform \in Platforms /\ now \in Nat /\ skew \in Nat /\ FreqOK
  BY DEF IInv, TypeOK
<1>2. FreqOK'
  BY <1>1 DEF FreqOK, TakeTime, OnPosix
<1>3. TimeIsExact
  BY <1>1, Exact
<1>4. StampOK'
  BY <1>3 DEF OnPosix, StampOK, TimeIsExact, TakeTime, CxPlatTimeUs32, CxPlatTimeMs32, CxPlatTimeMs64,
              TrueUs, InRange
<1>5. CxPlatTimeUs64 \in Int
  BY <1>1, Constants DEF CxPlatTimeUs64, CxPlatTimespecToUs, clock_gettime, U64,
                         CxPlatTimePlatToUs64, MulDiv, FreqOK
<1>6. T1Us32' \in 0 .. Word - 1 /\ T1Ms32' \in 0 .. Word - 1
  <2>1. \A x \in Int : U32(x) \in 0 .. Word - 1
    BY Constants DEF U32
  <2>2. CxPlatTimeMs64 \in Int
    BY <1>5, Constants DEF CxPlatTimeMs64
  <2>3. QED
    BY <1>5, <2>1, <2>2 DEF TakeTime, CxPlatTimeUs32, CxPlatTimeMs32
<1>7. QED
  BY <1>1, <1>2, <1>4, <1>6 DEF TakeTime, FreqOK

LEMMA Inductive == IInv /\ [Next]_vars => IInv'
<1> SUFFICES ASSUME IInv, [Next]_vars
             PROVE  IInv'
  OBVIOUS
<1>t. TypeOK /\ FreqOK /\ StampOK /\ SetOK /\ UnitsOK
  BY DEF IInv
<1>a. UnitsPerMs \in Nat \ {0}
  BY <1>t, UnitsAdd DEF TypeOK
<1>1. CASE Tick
  <2>1. TypeOK'
    BY <1>t, <1>1 DEF Tick, TypeOK
  <2>2. FreqOK' /\ StampOK' /\ SetOK'
    BY <1>t, <1>1, Zenon DEF Tick, FreqOK, StampOK, SetOK, OnPosix, TrueUs, InRange
  <2>3. UnitsOK'
    BY <1>t, <1>1, Zenon DEF Tick, UnitsOK, UnitsAreMs, OnPosix, UnitsPerMs, SleepsForAPastDate
  <2>4. QED
    BY <2>1, <2>2, <2>3 DEF IInv
<1>2. CASE Stamp
  <2>1. TypeOK'
    BY <1>2, TakeTimeStep, Constants DEF Stamp, TypeOK, Awake
  <2>2. SetOK' /\ UnitsOK'
    BY <1>2 DEF Stamp, SetOK, UnitsOK, Awake
  <2>3. QED
    BY <1>2, <2>1, <2>2, TakeTimeStep DEF Stamp, IInv
<1>3. ASSUME NEW ms \in Durations, Sleep(ms)
      PROVE  IInv'
  <2>1. ms \in 0 .. Word - 1 /\ TakeTime /\ UnitsPerMs' = UnitsPerMs /\ platform' = platform
    BY <1>3, TimeAssumption DEF Sleep, TakeTime, UnitsPerMs, OnPosix
  <2>2. \/ CxPlatSleep(ms) = ms * UnitsPerMs
        \/ CxPlatSleep(ms) = 0 /\ platform = "winkernel" /\ ms >= Half
        \/ CxPlatSleep(ms) = Never /\ platform = "winuser" /\ ms = Word - 1
    BY <1>t, <2>1, SleepUnits DEF TypeOK
  <2>3. /\ wait'.call = "sleep" /\ wait'.ms = ms /\ wait'.units = CxPlatSleep(ms)
        /\ wait'.forward = 0 /\ wait'.back = 0
    BY <1>3 DEF Sleep, Awake
  <2>4. CxPlatSleep(ms) \in Nat \cup {Never}
    BY <1>a, <2>1, <2>2, Constants
  <2>5. ms * UnitsPerMs \in Nat
    BY <1>a, <2>1, Constants
  <2>6. SetOK' /\ UnitsOK'
    BY <2>1, <2>2, <2>3, <2>5 DEF SetOK, UnitsOK, UnitsAreMs, SleepsForAPastDate
  <2>7. TypeOK'
    BY <1>3, <2>1, <2>4, TakeTimeStep DEF Sleep, TypeOK, Awake
  <2>8. QED
    BY <2>1, <2>6, <2>7, TakeTimeStep DEF IInv
<1>4. ASSUME NEW ms \in Durations, WaitForEvent(ms)
      PROVE  IInv'
  <2>1. ms \in 0 .. Word - 2 /\ TakeTime /\ UnitsPerMs' = UnitsPerMs
    BY <1>4, TimeAssumption, Constants DEF WaitForEvent, TakeTime, UnitsPerMs, OnPosix
  <2>2. CxPlatEventWaitWithTimeout(ms) = ms * UnitsPerMs
    BY <1>t, <2>1, EventUnits DEF TypeOK
  <2>3. /\ wait'.call = "event" /\ wait'.ms = ms /\ wait'.units = CxPlatEventWaitWithTimeout(ms)
        /\ wait'.forward = 0 /\ wait'.back = 0
    BY <1>4 DEF WaitForEvent, Awake
  <2>4. ms * UnitsPerMs \in Nat
    BY <1>a, <2>1, Constants
  <2>5. SetOK' /\ UnitsOK'
    BY <2>1, <2>2, <2>3, <2>4 DEF SetOK, UnitsOK, UnitsAreMs
  <2>6. CxPlatEventWaitWithTimeout(ms) \in Nat \cup {Never} /\ ms \in 0 .. Word - 1
    BY <2>1, <2>2, <2>4, Constants
  <2>7. TypeOK'
    BY <1>4, <2>1, <2>6, TakeTimeStep DEF WaitForEvent, TypeOK, Awake
  <2>8. QED
    BY <2>1, <2>5, <2>7, TakeTimeStep DEF IInv
<1>5. CASE Wake \/ Signal
  <2>1. TypeOK'
    BY <1>t, <1>5, Constants DEF Wake, Signal, TypeOK, Awake, Interrupted
  <2>2. FreqOK' /\ StampOK'
    BY <1>t, <1>5 DEF Wake, Signal, FreqOK, StampOK, OnPosix, TrueUs, InRange
  <2>3. SetOK' /\ UnitsOK'
    BY <1>5 DEF Wake, Signal, SetOK, UnitsOK, Awake, Interrupted
  <2>4. QED
    BY <2>1, <2>2, <2>3 DEF IInv
<1>6. ASSUME NEW s \in Skews, SetTime(s)
      PROVE  IInv'
  <2>1. platform = "darwin" /\ platform' = platform /\ UnitsPerMs' = UnitsPerMs
    BY <1>6 DEF SetTime, UnitsPerMs, OnPosix
  <2>2. s \in Nat /\ skew \in Nat
    BY <1>t, TimeAssumption DEF TypeOK
  <2>3. FreqOK' /\ StampOK'
    BY <1>t, <1>6 DEF SetTime, FreqOK, StampOK, OnPosix, TrueUs, InRange
  <2>4. CASE wait' = wait
    <3>1. TypeOK'
      BY <1>t, <1>6, <2>2, <2>4 DEF SetTime, TypeOK
    <3>2. SetOK' /\ UnitsOK'
      BY <1>t, <2>1, <2>4, Zenon DEF SetOK, UnitsOK, UnitsAreMs, SleepsForAPastDate
    <3>3. QED
      BY <2>3, <3>1, <3>2 DEF IInv
  <2>5. CASE wait' # wait
    <3>1. wait.call = "event" /\ wait.units \in Nat /\ wait.forward \in Nat /\ wait.back \in Nat
      BY <1>t, <1>6, <2>1, <2>5 DEF SetTime, UnitsOK, UnitsAreMs, SleepsForAPastDate, TypeOK
    <3>2. PICK f \in Nat, b \in Nat : f = Forward(s) /\ b = Back(s)
      <4>1. Forward(s) \in Nat /\ Back(s) \in Nat
        BY <2>2 DEF Forward, Back
      <4>2. QED
        BY <4>1, Zenon
    <3>3. PICK u \in Nat :
             /\ u = IF wait.units + b - f < 0 THEN 0 ELSE wait.units + b - f
             /\ u <= wait.units + b /\ u + f >= wait.units
      BY <3>1, <3>2
    <3>4. PICK g \in Nat, h \in Nat : g = wait.forward + f /\ h = wait.back + b
      BY <3>1, <3>2
    <3>5. wait' = [wait EXCEPT !.units = u, !.forward = g, !.back = h]
      BY <1>6, <2>5, <3>2, <3>3, <3>4, Zenon DEF SetTime
    <3>6. /\ wait'.call = wait.call /\ wait'.ms = wait.ms /\ wait'.units = u
          /\ wait'.forward = g /\ wait'.back = h /\ wait.ms \in Nat
      BY <1>t, <3>5, Constants DEF TypeOK
    <3>7. TypeOK'
      BY <1>t, <1>6, <2>2, <3>5 DEF SetTime, TypeOK
    <3>8. UnitsAreMs
      BY <1>t, <2>1, <3>1 DEF UnitsOK, SleepsForAPastDate
    <3>9. wait.ms * UnitsPerMs \in Nat
      BY <1>a, <3>6
    <3>10. UnitsAreMs'
      BY <2>1, <3>1, <3>3, <3>4, <3>6, <3>8, <3>9 DEF UnitsAreMs
    <3>11. SetOK' /\ UnitsOK'
      BY <2>1, <3>1, <3>6, <3>10 DEF SetOK, UnitsOK
    <3>12. QED
      BY <2>3, <3>7, <3>11 DEF IInv
  <2>6. QED
    BY <2>4, <2>5
<1>7. CASE UNCHANGED vars
  BY <1>7, Zenon DEF vars, IInv, TypeOK, FreqOK, StampOK, SetOK, UnitsOK, UnitsAreMs, OnPosix, TrueUs,
              InRange, UnitsPerMs, SleepsForAPastDate
<1>8. QED
  BY <1>1, <1>2, <1>3, <1>4, <1>5, <1>6, <1>7 DEF Next

(* The invariant holds in every state, and with it the types. *)
THEOREM Invariance == Spec => [](IInv /\ TypeOK)
<1>1. IInv => TypeOK
  BY DEF IInv
<1>2. QED
  BY <1>1, Initially, Inductive, PTL DEF Spec

(* CxPlatTimeUs64() loses nothing by converting the two words of the count *)
(* apart, for every frequency up to 2^32 + 1 - 10^6.                       *)
THEOREM TimeExact == Spec => []TimeIsExact
<1>1. IInv => TimeIsExact
  BY Exact DEF IInv, TypeOK
<1>2. QED
  BY <1>1, Invariance, PTL

(* The time in microseconds of two clocks, one not later than the other. *)
LEMMA TrueUsMonotone ==
    ASSUME IInv
    PROVE  /\ TrueUs(at) \in Nat /\ TrueUs(now) \in Nat
           /\ TrueUs(at) <= TrueUs(now)
<1>1. PICK F \in Nat \ {0}, M \in Nat \ {0}, a \in Nat, n \in Nat :
         F = CxPlatPerfFreq /\ M = UsPerSec /\ a = at /\ n = now /\ a <= n
  BY Constants DEF IInv, TypeOK, FreqOK
<1>2. PICK x \in Nat, y \in Nat : x = a * M /\ y = n * M /\ x <= y
  BY <1>1, TimesMonotone
<1>3. x \div F \in Nat /\ y \div F \in Nat /\ x \div F <= y \div F
  BY <1>2, DivMod, DivMonotone
<1>4. QED
  BY <1>1, <1>2, <1>3 DEF TrueUs

(* What StampOK says while the time fits 64 bits. *)
LEMMA Stamps ==
    ASSUME IInv, OnPosix \/ InRange, TrueUs(now) < DoubleWord, now < DoubleWord
    PROVE  /\ T1Us32 = U32(TrueUs(at)) /\ CxPlatTimeUs32 = U32(TrueUs(now))
           /\ T1Ms32 = U32(TrueUs(at) \div UsPerMs)
           /\ CxPlatTimeMs32 = U32(TrueUs(now) \div UsPerMs)
<1>1. at < DoubleWord /\ StampOK /\ TimeIsExact
  BY Constants, Exact DEF IInv, TypeOK
<1>2. TrueUs(at) \in 0 .. DoubleWord - 1 /\ TrueUs(now) \in 0 .. DoubleWord - 1
  BY TrueUsMonotone, Constants
<1>3. U64(TrueUs(at)) = TrueUs(at) /\ U64(TrueUs(now)) = TrueUs(now)
  BY <1>2, ModSmall, Constants DEF U64
<1>4. QED
  BY <1>1, <1>3 DEF StampOK, TimeIsExact, CxPlatTimeUs32, CxPlatTimeMs32, CxPlatTimeMs64

(* Differences of 32 bit times are right across every wrap around. *)
THEOREM Elapsed == Spec => []ElapsedIsMeasured
<1>1. ASSUME IInv
      PROVE  ElapsedIsMeasured
  <2> SUFFICES ASSUME OnPosix \/ InRange, TrueUs(now) < DoubleWord, now < DoubleWord
               PROVE  LET us == TrueUs(now) - TrueUs(at)
                          ms == TrueUs(now) \div UsPerMs - TrueUs(at) \div UsPerMs
                      IN  /\ us < Word => CxPlatTimeDiff32(T1Us32, CxPlatTimeUs32) = us
                          /\ ms < Word => CxPlatTimeDiff32(T1Ms32, CxPlatTimeMs32) = ms
    BY DEF ElapsedIsMeasured
  <2>1. PICK a \in Nat, b \in Nat : a = TrueUs(at) /\ b = TrueUs(now) /\ a <= b
    BY <1>1, TrueUsMonotone
  <2>2. PICK c \in Nat, d \in Nat : c = a \div UsPerMs /\ d = b \div UsPerMs /\ c <= d
    <3>1. a \div UsPerMs \in Nat /\ b \div UsPerMs \in Nat /\ a \div UsPerMs <= b \div UsPerMs
      BY <2>1, Constants, DivMod, DivMonotone, Zenon
    <3>2. QED
      BY <3>1
  <2>3. /\ T1Us32 = U32(a) /\ CxPlatTimeUs32 = U32(b)
        /\ T1Ms32 = U32(c) /\ CxPlatTimeMs32 = U32(d)
    BY <1>1, <2>1, <2>2, Stamps
  <2>4. b - a < Word => CxPlatTimeDiff32(T1Us32, CxPlatTimeUs32) = b - a
    BY <2>1, <2>3, Diff32
  <2>5. d - c < Word => CxPlatTimeDiff32(T1Ms32, CxPlatTimeMs32) = d - c
    BY <2>2, <2>3, Diff32
  <2>6. QED
    BY <2>1, <2>2, <2>4, <2>5
<1>2. QED
  BY <1>1, Invariance, PTL

(* The order of two 32 bit times is the right one for less than half the   *)
(* range, and undecided at exactly half of it.                             *)
THEOREM Order == Spec => []OrderIsKept
<1>1. ASSUME IInv
      PROVE  OrderIsKept
  <2> SUFFICES ASSUME OnPosix \/ InRange, TrueUs(now) < DoubleWord, now < DoubleWord
               PROVE  LET us == U32(TrueUs(now) - TrueUs(at))
                      IN  /\ CxPlatTimeAtOrBefore32(T1Us32, CxPlatTimeUs32) <=> us <= Half
                          /\ CxPlatTimeAtOrBefore32(CxPlatTimeUs32, T1Us32) <=> us = 0 \/ us >= Half
    BY DEF OrderIsKept
  <2>1. PICK a \in Nat, b \in Nat : a = TrueUs(at) /\ b = TrueUs(now) /\ a <= b
    BY <1>1, TrueUsMonotone
  <2>2. T1Us32 = U32(a) /\ CxPlatTimeUs32 = U32(b)
    BY <1>1, <2>1, Stamps
  <2>3. QED
    BY <2>1, <2>2, AtOrBefore32
<1>2. QED
  BY <1>1, Invariance, PTL

(* To microseconds and back, in kernel mode and, with a counter of one     *)
(* megahertz only, in user mode: what is lost is what rounding loses.      *)
THEOREM RoundTrip == Spec => []RoundTripLosesNothing
<1>1. ASSUME IInv
      PROVE  RoundTripLosesNothing
  <2> SUFFICES ASSUME platform = "winkernel" \/ (platform = "winuser" /\ CxPlatPerfFreq = UsPerSec),
                      InRange, TrueUs(now) < DoubleWord, now < DoubleWord
               PROVE  LET back == CxPlatTimeUs64ToPlat(CxPlatTimeUs64)
                      IN  back <= now /\ (now - back) * UsPerSec < CxPlatPerfFreq + UsPerSec
    BY DEF RoundTripLosesNothing
  <2>1. PICK F \in Nat \ {0}, M \in Nat \ {0}, n \in Nat, D \in Nat \ {0} :
           F = CxPlatPerfFreq /\ M = UsPerSec /\ n = now /\ D = DoubleWord /\ n < D
    BY <1>1, Constants DEF IInv, TypeOK, FreqOK
  <2>2. PICK u \in Nat, r \in 0 .. F - 1 : u = TrueUs(now) /\ n * M = F * u + r
    <3>1. PICK p \in Nat : p = n * M
      OBVIOUS
    <3>2. p \div F \in Nat /\ p % F \in 0 .. F - 1 /\ p = F * (p \div F) + (p % F)
      BY DivMod, Zenon
    <3>3. QED
      BY <2>1, <3>1, <3>2 DEF TrueUs
  <2>3. CxPlatTimeUs64 = u /\ u \in 0 .. DoubleWord - 1
    <3>1. TimeIsExact
      BY <1>1, Exact DEF IInv, TypeOK
    <3>2. u \in 0 .. DoubleWord - 1
      BY <2>1, <2>2
    <3>3. QED
      BY <2>2, <3>1, <3>2, ModSmall, Constants DEF TimeIsExact, U64
  <2>4. PICK k \in Nat, e \in 0 .. M - 1 : k = (u * F) \div M /\ u * F = M * k + e
    <3>1. PICK p \in Nat : p = u * F
      OBVIOUS
    <3>2. p \div M \in Nat /\ p % M \in 0 .. M - 1 /\ p = M * (p \div M) + (p % M)
      BY DivMod, Zenon
    <3>3. QED
      BY <3>1, <3>2
  <2>5. k <= n
    <3>1. k * M <= n * M
      BY <2>2, <2>4
    <3>2. QED
      BY <3>1, TimesCancel
  <2>6. (n - k) * M < F + M
    <3>1. (n - k) * M = n * M - M * k
      OBVIOUS
    <3>2. QED
      BY <2>2, <2>4, <3>1
  <2>7. CxPlatTimeUs64ToPlat(u) = k
    <3>1. MulDiv(u, F, M, M) = U64((u * F) \div M)
      BY <2>1, <2>3, MulDivIsExact DEF InRange
    <3>2. U64(k) = k
      BY <2>1, <2>5, ModSmall, Constants DEF U64
    <3>3. CxPlatTimeUs64ToPlat(u) = MulDiv(u, F, M, M)
      BY <2>1 DEF CxPlatTimeUs64ToPlat, OnPosix
    <3>4. QED
      BY <2>4, <3>1, <3>2, <3>3
  <2>8. QED
    BY <2>1, <2>3, <2>5, <2>6, <2>7
<1>2. QED
  BY <1>1, Invariance, PTL

(* When the units a platform waits for have passed the milliseconds have,  *)
(* and the other way round, but for what the clock was set.                *)
LEMMA UnitsAndMs ==
    ASSUME IInv, UnitsAreMs, wait.call \in {"sleep", "event"}
    PROVE  /\ Over => (now - at + wait.forward) * MsPerSec >= wait.ms * CxPlatPerfFreq
           /\ (now - at - wait.back) * MsPerSec >= wait.ms * CxPlatPerfFreq => Over
<1>1. PICK K \in Nat \ {0}, P \in Nat \ {0}, F \in Nat \ {0}, d \in Nat, m \in Nat :
         K = UnitsPerMs /\ P = MsPerSec /\ F = CxPlatPerfFreq /\ d = now - at /\ m = wait.ms
  <2>1. UnitsPerMs \in Nat \ {0} /\ MsPerSec \in Nat \ {0} /\ CxPlatPerfFreq \in Nat \ {0}
    BY Constants, UnitsAdd DEF IInv, TypeOK
  <2>2. now - at \in Nat /\ wait.ms \in Nat
    BY Constants DEF IInv, TypeOK
  <2>3. QED
    BY <2>1, <2>2, Zenon
<1>2. PICK u \in Nat, f \in Nat, b \in Nat, w \in Nat :
         /\ u = wait.units /\ f = wait.forward /\ b = wait.back /\ w = m * K
         /\ u + f >= w /\ u <= w + b /\ u # Never
  <2>1. wait.units \in Nat /\ wait.forward \in Nat /\ wait.back \in Nat /\ wait.units # Never
    BY DEF IInv, TypeOK, UnitsAreMs, Never
  <2>2. m * K \in Nat
    BY <1>1
  <2>3. QED
    BY <1>1, <2>1, <2>2 DEF UnitsAreMs
<1>3. UnitsPerSec = P * K
  BY <1>1, UnitsAdd DEF IInv, TypeOK
<1>4. Over <=> d * (P * K) >= u * F
  BY <1>1, <1>2, <1>3 DEF Over
<1>5. CASE f = 0 /\ b = 0
  <2>1. u = w
    BY <1>2, <1>5
  <2>2. d * (P * K) = (d * P) * K /\ (m * K) * F = (m * F) * K /\ d * P \in Nat /\ m * F \in Nat
    OBVIOUS
  <2>3. PICK x \in Nat, y \in Nat : x = d * P /\ y = m * F
    BY <2>2
  <2>4. x * K >= y * K <=> x >= y
    BY TimesMonotone, TimesCancel
  <2>5. d + f = d /\ d - b = d
    BY <1>5
  <2>6. Over <=> d * P >= m * F
    BY <1>2, <1>4, <2>1, <2>2, <2>3, <2>4
  <2>7. QED
    BY <1>1, <1>2, <2>5, <2>6, Zenon
<1>6. CASE f # 0 \/ b # 0
  <2>1. platform = "darwin"
    BY <1>2, <1>6 DEF IInv, SetOK
  <2>2. F = K * P
    BY <1>1, <2>1 DEF IInv, FreqOK, OnPosix, UnitsPerMs, NsPerSec
  <2>3. F = P * K
    BY <2>2
  <2>4. Over <=> d >= u
    <3>1. d * F >= u * F <=> d >= u
      BY TimesMonotone, TimesCancel
    <3>2. QED
      BY <1>4, <2>3, <3>1
  <2>5. m * F = w * P
    BY <1>2, <2>2
  <2>6. ASSUME Over
        PROVE  (d + f) * P >= m * F
    <3>1. w <= d + f /\ d + f \in Nat
      BY <1>2, <2>4, <2>6
    <3>2. w * P <= (d + f) * P
      BY <3>1, TimesMonotone
    <3>3. QED
      BY <2>5, <3>2
  <2>7. ASSUME (d - b) * P >= m * F
        PROVE  Over
    <3>1. d - b >= w
      <4>1. SUFFICES ASSUME d - b <= w - 1
                     PROVE  FALSE
        BY <1>2
      <4>2. (d - b) * P <= (w - 1) * P
        BY <4>1
      <4>3. (w - 1) * P = w * P - P
        OBVIOUS
      <4>4. QED
        BY <2>5, <2>7, <4>2, <4>3
    <3>2. d >= u
      BY <1>2, <3>1
    <3>3. QED
      BY <2>4, <3>2
  <2>8. QED
    BY <1>1, <1>2, <2>6, <2>7, Zenon
<1>7. QED
  BY <1>5, <1>6

(* CxPlatSleep and CxPlatEventWaitWithTimeout wait for the milliseconds    *)
(* they were asked for, unless a signal ends them or kernel mode sleeps    *)
(* for a date in the past; where deadlines are times of TIME_UTC the wait  *)
(* is shorter by no more than that clock was set forward.                  *)
THEOREM Waits == Spec => WaitsLastAsAsked
<1>1. IInv /\ [Next]_vars => [WakesInTime]_vars
  <2> SUFFICES ASSUME IInv, wait.call \in {"sleep", "event"}, wait' = Awake, ~SleepsForAPastDate, Next
               PROVE  (now - at + wait.forward) * MsPerSec >= wait.ms * CxPlatPerfFreq
    BY DEF vars, Awake, WakesInTime
  <2>1. Over
    <3>1. wait.call \notin {"none", "interrupted"} /\ wait' # wait
      BY DEF Awake
    <3>2. Awake # Interrupted /\ Awake.call = "none"
      BY DEF Awake, Interrupted
    <3>3. ASSUME NEW s \in Skews, SetTime(s)
          PROVE  FALSE
      <4>1. wait'.call = wait.call
        BY <3>3 DEF SetTime, IInv, TypeOK
      <4>2. QED
        BY <3>1, <3>2, <4>1
    <3>4. QED
      BY <3>1, <3>2, <3>3 DEF Next, Tick, Stamp, Sleep, WaitForEvent, Wake, Signal
  <2>2. UnitsAreMs
    BY <2>1 DEF IInv, UnitsOK, Over
  <2>3. QED
    BY <2>1, <2>2, UnitsAndMs
<1>2. Spec => [][WakesInTime]_vars
  BY <1>1, Invariance, PTL DEF Spec
<1>3. QED
  BY <1>2 DEF WaitsLastAsAsked

(* When the milliseconds have passed the wait is over: each but the sleep  *)
(* that user mode takes for INFINITE; where deadlines are times of         *)
(* TIME_UTC, when they and what that clock was set back have passed.       *)
THEOREM WaitsEnd == Spec => []WaitsEndInTime
<1>1. IInv => WaitsEndInTime
  <2> SUFFICES ASSUME IInv, wait.call \in {"sleep", "event"},
                      (now - at - wait.back) * MsPerSec >= wait.ms * CxPlatPerfFreq,
                      ~(platform = "winuser" /\ wait.call = "sleep" /\ wait.ms = Word - 1)
               PROVE  Over
    BY DEF WaitsEndInTime
  <2>1. CASE UnitsAreMs
    BY <2>1, UnitsAndMs
  <2>2. CASE wait.units = 0
    <3>1. (now - at) * UnitsPerSec \in Nat /\ 0 * CxPlatPerfFreq = 0
      BY UnitsAdd, Constants DEF IInv, TypeOK
    <3>2. QED
      BY <2>2, <3>1 DEF Over, Never
  <2>3. QED
    BY <2>1, <2>2 DEF IInv, UnitsOK
<1>2. QED
  BY <1>1, Invariance, PTL
==============================================================================
