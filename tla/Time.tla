-------------------------------- MODULE Time --------------------------------
(***************************************************************************)
(* The time interfaces of the three platforms: what a thread reads that    *)
(* takes the time, waits, and takes the time again, as the test of these   *)
(* interfaces does.  A word of 32 bits holds the numbers below Word, one   *)
(* of 64 bits those below Word * Word, and unsigned arithmetic wraps.      *)
(* On Windows the clock is the performance counter, CxPlatPerfFreq counts  *)
(* a second; on POSIX it is CLOCK_MONOTONIC in nanoseconds, taken to be    *)
(* monotonic on every system.  Where the system is not Linux, here darwin, *)
(* a deadline is a time of the clock TIME_UTC, which may be set.           *)
(***************************************************************************)
EXTENDS Integers

CONSTANTS Platforms, Freqs,    \* the frequencies a Windows counter may have
          Half,                \* 2^31
          UsPerMs, MsPerSec,   \* 1000, 1000
          NsPerUs,             \* 1000, on POSIX
          Ns100PerMs,          \* 10000, the timer unit of kernel mode
          Durations,           \* the milliseconds a thread waits for
          Skews,               \* how far TIME_UTC may be ahead of CLOCK_MONOTONIC
          MaxNow, MaxLate,     \* bounds: the clock; how late a thread wakes
          MaxSet               \* bound: how far TIME_UTC is set during a wait

Word == 2 * Half
DoubleWord == Word * Word
UsPerSec == UsPerMs * MsPerSec
NsPerMs == NsPerUs * UsPerMs
NsPerSec == NsPerMs * MsPerSec
Ns100PerSec == Ns100PerMs * MsPerSec

ASSUME TimeAssumption ==
    /\ Platforms \subseteq {"linux", "darwin", "winuser", "winkernel"}
    /\ Freqs \subseteq Nat \ {0}
    /\ {Half, UsPerMs, MsPerSec, NsPerUs, Ns100PerMs} \subseteq Nat \ {0}
    /\ Ns100PerMs <= Half
    /\ Durations \subseteq 0 .. Word - 1
    /\ Skews \subseteq Nat
    /\ {MaxNow, MaxLate, MaxSet} \subseteq Nat

VARIABLES platform,
          CxPlatPerfFreq,   \* counts of the clock in a second
          now,              \* the clock, as it is
          skew,             \* TIME_UTC, as it is, less the clock
          T1Us32, T1Ms32,   \* the times the thread has taken
          at,               \* history: the clock when it took them
          wait              \* what the thread waits for, or Awake

vars == <<platform, CxPlatPerfFreq, now, skew, T1Us32, T1Ms32, at, wait>>

OnPosix == platform \in {"linux", "darwin"}

U32(n) == n % Word
U64(n) == n % DoubleWord
S32(n) == IF n < Half THEN n ELSE n - Word
S64(n) == IF n < Half * Word THEN n ELSE n - DoubleWord

------------------------------------------------------------------------------
(* The time in microseconds.  Windows multiplies and divides the high and  *)
(* the low word of the count apart, so that neither product overflows.     *)
MulDiv(Count, Mul, Div, DivLow) ==
    LET High == U64((Count \div Word) * Mul)
        Low == U64((Count % Word) * Mul)
    IN  U64((High \div Div) * Word + U64(Low + U64((High % Div) * Word)) \div DivLow)

CxPlatTimePlatToUs64Mutant(Count) ==
    U64(Count * UsPerSec) \div CxPlatPerfFreq

CxPlatTimePlatToUs64(Count) ==
    MulDiv(Count, UsPerSec, CxPlatPerfFreq, CxPlatPerfFreq)

CxPlatTimespecToUs(Time) ==
    U64(Time.tv_sec * UsPerSec + Time.tv_nsec \div NsPerUs)

clock_gettime == [tv_sec |-> now \div NsPerSec, tv_nsec |-> now % NsPerSec]

CxPlatTimeUs64 ==
    IF OnPosix THEN CxPlatTimespecToUs(clock_gettime)
    ELSE CxPlatTimePlatToUs64(now)

CxPlatTimeUs32 == U32(CxPlatTimeUs64)
CxPlatTimeMs64 == CxPlatTimeUs64 \div UsPerMs
CxPlatTimeMs32 == U32(CxPlatTimeMs64)

(* The way back; user mode divides the low word by the frequency. *)
CxPlatTimeUs64ToPlatMutant(TimeUs) ==
    MulDiv(TimeUs, CxPlatPerfFreq, UsPerSec, CxPlatPerfFreq)

CxPlatTimeUs64ToPlat(TimeUs) ==
    CASE OnPosix                -> TimeUs
      [] platform = "winuser"   -> MulDiv(TimeUs, CxPlatPerfFreq, UsPerSec, CxPlatPerfFreq)
      [] platform = "winkernel" -> MulDiv(TimeUs, CxPlatPerfFreq, UsPerSec, UsPerSec)

CxPlatTimeDiff32Mutant(T1, T2) ==
    IF T2 > T1 THEN T2 - T1 ELSE U32(T2 + (Word - 1 - T1))

CxPlatTimeDiff32(T1, T2) ==
    IF T2 > T1 THEN T2 - T1 ELSE U32(T2 + (Word - 1 - T1) + 1)

CxPlatTimeAtOrBefore32Mutant(T1, T2) == T1 <= T2

CxPlatTimeAtOrBefore32(T1, T2) == S32(U32(T1 - T2)) <= 0

------------------------------------------------------------------------------
(* Waiting.  A platform is told how long to wait in units of its own, or   *)
(* when to stop; Never is INFINITE.                                        *)
Never == -1
Awake == [call |-> "none", ms |-> 0, units |-> 0, forward |-> 0, back |-> 0]
Interrupted == [Awake EXCEPT !.call = "interrupted"]

UnitsPerSec ==
    CASE OnPosix                -> NsPerSec
      [] platform = "winuser"   -> MsPerSec
      [] platform = "winkernel" -> Ns100PerSec

(* The clock a deadline is a time of, that of the condition variable. *)
DeadlineClock == IF platform = "linux" THEN now ELSE now + skew

timespec_get == [tv_sec |-> (now + skew) \div NsPerSec, tv_nsec |-> (now + skew) % NsPerSec]

AbsoluteNow == IF platform = "linux" THEN clock_gettime ELSE timespec_get

CxPlatGetAbsoluteTimeMutant(DeltaMs) ==
    LET nsec == AbsoluteNow.tv_nsec + (DeltaMs % MsPerSec) * NsPerMs
    IN  [tv_sec |-> AbsoluteNow.tv_sec + DeltaMs \div MsPerSec + nsec \div NsPerSec, tv_nsec |-> nsec]

CxPlatGetAbsoluteTime(DeltaMs) ==
    LET sec == AbsoluteNow.tv_sec + DeltaMs \div MsPerSec
        nsec == AbsoluteNow.tv_nsec + (DeltaMs % MsPerSec) * NsPerMs
    IN  IF nsec >= NsPerSec
        THEN [tv_sec |-> sec + 1, tv_nsec |-> nsec - NsPerSec]
        ELSE [tv_sec |-> sec, tv_nsec |-> nsec]

(* Sleep and WaitForSingleObject count milliseconds. *)
WindowsUnits(dwMilliseconds) ==
    IF dwMilliseconds = Word - 1 THEN Never ELSE dwMilliseconds

(* KeSetTimer and KeWaitForSingleObject: a negative time is relative, one  *)
(* that is not negative is a date, here long past.                         *)
KernelUnits(QuadPart) == IF QuadPart < 0 THEN -QuadPart ELSE 0

CxPlatSleep(DurationMs) ==
    CASE OnPosix ->
            (DurationMs \div MsPerSec) * NsPerSec + NsPerMs * (DurationMs % MsPerSec)
      [] platform = "winuser" -> WindowsUnits(DurationMs)
      [] platform = "winkernel" -> KernelUnits(S32(DurationMs) * (-Ns100PerMs))

CxPlatInternalEventWaitWithTimeoutMutant(TimeoutMs) ==
    KernelUnits(S32(TimeoutMs) * (-Ns100PerMs))

CxPlatInternalEventWaitWithTimeout(TimeoutMs) ==
    KernelUnits(S64(U64(-1 * (TimeoutMs * Ns100PerMs))))

CxPlatEventWaitWithTimeout(TimeoutMs) ==
    CASE OnPosix ->
            LET Time == CxPlatGetAbsoluteTime(TimeoutMs)
            IN  Time.tv_sec * NsPerSec + Time.tv_nsec - DeadlineClock
      [] platform = "winuser" -> WindowsUnits(TimeoutMs)
      [] platform = "winkernel" -> CxPlatInternalEventWaitWithTimeout(TimeoutMs)

------------------------------------------------------------------------------
Init ==
    /\ platform \in Platforms
    /\ CxPlatPerfFreq \in IF OnPosix THEN {NsPerSec} ELSE Freqs
    /\ now = 0 /\ skew \in IF platform = "darwin" THEN Skews ELSE {0}
    /\ T1Us32 = 0 /\ T1Ms32 = 0 /\ at = 0
    /\ wait = Awake

(* The waited-for time is over, so many units after the clock showed at. *)
Over == wait.units # Never /\ (now - at) * UnitsPerSec >= wait.units * CxPlatPerfFreq

Tick ==
    /\ now < MaxNow
    /\ wait.call \in {"sleep", "event"} /\ Over =>
          (now - at - MaxLate) * UnitsPerSec < wait.units * CxPlatPerfFreq
    /\ now' = now + 1
    /\ UNCHANGED <<platform, CxPlatPerfFreq, skew, T1Us32, T1Ms32, at, wait>>

TakeTime ==
    /\ T1Us32' = CxPlatTimeUs32
    /\ T1Ms32' = CxPlatTimeMs32
    /\ at' = now
    /\ UNCHANGED <<platform, CxPlatPerfFreq, now, skew>>

Stamp ==
    /\ wait.call \in {"none", "interrupted"}
    /\ TakeTime
    /\ wait' = Awake

(* The thread takes the time and sleeps, or waits for an event that nobody *)
(* sets.  Except for Sleep, the calls assert that ms is not the maximum.   *)
Sleep(ms) ==
    /\ wait.call \in {"none", "interrupted"}
    /\ platform = "winkernel" => ms # Word - 1
    /\ TakeTime
    /\ wait' = [Awake EXCEPT !.call = "sleep", !.ms = ms, !.units = CxPlatSleep(ms)]

WaitForEvent(ms) ==
    /\ wait.call \in {"none", "interrupted"}
    /\ ms # Word - 1
    /\ TakeTime
    /\ wait' = [Awake EXCEPT !.call = "event", !.ms = ms, !.units = CxPlatEventWaitWithTimeout(ms)]

Wake ==
    /\ wait.call \in {"sleep", "event"}
    /\ Over
    /\ wait' = Awake
    /\ UNCHANGED <<platform, CxPlatPerfFreq, now, skew, T1Us32, T1Ms32, at>>

(* A signal ends nanosleep, which is not called again.  (A debug build is   *)
(* then stopped by its assertion that nanosleep has succeeded.)             *)
Signal ==
    /\ OnPosix /\ wait.call = "sleep"
    /\ wait' = Interrupted
    /\ UNCHANGED <<platform, CxPlatPerfFreq, now, skew, T1Us32, T1Ms32, at>>

(* How far TIME_UTC is set forward, or back, when its skew becomes s. *)
Forward(s) == IF s > skew THEN s - skew ELSE 0
Back(s) == IF s < skew THEN skew - s ELSE 0

(* The clock TIME_UTC is set: a deadline that has not come yet comes       *)
(* earlier or later by as much.  History: how far it was set forward and   *)
(* back during the wait.                                                   *)
SetTime(s) ==
    /\ platform = "darwin" /\ s # skew
    /\ LET later(units) == units + Back(s) - Forward(s)
       IN  wait' = IF wait.call = "event" /\ ~Over
                   THEN [wait EXCEPT !.units = IF later(@) < 0 THEN 0 ELSE later(@),
                                     !.forward = @ + Forward(s), !.back = @ + Back(s)]
                   ELSE wait
    /\ wait'.forward + wait'.back <= MaxSet
    /\ skew' = s
    /\ UNCHANGED <<platform, CxPlatPerfFreq, now, T1Us32, T1Ms32, at>>

Next ==
    \/ Tick
    \/ Stamp
    \/ \E ms \in Durations : Sleep(ms) \/ WaitForEvent(ms)
    \/ Wake
    \/ Signal
    \/ \E s \in Skews : SetTime(s)

Spec == Init /\ [][Next]_vars

------------------------------------------------------------------------------
TypeOK ==
    /\ platform \in Platforms
    /\ CxPlatPerfFreq \in Nat \ {0}
    /\ now \in Nat /\ at \in 0 .. now /\ skew \in Nat
    /\ T1Us32 \in 0 .. Word - 1 /\ T1Ms32 \in 0 .. Word - 1
    /\ wait \in [call : {"none", "sleep", "event", "interrupted"},
                 ms : 0 .. Word - 1, units : Nat \cup {Never}, forward : Nat, back : Nat]

(* The microseconds the clock has counted when it shows n, and the largest *)
(* frequency for which no intermediate result of the conversion overflows. *)
TrueUs(n) == (n * UsPerSec) \div CxPlatPerfFreq
InRange == CxPlatPerfFreq + UsPerSec <= Word + 1

(* CxPlatTimeUs64() is the time in microseconds, rounded down, for every   *)
(* count of the clock: the conversion in two halves loses nothing.         *)
TimeIsExact ==
    (OnPosix \/ InRange) /\ now < DoubleWord => CxPlatTimeUs64 = U64(TrueUs(now))

(* CxPlatTimeDiff32 of two times of 32 bits is the time between them, as   *)
(* long as that is shorter than the range, however often the clock and the *)
(* words have wrapped around.                                              *)
ElapsedIsMeasured ==
    (OnPosix \/ InRange) /\ TrueUs(now) < DoubleWord /\ now < DoubleWord =>
       LET us == TrueUs(now) - TrueUs(at)
           ms == TrueUs(now) \div UsPerMs - TrueUs(at) \div UsPerMs
       IN  /\ us < Word => CxPlatTimeDiff32(T1Us32, CxPlatTimeUs32) = us
           /\ ms < Word => CxPlatTimeDiff32(T1Ms32, CxPlatTimeMs32) = ms

(* CxPlatTimeAtOrBefore32 puts the earlier of two times first while they   *)
(* are less than half the range apart.  Exactly half the range apart each  *)
(* is at or before the other; from there on the order is the wrong one.    *)
OrderIsKept ==
    (OnPosix \/ InRange) /\ TrueUs(now) < DoubleWord /\ now < DoubleWord =>
       LET us == U32(TrueUs(now) - TrueUs(at))
       IN  /\ CxPlatTimeAtOrBefore32(T1Us32, CxPlatTimeUs32) <=> us <= Half
           /\ CxPlatTimeAtOrBefore32(CxPlatTimeUs32, T1Us32) <=> us = 0 \/ us >= Half

(* In kernel mode, a count converted to microseconds and back is not later *)
(* than the count was, and less than a microsecond and a count earlier.    *)
(* In user mode, that holds for a counter of one megahertz only.           *)
RoundTripLosesNothing ==
    /\ platform = "winkernel" \/ (platform = "winuser" /\ CxPlatPerfFreq = UsPerSec)
    /\ InRange /\ TrueUs(now) < DoubleWord /\ now < DoubleWord
    => LET back == CxPlatTimeUs64ToPlat(CxPlatTimeUs64)
       IN  back <= now /\ (now - back) * UsPerSec < CxPlatPerfFreq + UsPerSec

SleepsForAPastDate == platform = "winkernel" /\ wait.call = "sleep" /\ wait.ms >= Half

WakesInTime ==
    wait.call \in {"sleep", "event"} /\ wait' = Awake =>
       (now - at + wait.forward) * MsPerSec >= wait.ms * CxPlatPerfFreq \/ SleepsForAPastDate

(* A wait lasts at least the milliseconds it was asked for, unless a       *)
(* signal ends it.  The exceptions are the sleep of kernel mode for 2^31   *)
(* ms or more, whose signed product is a date in the past, and the wait    *)
(* for an event where a deadline is a time of TIME_UTC: it is shorter by   *)
(* as much as that clock was set forward, and not by more.                 *)
WaitsLastAsAsked == [][WakesInTime]_vars

(* Once those milliseconds have passed the wait is over.  The exceptions   *)
(* are the sleep of user mode for the maximum, which never ends, and the   *)
(* wait for an event on a clock that is set back: it is longer by as much, *)
(* and not by more.                                                        *)
WaitsEndInTime ==
    /\ wait.call \in {"sleep", "event"}
    /\ (now - at - wait.back) * MsPerSec >= wait.ms * CxPlatPerfFreq
    => Over \/ (platform = "winuser" /\ wait.call = "sleep" /\ wait.ms = Word - 1)

=============================================================================
