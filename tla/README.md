# A TLA+ model of cxplat

cxplat is a platform abstraction library: events, locks, threads, memory, time
and a few containers, once for POSIX, once for Windows user mode and once for
Windows kernel mode. This directory holds TLA+ specifications of its parts, the
TLC models that check them, and proofs checked by TLAPS. `PROJECT.json` lists
the components, the runs, the source lines each definition models, the hazards
of the code, the mutations the properties are tested with, and the theorems.

To repeat a run: `tlc -config PosixEvent.cfg MCPosixEvent` (the table below
names module and configuration). To repeat a proof: `tlapm PosixEventProof.tla`.

## The system

| Part | State | Operations | What is hard |
|---|---|---|---|
| `CXPLAT_EVENT`, POSIX (`inc/cxplat_posix.h`) | mutex, condition, `Signaled`, `AutoReset` | Initialize, Uninitialize, Set, Reset, WaitForever, WaitWithTimeout | lost and spurious wakeups, a timeout racing a Set, one Set and many waiters, destruction by the thread just woken |
| `CXPLAT_EVENT`, Windows | an event object of the system | the same | none of its own |
| `KArray` (`inc/karray.h`) | `_p`, `m_numElements`, `m_bufferSize`, the elements' lifetimes | constructors, moves, reserve, resize, append, insertAt, insertSorted, insertSortedUnique, eraseAt, pop_back | allocation failure in the middle, overlapping moves, limits of `ULONG` and `size_t`, ownership of the buffer |
| `CxPlatVector` (`inc/cxplatvector.h`) | `KArray` in kernel mode, `std::vector` in user mode | push_back, eraseAt | the same promises on both |
| Locks, kernel mode (`inc/cxplat_winkernel.h`) | push locks and critical regions; spin locks and `PrevIrql`; each thread's IRQL | acquire, release, shared and exclusive; raise and lower IRQL | saved level kept in the lock, nesting, suspension of a holder |
| Locks, POSIX and user mode | recursive mutexes, critical sections, reader-writer locks | acquire, release, shared and exclusive | what may be acquired twice differs between platforms and kinds |
| Threads (`cxplat_posix.c`, `cxplat_winuser.h`, `cxplat_winkernel.h`) | handle, running thread, optional custom context | create, wait, wait with timeout, delete | failures after the thread was started, joining once, errno |
| `CxPlatAsyncT`, lock and event wrappers (`inc/cxplat.hpp`) | `Initialized`, `ThreadCompleted` | constructor, Wait, WaitFor, destructor | order of Wait and destruction |
| Platform (`cxplat_posix.c`, `cxplat_winuser.c`, `cxplat_winkernel.c`) | random device, NUMA masks, processor tables, heap | Initialize, Uninitialize | partial failure and who frees what |
| Memory | `AllocFailDenominator`, `AllocCounter` | Alloc, Free, Set/GetAllocFailDenominator | pattern of injected failures, denominator changed by another thread |
| Time | none; clocks | taking the time, differences, comparisons, conversions, sleeping, deadlines | wraparound at 32 and 64 bits, units, signed and unsigned |
| Interlocked shim (`inc/cxplat_posix_shim.h`) | none | atomic arithmetic and exchange | width and meaning of results |

Interactions: `CxPlatAsyncT` creates and joins a thread, events and locks tie
such threads together in the tests and in client code; a timed wait takes its
deadline from the time functions; `KArray` and the platform allocate through the
pool, where failures can be injected; the event's mutex and the thread functions
sit directly on pthreads, the kernel locks on the kernel's.

## Modules

| Module | Models |
|---|---|
| `Event` | what callers may expect of an event: each call takes effect in one step between its start and its return |
| `PosixEvent` | `CXPLAT_EVENT` on POSIX, one step per access to mutex, condition or flag |
| `PosixEventProof` | its inductive invariant, its safety properties, that it implements `Event`, and that nobody keeps the mutex |
| `KArraySlots` | slots of a buffer; when `moveElements` may be called and what it leaves |
| `KArrayMove` | `KArray::moveElements`, one step per iteration of its six loops |
| `KArrayMoveProof` | the loop invariant, lifetimes and result, and a bound on the steps, for every size |
| `Vector` | what callers may expect of a `KArray`: a vector whose calls succeed or change nothing |
| `KArray` | all arrays, the pool's blocks, and every member function that changes them |
| `KArrayProof` | its inductive invariant, ownership of blocks, lifetimes, and that it implements `Vector` |
| `Locks` | the four locks on each platform, critical regions and interrupt levels |
| `LocksProof` | its inductive invariants; levels are restored, holders are in critical regions, locks exclude, and what a deadlock takes |
| `Task` | what callers may expect of a `CxPlatAsyncT`: a task that runs once and is over when its object goes |
| `Async` | `CxPlatAsyncT` and `CxPlatThreadCreate`, `...Wait`, `...Delete` on every platform, with the threads |
| `AsyncProof` | its inductive invariant, its safety properties, that it implements `Task`, and that no call runs in circles |
| `FailureInjection` | `CxPlatAlloc` and `CxPlatSetAllocFailDenominator` of debug builds, one step per access |
| `Platform` | `CxPlatInitialize` and `CxPlatUninitialize` on every platform, the processor tables and who owns which block |
| `PlatformProof` | its inductive invariant: who holds what at each step, and that the processor tables agree for every topology |
| `Interlocked` | the interlocked operations of the POSIX shim, and the protocols threads use them for |
| `InterlockedProof` | an invariant for each protocol, for any number of threads and every width; and about `FailureInjection`, whose counter is interlocked, which and how many allocations fail, and when a division by zero is possible |
| `Time` | taking the time, comparing times, sleeping and waiting on every platform |
| `TimeProof` | exactness of the conversions, differences, order and waits for every width, frequency and duration |
| `MC...` | instances for TLC |

### The event

`phase`, `Signaled` and `AutoReset` are the object, `owner` is its mutex; `pc`
says where each thread is in a call, `deadline` whether the absolute time of its
wait has come. `setter` and `acked` are history: whose Set raised the flag, and
which setters' Set has been reported by a wait. They let the model say when a
caller may uninitialize the event: when every thread is out of its calls, or is
in a Set that a wait has already reported. Mutex, condition, spurious wakeups,
timeouts and the clock are pthreads' and are marked external; that a deadline
comes at last is assumed also where its clock can be set back (see Time). Failure
of a pthread call ends the process (`CXPLAT_FRE_ASSERT`) and is left out.

`Event` knows the flag, the kind of the event and, for each thread, which call
it is in and whether it has taken effect. `PosixEvent` implements it with Set
taking effect when the flag is written and a wait when it consumes the flag or
finds that it has timed out. On Windows each macro is one call on an event object
of the system: those are the actions of `Event` themselves, and so are the
methods of the C++ class `CxPlatEvent`.

### KArray

A slot is raw storage, a live object, or an object that was moved from.
`KArrayMove` follows the loops of `moveElements` for a non-trivial `T`; `fault`
becomes true when an object is constructed over a live one, destroyed or moved
from without being there, or when the buffer is left. It is checked and proved
for a gap of any width, which is what the loops are written for; the callers
only ever shift by one.

`KArray` takes each call as one step. `reserve` and `grow` are sets of outcomes,
since the pool may refuse any request (an overflow of the byte count is a
refusal too). `moveElements` appears as `Shift`; `fault` is also set if it is
called outside `Movable`, the case `KArrayMove` starts from, so that the two
modules together cover the function. `ULONG_MAX` and `SIZE_MAX` are parameters.
`stopped` stands for `RtlFailFast` and for the null pointer in the filling
constructor, after which nothing runs. `call` records the last call with its
arguments and results; `Vector` speaks about the same record, so that the
refinement relates each call to its namesake. Trivially copyable elements are
moved by memcpy and memmove to the same effect. The constructor `KArray(count,
value)` does not construct its elements: it assigns to raw storage of the pool
(`karray.h:550`), which is defined only for a `T` such as a number. `KArray_fill`
takes `T` to be one, and `LifetimesRespected` leaves these assignments out. The order of insertSorted is the
order of numbers. `subscript` is `operator[]`, which the iterators use as well;
the other read-only members are not modelled.

An argument is a value from elsewhere, or (`append_own`, `insertAt_own`) one of
the array's own elements. In that case it is read where it lies, after `grow` and
`moveElements`: `Read` gives any value when the buffer was replaced or the slot
has been moved from, and the predecessor when the elements were shifted under the
reference. `Vector` permits exactly that, so `ImplementsVector` says when such a
call is safe: when the buffer does not grow and the element lies before the
position of insertion.

### Locks

`platform` is chosen in `Init`. `Kind` says what each of the four locks is there:
recursive mutexes and `pthread_rwlock` on POSIX, critical sections and `SRWLOCK`
in user mode, push locks and spin locks in kernel mode. A thread opens brackets
(`held`): locks, and raises of its level. In kernel mode a macro for a dispatch
lock is three steps to acquire (raise and ask, grant, store `PrevIrql`) and two to
release (load `PrevIrql`, release and lower); one for a push lock enters the
critical region first and leaves it last. `level` in a bracket is history for
locks: the macros have no such variable. `mixed` records that two readers of
different levels held a lock together.

Callers close brackets in reverse order and acquire locks in one order, except
that they may acquire again a lock they hold; push locks are acquired below
DISPATCH_LEVEL, as the kernel demands. Whether a wait can end is expressed by
`WaitsFor`: the holders that conflict and, for the locks that do not let readers
overtake a waiting writer, such writers too. glibc tells the holder of a
`pthread_rwlock` for writing that it would wait for itself (EDEADLK), and
`CXPLAT_FRE_ASSERT` ends the process. Initialization happens once, before the
threads run.

### Threads and CxPlatAsyncT

One caller constructs objects, waits for them with and without timeout, and
destroys them; each object's thread runs beside it. `pc` is the caller's place
in a call, one step for each system call that can fail, in the order of the
platform's `CxPlatThreadCreate`; `thr` is the thread's progress and may reach its
end while the constructor is still in `pc`. `build` is chosen in `Init`
(platform, `CXPLAT_USE_CUSTOM_THREAD_CONTEXT`, `DEBUG`, `CXPLAT_NUMA_AWARE`), so
one run covers all nine builds that differ here. `refs` is what keeps a thread's resources: a join that is owed, a
handle, a referenced thread object. `life`, `AsyncContext`, `Initialized` and
`ThreadCompleted` are the C++ object. A pthread function that fails may set
`errno` or leave it alone (`PthreadError`). `stopped` names an assertion that
fails or undefined behaviour that is met; nothing runs after it. Setting an
affinity, to a processor or to the mask of a NUMA node, has no effect in the model
but that it uses the thread's handle, also one that was never written. The
assertion of user mode that the ideal processor exists (`cxplat_winuser.h:555`)
cannot fail: `CxPlatAsyncT` asks for processor 0.

An orphan is a thread that runs although `CxPlatThreadCreate` has reported
failure. `Task` calls it lost: the caller was told that there is no thread, so
nothing is promised about it.

### Failure injection

Each read of `AllocFailDenominator` in `CxPlatAlloc`, the interlocked increment
and the two writes of a Set are steps of their own; the accesses are neither
ordered nor locked in the code. `tries`, `passed`, `Failed`, `raced` and `last` are
history: what was asked and failed since the last Set, and whether that Set
overlapped another call. Its definitions have names of their own (`AllocSpec`,
`AllocInv`, ...), so that `InterlockedProof` and `MCInterlocked` can extend it beside
`Interlocked`. The random number of positive denominators may fail any call, except
where no remainder can be 1. The wraparound of the counter
after 2^32 allocations is left out.

### Platform

The calls are serialized and alternate, as the header demands, for as long as
the program runs; each starts from what the earlier ones have left. `memory`
gives each block of the heap its tag, and a free of a block that does not carry
the expected tag stops the program. On POSIX the number of processors is that of
`sysconf`, also its -1 as a `uint32_t` (`UINT32_MAX`). The processor tables are filled from any
topology the system may report, and `CxPlatProcCurrentNumber` reads them. In user
mode processors are added at any time (`AddProcessors`, external), between the two
queries and after the initialization, to groups there are and in new groups;
`grown` remembers that a group without processors has got some since the tables
were made.

### Interlocked operations

Each operation is one atomic builtin: it gives the variable a value and returns
one (`Effect`). A short and a long are ranges around zero, and a conversion to a
narrower type (`As`) wraps. What an operation is good for shows only when several
threads use it, so `protocol`, chosen in `Init`, is one of six uses: reference
counts, bits, a flag, a slot for a pointer, numbers drawn from a counter, and
updates by compare and exchange. Their steps are callers of the shim; only the
operators named after its functions model it.

### Time

`now` is the clock: performance counts on Windows, nanoseconds on POSIX. A thread
takes the time in microseconds and milliseconds of 32 bits, sleeps or waits with a
timeout for an event that nobody sets, and `at` remembers when. Arithmetic is that
of the code, at the width of `Word` and `DoubleWord`. What a platform is told to
wait for is a number of its own units (`units`), or for ever: the conversion from
milliseconds is the code's, the meaning of the result the system's (external). The
timed wait on POSIX goes through the absolute deadline. On Linux that is a time of
CLOCK_MONOTONIC, like the clock of the condition variable; on other systems
(`"darwin"`) both are TIME_UTC, which is ahead of `now` by `skew` and may be set at
any time (`SetTime`, external). Setting it brings the deadline of a wait nearer or
puts it off; `forward` and `back` in `wait` are history and say by how much.
CLOCK_MONOTONIC, from which the times are taken on every POSIX system, is taken to
be monotonic, although a comment at `cxplat_posix.c:257` doubts it of darwin.
`MaxLate` bounds how late
the scheduler wakes a thread. The 64-bit difference and comparison, which assume
that nothing wraps, the calendar time and the timer resolution are left out.

## What the runs check

| Run | Module, configuration | Shows |
|---|---|---|
| `posix_event` | `MCPosixEvent`, `PosixEvent.cfg` | three threads: `NoLostWakeup`, `NoUseAfterUninitialize`, `ImplementsEvent`, `SignaledWaitEnds`, `TimedWaitReturns`, `SetAndResetReturn` |
| `karray_move` | `MCKArrayMove`, `KArrayMove.cfg` | every call on buffers of up to 5 slots and gaps of up to 2: `MovesElements`, `Terminates` |
| `karray` | `MCKArray`, `KArray.cfg` | two arrays and moves between them: `BlocksAreOwned`, `WellFormed`, `LifetimesRespected`, `ImplementsVector` |
| `locks` | `MCLocks`, `Locks.cfg` | each platform, two threads, four locks, nesting of 3: `IrqlIsRestoredUnlessMixed`, `HoldersCannotBeSuspended`, `DeadlockNeedsReacquisition` |
| `locks_mixed` | `MCLocks`, `LocksMixed.cfg` | `IrqlIsRestored` is violated, see below |
| `async` | `MCAsync`, `Async.cfg` | two objects, every build, every failure: `NoOrphans`, `DestroyedAfterCallback`, `CompletedIsOver`, `NothingLeaks`, `StopsAreKnown`, `CallsReturn`, `ImplementsTask` |
| `async_errno` | `MCAsync`, `AsyncErrno.cfg` | `CreatedMeansStarted` is violated, see below |
| `failure_injection_test` | `MCFailureInjection`, `FailureInjection.cfg` | `TestedAllocationFails` is violated, see below |
| `platform` | `MCPlatform`, `Platform.cfg` | every platform, any number of initializations: `ProcessorTablesAgree`, `HeldWhileUp`, `NothingHeldWhileDown`, `StopsAreKnown` |
| `platform_free` | `MCPlatform`, `PlatformFree.cfg` | `FreesWhatWasAllocated` is violated, see below |
| `interlocked` | `MCInterlocked`, `Interlocked.cfg` | three threads, six protocols, three widths: `FirstAndLastAreTold`, `OneIsInside`, `ObjectsHaveOneOwner`, `TicketsAreDistinct`, `UpdatesAreTold`; and two threads that allocate while failures are injected: `DividesUnlessRaced`, `FailsAsAsked`, `EveryNthFails` |
| `time` | `MCTime`, `Time.cfg` | four platforms, five frequencies, a deadline's clock that is set, a clock that passes every value of 8 bits: `TimeIsExact`, `ElapsedIsMeasured`, `OrderIsKept`, `RoundTripLosesNothing`, `WaitsEndInTime`, `WaitsLastAsAsked` |

Bounds. Three threads give an event a setter, and two waiters that compete, or a
waiter and a resetter. Each makes `MaxCalls` = 1 call and there are
`MaxSpurious` = 2 spurious wakeups, besides any number of initializations: with
endless calls an unfair mutex could starve a thread, which the code does not
exclude. Two calls each with one spurious wakeup (some 315,000 states) hold as
well, and the safety properties are proved without these bounds. Five slots hold a
tail of two elements moved by two, so that each loop runs and overlaps. With
`ULONG_MAX` = 7 an array meets the minimum of 4 in `grow`, the exponential growth
from 4 to 6, explicit sizes up to the limit, and a growth that is refused; the
counts 0, 2, 5 and 8 lie below, between and above these. Three blocks let both
arrays have a buffer while one grows. Two values are enough to tell a sorted array
from another and an element from its neighbour. `MCKArray` leaves the record
`call` out of the view, since no later step depends on it; `ImplementsVector` is
checked on every step all the same. The model of the locks has one lock of each of
the four kinds and a nesting in which a thread holds a lock of three of them, or
one lock three times. Objects of `Async` share nothing but the caller and its
`errno`; two show the `errno` that one construction leaves to the next, and a third
would add nothing else. Denominators of 0, 1, 2, -2 and -3 with `MaxAllocs` = 5
allocations after a Set let both counting denominators fail once or twice; two
threads are enough for a Set or an increment between any two accesses, and the
proof covers more. The threads of the six protocols and those that allocate share
nothing, so a state of `MCInterlocked` is of one use or the other. Three blocks are what user mode holds at most at one time;
topologies have up to three groups of up to two processors; `MaxProcessors` = 5
stands for `UINT16_MAX`, so that some of them exceed it. A short has the values -7
to 6 and a long -8 to 7: the least difference at which a value is cut off, with
counters that start anywhere and hence pass their largest value; up to 5 updates
or numbers, and two references for each of three threads, stay within it. In
`Time` a word has 4 bits, so that the clock of 8 bits wraps the 32-bit times in
microseconds many times over; the frequencies lie below, at and above a million
(here 6), at the largest in range (11) and beyond it (13); durations are 0, 1, more
than a second, and those around half the range and the maximum. TIME_UTC is even
with the other clock or 5 ahead, a time longer than the shorter waits, and is set by
at most 10 during one wait, once or several times in each direction.

Fairness. `posix_event` assumes weak fairness of each thread's steps (the
scheduler runs a thread that can run; a free mutex is eventually had when the
calls that compete for it are finitely many) and of the clock. No call, no
spurious wakeup and no order of mutex grants is assumed. `karray_move` assumes
that the one thread in the function runs. `async` assumes that the caller and the
threads run, and that callbacks return, without which a join need not end; no new
call is assumed to be made.

Deadlock is checked where the system cannot stop by itself. It can in
`posix_event` (calls run out, and a wait for ever may wait for ever), in
`karray_move` (the function returns), in `karray`, `platform` and with injected
failures (the program is stopped), in `async` (each object is destroyed
once), in `locks` (a thread waits for itself; `DeadlockNeedsReacquisition` says
when), in `interlocked` (updates and numbers run out) and in `time` (the clock
reaches its bound).

### What was found

`locks_mixed`: a dispatch reader-writer lock keeps one `PrevIrql` for all
its readers (`inc/cxplat_winkernel.h:181`). A thread at DISPATCH_LEVEL and one at
PASSIVE_LEVEL acquire it shared, in this order; the field now says
PASSIVE_LEVEL, and the first is lowered to it by its release although it had
raised its level before. `LockTest.cpp:107` expects DISPATCH_LEVEL there, with a
single thread. `locks` shows that nothing else goes wrong: levels are
right as long as no lock was shared by readers of different levels.

`async_errno`: pthread functions return their error, and POSIX does not ask them
to set `errno`; `CxPlatThreadCreate` returns `errno` (`cxplat_posix.c:391`). If it
is 0 the caller takes a creation that failed for a success, and joins a handle
that was never written. `ThreadTest.cpp:53` takes the status for the thread.

`platform_free`: when the second `GetLogicalProcessorInformationEx` fails,
`CxPlatGetProcessorGroupInfo` frees the buffer (`cxplat_winuser.c:69`) and leaves
the pointer with its caller, which frees it again at line 187. Processors that
are added between the two queries can make the second one fail.

`failure_injection_test`: with the denominator -N the Nth allocation after a Set
fails, as the comment at `cxplat_posix.c:21` says. `MemoryTest.cpp:90` sets -6,
counts ten allocations from 0 and expects the one with the count 6, the seventh, to
fail and no other; the code fails the sixth. `interlocked` shows that it is always
the Nth, whichever threads allocate.

Met while modelling, and part of the passing models:

- `CxPlatAsyncT::Wait` joins without testing `ThreadCompleted`
  (`cxplat.hpp:115`): on POSIX a second Wait joins a thread that was joined
  before, against the assertion at `cxplat_posix.c:490`. `StopsAreKnown` of
  `Async` admits this stop ("join").
- Linux builds with custom contexts write through the null pointer when the
  context cannot be allocated (`cxplat_posix.c:369`, "null" in `StopsAreKnown`).
- Release builds of kernel mode report failure for a thread that runs when its
  object cannot be referenced, or its affinity or ideal processor not be set
  (`cxplat_winkernel.h:508-572`); `NoOrphans` shows that no other build does.
- With a denominator of 1 no allocation fails, since no remainder is 1
  (`cxplat_posix.c:193`); the comment at line 20 says "1/Denominator of
  allocations to fail."
- A Set that overlaps an allocation can make it divide by zero: it reads the
  denominator again after its test (`DividesUnlessRaced`).
- The NUMA masks are not freed when `/dev/urandom` cannot be opened
  (`cxplat_posix.c:136`), and `CxPlatNumaNodeMasks` keeps its value after
  `CxPlatUninitialize`: where a later initialization finds no NUMA support they are
  freed again. `NothingHeldWhileDown` and `StopsAreKnown` of `Platform` admit exactly
  this.
- Where the system is not Linux, a timed wait ends early or late by as much as
  TIME_UTC is set while it lasts (`cxplat_posix.c:260`, `WaitsLastAsAsked`,
  `WaitsEndInTime`).
- `sysconf` is not checked for failure (`cxplat_posix.c:111`): its -1 becomes the
  largest number of processors there can be.
- `CxPlatTimeUs64ToPlat` of user mode divides the low half by the frequency
  (`cxplat_winuser.h:293`), where kernel mode divides by a million
  (`cxplat_winkernel.h:268`): a time is converted back rightly only with a counter
  of one megahertz. `RoundTripLosesNothing` is about kernel mode, and about user mode
  with that frequency; of user mode with another one nothing is shown.
- `CxPlatSleep` of kernel mode multiplies as signed (`Int32x32To64`,
  `cxplat_winkernel.h:363`), the timed wait as unsigned: for 2^31 ms and more the
  timer is set to a date in the past and the thread does not sleep.
- `CxPlatSleep` on POSIX does not continue after a signal, and a debug build is
  stopped by it (`cxplat_posix.c:291`); in user mode the maximum means for ever.
- The conversion of counts to microseconds is exact for frequencies up to
  2^32 + 1 - 10^6 Hz; beyond, a sum of 64 bits can overflow (`TimeIsExact`).
- `CxPlatTimeAtOrBefore32` finds two times exactly half the range apart each at or
  before the other (`OrderIsKept`).
- `InterlockedCompareExchange` of the shim returns a short
  (`cxplat_posix_shim.h:143`): with a larger value a caller that retries until it is
  returned what it has read repeats an update that was made, or takes one for made
  that was not (`UpdatesAreTold`). `InterlockedAnd` and `InterlockedOr` return the
  new value; the functions of Windows of these names return the old one.
- `KArray::append` and `insertAt` read an element of the array that is passed by
  reference after the buffer may have been freed (`karray.h:688`).
- A CxPlatLock may be acquired again by its holder on POSIX and in user mode and
  blocks for ever in kernel mode; no reader-writer lock may be acquired again by a
  writer on any platform (`DeadlockNeedsReacquisition`).
- In user mode a thread in a processor group that had no processors at
  initialization reads past the end of the group table, or divides by zero
  (`cxplat_winuser.h:433`); processors added to other groups are counted modulo
  the old number (`ProcessorTablesAgree`).

## What is proved

| Theorem | States |
|---|---|
| `PosixEventProof!Invariance` | `Spec => []IInv` |
| `PosixEventProof!TypeCorrect`, `WakeupsAreNotLost`, `UninitializeIsSafe` | its consequences |
| `PosixEventProof!Refinement` | `Spec => ImplementsEvent` |
| `PosixEventProof!NobodyKeepsTheMutex` | `Spec => MutexIsReleased`, an action property |
| `KArrayMoveProof!Invariance` | `Spec => []IInv` |
| `KArrayMoveProof!ElementsAreMoved` | `Spec => []MovesElements` |
| `KArrayMoveProof!StepsRunOut` | `Spec => []WithinBuffer /\ CountsDown` |
| `KArrayProof!Invariance` | `Spec => []Inv` |
| `KArrayProof!KArrayOwnsItsBlocks`, `KArrayIsWellFormed`, `KArrayRespectsLifetimes` | its consequences: `BlocksAreOwned`, `WellFormed`, `LifetimesRespected` |
| `KArrayProof!KArrayImplementsVector` | `Spec => ImplementsVector` |
| `AsyncProof!Invariance` | `Spec => []IInv` |
| `AsyncProof!DestructionIsSafe`, `CompletionIsReal`, `NoLeak`, `OrphansAreKnown` | its consequences |
| `AsyncProof!OnlyKnownStops` | `Spec => []StopsAreKnown` |
| `AsyncProof!Refinement` | `Spec => ImplementsTask` |
| `AsyncProof!NoCallRunsInCircles` | `Spec => CallsAdvance`, an action property |
| `InterlockedProof!FailureInvariance` | `AllocSpec => []AllocInv` |
| `InterlockedProof!DivisionIsGuarded`, `NthAllocationsFail` | its consequences |
| `InterlockedProof!FailuresAreAsAsked` | `AllocSpec => []FailsAsAsked` |
| `PlatformProof!Invariance` | `Spec => []IInv` |
| `PlatformProof!TablesAlwaysAgree`, `AlwaysHeldWhileUp`, `NothingIsHeldWhileDown`, `OnlyKnownStops` | its consequences: the four properties of `Platform` |
| `TimeProof!MulDivIsExact` | `MulDiv(Count, M, F, F) = U64((Count * M) \div F)` whenever `F + M <= Word + 1` |
| `TimeProof!Invariance` | `Spec => [](IInv /\ TypeOK)` |
| `TimeProof!TimeExact`, `Elapsed`, `Order`, `Waits`, `WaitsEnd` | its consequences, with `MulDivIsExact` |
| `TimeProof!RoundTrip` | the same for the way back to counts: kernel mode, and user mode at one megahertz only |
| `LocksProof!LocksInvariance` | `Spec => []LInv` |
| `LocksProof!LevelIsRestored`, `HoldersAreInCriticalRegions` | its consequences |
| `LocksProof!OrderInvariance` | `Spec => []OInv` |
| `LocksProof!DeadlocksAreReacquisitions` | `Spec => []DeadlockNeedsReacquisition` |
| `InterlockedProof!OneThreadIsInside`, `EachObjectHasOneOwner`, `EachUpdateIsTold`, `FirstAndLast`, `NumbersAreDistinct` | the five properties of `Interlocked` |

They hold for any set of threads (assumption: `NoThread` is not one), for
buffers and values of any size and kind (assumptions: raw, moved-from and values
are told apart; `MaxBuffer` is a number), for any number of arrays and blocks and
any limits of `ULONG` and `size_t` (assumptions: the former is positive and not
greater than the latter, `NULL` is not a block, and a block that is not allocated is
told apart from every buffer), for any number of objects and set of
builds (assumption: custom contexts exist on Linux and in user mode only), for
any denominators and number of allocations (assumption: they are integers,
and zero is one of the denominators),
for any builds, topologies and processor numbers (assumptions: a topology is a
sequence of numbers of processors, the limit on processors is positive, `Null` is not
a block and there are finitely many blocks), and for any width of a word, units of time,
frequencies and durations (assumption: they are positive numbers, a duration fits
a word, the kernel's unit is not larger than half a word, and TIME_UTC is not
behind the other clock). For the locks, the order in
which they are taken is that of numbers: there are finitely many, each is of one
kind, and the nesting is bounded by any number. For the interlocked operations, a
short is narrower than a long, the threads are finitely many and their references
fit a short, not more numbers are given out than there are, and `NULL` is not an
object.

`NoLostWakeup` and `NoUseAfterUninitialize` are not inductive. `IInv` adds that
the mutex is owned by exactly the thread whose `pc` is inside a critical section
(so tests and blocking, writes and broadcasts do not interleave), that a wait
about to consume finds the flag still up, that only waits have deadlines, that
the thread whose Set raised the flag is between its write and its unlock, hence
that a wait never reports an unfinished Set (`acked` is empty), and that one
thread uninitializes. The refinement uses `IInv` for the steps at which a call
takes effect.

For `moveElements`, `Slot` says for each loop what each slot holds when the loop
variable is `i`: its refilled, moved-from and untouched ranges. `IInv` states
that the buffer is exactly that, and bounds `i`; each iteration changes two slots
and moves the boundaries by one.

For `CxPlatAsyncT`, `DestroyedAfterCallback` needs to know that the destructor
reaches its last step only with an ended thread, `CompletedIsOver` that
`ThreadCompleted` was set after a join or a wait that did not time out, and
`NothingLeaks` which references a thread has at each step of its creation on
each platform. `IInv` says these things, and that a creation with a running
thread fails in release builds of kernel mode only. `StopsAreKnown` needs besides that
a thread which has not read its custom context finds it allocated, and that a POSIX
thread can be joined until a wait or the destructor has joined it (`Ready`). The refinement maps the
object's and the thread's states to one task; a creation, an exit, a wait that
reports and a destruction are steps of `Task`, all other steps stutter.

For failure injection, `AllocInv` follows the denominator: a call that no Set has
overlapped finds the one it has tested. `StoppedByZero` adds that the program is
stopped with a denominator of zero and a call about to divide; with `AllocInv` that
call, and every other one at a division, is an overlapped one (`DividesUnlessRaced`).
After a Set that ran alone, the numbers
from 1 to the counter have been given out once each, and every multiple of N
among them is failed or held by a call about to test it; when no call is in
progress, that is `EveryNthFails`. `FailsAsAsked` counts calls rather than numbers.
`Counted` keeps the balance: after a Set that ran alone, each call was passed on, is
among the failed or is in progress, and each has incremented the counter or is one of
those that have not yet. When no call is in progress, the failed calls are the
multiples of N up to the number of calls, and `Multiples` counts these.

For `KArray`, `Inv` says of each array that its members are possible ones (no more
elements than slots, fewer slots than the limit, no buffer exactly when there are no
slots), that its first slots hold values and the others are raw, and that the
allocated blocks are those of live arrays, one each. `BlocksAreOwned` and `WellFormed`
follow at once; `LifetimesRespected` needs all of it, since each construction finds
raw storage only because of the last slots, and each call of `moveElements` is one its
loops handle only because of the sizes. A lemma for each step of the code that
several functions share (what `reserve` and `grow` leave, a gap opened and closed, an
element assigned) says what the slots hold, and a lemma for each member function puts
them together: the array has possible members again, the others are as they were, and
the elements have changed as the call of `Vector` says. The refinement is these
lemmas; for the sorted insertions it also needs that the position the search ends at
is the least one whose element is not smaller, and that an insertion there keeps the
order.

For the platform, `IInv` says at each step of each build which of the tables and
pointers is set, to a block of which tag, and that no two share a block; for user mode
also that the tables, when filled, are those of the report. For POSIX it says that
the NUMA pointer is null or to a block, and that no block has another tag: masks that
cannot be freed were freed before. That the tables agree is a
fact about sums: the offset of a group is the number of processors before it, so the
intervals of the groups follow one another, and an index below the total lies in
exactly one of them. The prefix sums are a recursive function on an interval; what is
needed of them is proved with a least counterexample (`UpTo`). Processors added later
are counted modulo the group's old number, which stays within the interval.

For time, `MulDivIsExact` is the heart: writing the count as two digits to the base
`Word`, the quotient of the high digit's product, shifted, and that of its remainder,
shifted, plus the low digit's product are the quotient of the whole; the condition
on the frequency is what keeps the second sum below a double word. `IInv` says that
the two times the thread has taken are those of the clock at `at`, cut to a word,
and that `units` is what the conversion of `ms` yields, which is `ms` times the units
of a millisecond except in the two cases the properties name, and within what the
clock of the deadline was set forward and back since. Differences and order
then follow from arithmetic modulo `Word`.

For the locks, `LInv` says of each thread which step of which macro it is at, how
many critical regions it has entered (one for each push lock it holds, and one for
the lock it is acquiring or releasing), and at which level it runs. While no two
threads of different levels have shared a dispatch lock, the level each holder came
with is the one in `PrevIrql`, since all of them came with the same; that makes
`IrqlIsRestoredUnlessMixed` inductive. `OInv` adds that the lock a thread is
acquiring is one it holds or greater than all it holds, and that a lock held
exclusively is held by one thread. In a deadlock without reacquisition, the waiting
thread whose lock is the greatest waits for a holder, who waits too, for a greater
lock or for one it holds: a contradiction.

For the interlocked operations each protocol has its invariant. The reference count
is the number of pairs of a thread and one of its references, which the assumption
keeps below the width; the flag is up when one thread is inside; the owners of an
object are one thread or the slot; the updates are as many as the threads that are
done; and the numbers given out are those that lie at most `number` before the
variable, counted modulo the width.

Every invariant, action property and refinement that a passing run checks is also
proved. Of the liveness properties, which need fairness and ENABLED and so stay with
TLC, three have a part that is safety, and that part is proved. For `Terminates`,
`Left` counts the steps `moveElements` has still to take, is never more than the
slots of the buffer and three, and each step lowers it. For `CallsReturn`, each step
lowers `Ahead`, the caller's distance from its return, or leaves the caller alone and
lowers `Work`, the steps one thread has left, or begins a call, or stops the program:
what fairness has to add is only that somebody who can go on does. For
`SetAndResetReturn` and `TimedWaitReturns`, the holder of the mutex is at most three
steps of its own, none of which waits, from releasing it, and nobody else moves it.

Only model-checked: the liveness properties `SignaledWaitEnds`, `TimedWaitReturns`,
`SetAndResetReturn`, `Terminates` and `CallsReturn`, and the properties of the runs that are expected to find a
violation. `KArray` takes `moveElements` as one step with the effect that
`KArrayMoveProof` shows of its loops; that the two fit together is by their shared
operators of `KArraySlots`, not by a theorem.

## Not modelled

- Tracing, process termination by assertions that cannot fail in the models, SAL
  annotations, build files and scripts: no state.
- Random numbers: one call of the operating system. On POSIX a short read of the
  device counts as success (`cxplat_posix.c:522`).
- The standard library behind `CxPlatVector` in user mode.
- Uninitializing a lock, which is nothing in kernel mode and one call elsewhere, and
  failures of pthread calls that only a misuse can cause.
- Memory orders: the accesses of failure injection, of `PrevIrql` and of the
  interlocked variables are taken as sequentially consistent.
- The kernel test driver and its client (`src/test/bin`). They start the tests and
  are not part of the library; which of their callbacks run in parallel is decided by
  the driver framework.

`PROJECT.json` names the reason for every component.
