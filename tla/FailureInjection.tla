--------------------------- MODULE FailureInjection ---------------------------
(***************************************************************************)
(* The failure injection of debug builds: CxPlatAlloc and                  *)
(* CxPlatSetAllocFailDenominator of src/lib/cxplat_posix.c, which are the  *)
(* same in src/lib/cxplat_winuser.c.                                       *)
(*                                                                         *)
(* CxPlatAlloc reads the denominator up to three times and increments the  *)
(* counter once; a Set writes the one and then the other.  Nothing orders  *)
(* the accesses of different threads, so each is a step.                   *)
(***************************************************************************)
EXTENDS Integers, FiniteSets

CONSTANTS Callers,        \* the threads that call the two functions
          Denominators,   \* the arguments of CxPlatSetAllocFailDenominator
          MaxAllocs       \* bound: allocations between two Sets

ASSUME FailureAssumption == Denominators \subseteq Int /\ 0 \in Denominators /\ MaxAllocs \in Nat

VARIABLES
    AllocFailDenominator, AllocCounter,
    pc,          \* the next access of each thread
    Addend,      \* the value InterlockedIncrement has returned to each thread
    stopped,     \* whether the program was stopped, and why
    \* History, since the last call of Set began:
    tries,       \* calls of CxPlatAlloc
    passed,      \* those that were passed on to the heap
    Failed,      \* the numbers of those that were failed because of the counter
    raced,       \* threads with a call that a Set has overlapped
    last         \* whether anything ran between that Set's start and its end

platform == <<AllocFailDenominator, AllocCounter>>
history == <<tries, passed, Failed, raced, last>>
allocVars == <<platform, pc, Addend, stopped, history>>

AllocTypeOK ==
    /\ AllocFailDenominator \in Denominators /\ AllocCounter \in Nat
    /\ pc \in [Callers -> {"idle", "random", "negative", "increment", "remainder", "set"}]
    /\ Addend \in [Callers -> Nat]
    /\ stopped \in {"no", "divide"} /\ last \in {"alone", "overlapped"}
    /\ tries \in Nat /\ passed \in Nat
    /\ Failed \subseteq Nat /\ raced \subseteq Callers

\* As CxPlatInitialize leaves it.
AllocInit ==
    /\ AllocFailDenominator = 0 /\ AllocCounter = 0
    /\ pc = [t \in Callers |-> "idle"]
    /\ Addend = [t \in Callers |-> 0]
    /\ stopped = "no"
    /\ tries = 0 /\ passed = 0 /\ Failed = {} /\ raced = {} /\ last = "alone"

At(t, step) == stopped = "no" /\ pc[t] = step

Goto(t, step) == pc' = [pc EXCEPT ![t] = step]

Busy == {t \in Callers : pc[t] # "idle"}

Setting == {t \in Callers : pc[t] = "set"}

-----------------------------------------------------------------------------
(* CxPlatAlloc.  *)

\* The first access: is the denominator positive?
Alloc_call(t) ==
    /\ At(t, "idle") /\ tries < MaxAllocs
    /\ Goto(t, IF AllocFailDenominator > 0 THEN "random" ELSE "negative")
    /\ tries' = tries + 1
    /\ raced' = IF Setting = {} THEN raced \ {t} ELSE raced \cup {t}
    /\ last' = IF Setting = {} THEN last ELSE "overlapped"
    /\ UNCHANGED <<platform, Addend, stopped, passed, Failed>>

DivideByZero ==
    /\ stopped' = "divide"
    /\ UNCHANGED <<platform, pc, Addend, history>>

\* malloc or HeapAlloc is called; whether it finds memory is not decided here.
Pass(t) ==
    /\ Goto(t, "idle") /\ passed' = passed + 1
    /\ UNCHANGED <<platform, Addend, stopped, tries, Failed, raced, last>>

(* The remainder of a random number is 1.  The division is unsigned: a     *)
(* denominator that has become negative is a large divisor.                *)
Unlucky(d) == d < 0 \/ d >= 2

Alloc_random(t) ==
    /\ At(t, "random")
    /\ \/ AllocFailDenominator = 0 /\ DivideByZero
       \/ /\ AllocFailDenominator # 0 /\ Goto(t, "negative")
          /\ UNCHANGED <<platform, Addend, stopped, history>>
       \/ /\ Unlucky(AllocFailDenominator) /\ Goto(t, "idle")
          /\ UNCHANGED <<platform, Addend, stopped, history>>

\* Mutation: zero is taken for a negative denominator.
NotPositive(t) ==
    /\ At(t, "negative")
    /\ \/ /\ AllocFailDenominator <= 0 /\ Goto(t, "increment")
          /\ UNCHANGED <<platform, Addend, stopped, history>>
       \/ AllocFailDenominator > 0 /\ Pass(t)

Alloc_negative(t) ==
    /\ At(t, "negative")
    /\ \/ /\ AllocFailDenominator < 0 /\ Goto(t, "increment")
          /\ UNCHANGED <<platform, Addend, stopped, history>>
       \/ AllocFailDenominator >= 0 /\ Pass(t)

\* Mutation: the increment returns the value before it.
OldValue(t) ==
    /\ At(t, "increment")
    /\ AllocCounter' = AllocCounter + 1
    /\ Addend' = [Addend EXCEPT ![t] = AllocCounter]
    /\ Goto(t, "remainder")
    /\ UNCHANGED <<AllocFailDenominator, stopped, history>>

InterlockedIncrement(t) ==
    /\ At(t, "increment")
    /\ AllocCounter' = AllocCounter + 1
    /\ Addend' = [Addend EXCEPT ![t] = AllocCounter + 1]
    /\ Goto(t, "remainder")
    /\ UNCHANGED <<AllocFailDenominator, stopped, history>>

\* C's remainder of the counter is zero when |d| divides it.
Divides(d, k) == k % (IF d < 0 THEN -d ELSE d) = 0

Alloc_remainder(t) ==
    /\ At(t, "remainder")
    /\ \/ AllocFailDenominator = 0 /\ DivideByZero
       \/ /\ AllocFailDenominator # 0 /\ Divides(AllocFailDenominator, Addend[t])
          /\ Goto(t, "idle") /\ Failed' = Failed \cup {Addend[t]}
          /\ UNCHANGED <<platform, Addend, stopped, tries, passed, raced, last>>
       \/ /\ AllocFailDenominator # 0 /\ ~Divides(AllocFailDenominator, Addend[t])
          /\ Pass(t)

CxPlatAlloc(t) ==
    \/ Alloc_call(t) \/ Alloc_random(t) \/ Alloc_negative(t)
    \/ InterlockedIncrement(t) \/ Alloc_remainder(t)

-----------------------------------------------------------------------------
(* CxPlatSetAllocFailDenominator.  *)

Set_denominator(t, Value) ==
    /\ At(t, "idle")
    /\ AllocFailDenominator' = Value
    /\ Goto(t, "set")
    /\ tries' = 0 /\ passed' = 0 /\ Failed' = {}
    /\ raced' = Busy /\ last' = IF Busy = {} THEN "alone" ELSE "overlapped"
    /\ UNCHANGED <<AllocCounter, Addend, stopped>>

\* Mutation: the counter goes on.
KeepCounter(t) ==
    /\ At(t, "set")
    /\ Goto(t, "idle")
    /\ UNCHANGED <<platform, Addend, stopped, history>>

Set_counter(t) ==
    /\ At(t, "set")
    /\ AllocCounter' = 0
    /\ Goto(t, "idle")
    /\ UNCHANGED <<AllocFailDenominator, Addend, stopped, history>>

CxPlatSetAllocFailDenominator(t) ==
    Set_counter(t) \/ \E Value \in Denominators : Set_denominator(t, Value)

AllocNext == \E t \in Callers : CxPlatAlloc(t) \/ CxPlatSetAllocFailDenominator(t)

AllocSpec == AllocInit /\ [][AllocNext]_allocVars

-----------------------------------------------------------------------------
\* The last Set has overlapped no other call.
clean == last = "alone"

\* The N of a negative denominator -N.
Nth == -AllocFailDenominator

\* After such a Set, with a negative denominator.
Counting == clean /\ Setting = {} /\ AllocFailDenominator < 0

(* The inductive invariant: without a Set that overlaps it, a call sees    *)
(* one denominator; after a clean Set, the numbers from 1 to the counter   *)
(* have been given out once each, and those that N divides belong to calls *)
(* that failed or are about to.                                            *)
AllocInv ==
    /\ AllocTypeOK
    /\ clean => \A t, u \in Setting : t = u
    /\ clean /\ Setting # {} => Busy = Setting /\ Failed = {}
    /\ \A t \in Callers \ raced :
          /\ pc[t] = "random" => AllocFailDenominator > 0
          /\ pc[t] \in {"increment", "remainder"} => AllocFailDenominator < 0
    /\ clean => Busy \cap raced = {}
    /\ Counting =>
          /\ \A t \in Callers : pc[t] = "remainder" =>
                /\ Addend[t] \in 1..AllocCounter \ Failed
                /\ \A u \in Callers : pc[u] = "remainder" /\ Addend[u] = Addend[t] => u = t
          /\ \A k \in Failed : k \in 1..AllocCounter /\ k % Nth = 0
          /\ \A k \in 1..AllocCounter : k % Nth = 0 =>
                k \in Failed \/ \E t \in Callers : pc[t] = "remainder" /\ Addend[t] = k

\* The threads that are about to divide by the denominator, or have when the
\* program is stopped.
Dividing == {t \in Callers : pc[t] \in {"random", "remainder"}}

(* CxPlatAlloc divides by zero only in a call that a Set has overlapped,   *)
(* whatever the other threads do: the test that the denominator is not     *)
(* zero is made before each division, in an access of its own.             *)
DividesUnlessRaced == stopped = "divide" => Dividing # {} /\ Dividing \subseteq raced

(* When a Set has overlapped no other call and the calls since then have   *)
(* returned, CxPlatAlloc has failed as asked: never with a denominator of  *)
(* zero, and every Nth call with -N, whichever threads made them.          *)
FailsAsAsked ==
    clean /\ Busy = {} =>
        /\ AllocFailDenominator = 0 => passed = tries
        /\ AllocFailDenominator < 0 => tries - passed = tries \div Nth

(* Every Nth number, and no other, is failed; for any number of threads.   *)
EveryNthFails ==
    Counting /\ Busy = {} => Failed = {k \in 1..AllocCounter : k % Nth = 0}

(* What the test of the failure injection expects of the denominator -N:   *)
(* it counts its allocations from zero, and the one whose count is N fails *)
(* and no other.                                                           *)
TestedAllocationFails ==
    Counting /\ Busy = {} => \A i \in 0 .. tries - 1 : i + 1 \in Failed <=> i = Nth
=============================================================================
