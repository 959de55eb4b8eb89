----------------------------- MODULE Interlocked -----------------------------
(***************************************************************************)
(* The interlocked operations of inc/cxplat_posix_shim.h.  Each is one     *)
(* atomic builtin; they differ in whether they return the old value or the *)
(* new one, and in the width of what they return.  What is checked is what *)
(* a thread may conclude from the value it is returned while other threads *)
(* work on the same variable, in the protocols such operations are for:    *)
(*                                                                         *)
(*   references  Increment and Decrement: the first makes the object, the  *)
(*               last deletes it                                           *)
(*   bits        Or and And: the same, a bit for each thread               *)
(*   flag        FetchAndSetBoolean and FetchAndClearBoolean: one inside   *)
(*   slot        ExchangePointer and FetchAndClearPointer: objects change  *)
(*               hands                                                     *)
(*   tickets     ExchangeAdd64: ranges of numbers are given out            *)
(*   update      CompareExchange: read, compute, retry                     *)
(***************************************************************************)
EXTENDS Integers, FiniteSets

CONSTANTS Threads,
          Short,       \* a short is one of -Short .. Short - 1
          Long,        \* a long or an int64_t one of -Long .. Long - 1
          MaxRefs,     \* bound on the references of a thread
          Addends,     \* how many tickets a thread asks for at once
          MaxTickets,  \* bound on the tickets given out, and on the updates
          NULL,        \* the null pointer
          Nothing      \* not a value of any width

ASSUME WidthAssumption ==
    /\ Short \in Nat \ {0} /\ Long \in Nat /\ Short < Long
    /\ MaxRefs \in Nat /\ IsFiniteSet(Threads) /\ Cardinality(Threads) * MaxRefs < Short
    /\ MaxTickets \in Nat /\ MaxTickets <= 2 * Long
    /\ Addends \subseteq Nat
    /\ NULL \notin Threads

Protocols == {"references", "bits", "flag", "slot", "tickets", "update"}
Widths == {"short", "long", "int64"}

VARIABLES protocol,
          width,   \* of the variable, where there are operations of several
          dest,    \* the variable
          has,     \* has[t]: what t has been given
          old,     \* old[t]: what t has read and is about to replace
          made,    \* the object of "references" and "bits" exists
          number,  \* history: the tickets given out, the updates made
          beyond   \* history: the variable has been too large for a short

vars == <<protocol, width, dest, has, old, made, number, beyond>>

Half(w) == IF w = "short" THEN Short ELSE Long
Values(w) == -Half(w) .. Half(w) - 1

(* The value of that width that an int or a long is converted to. *)
As(w, x) == ((x + Half(w)) % (2 * Half(w))) - Half(w)

(* What an operation makes of the variable, and what it returns. *)
Effect(new, returned) == [dest |-> new, returned |-> returned]

(* InterlockedIncrement and InterlockedDecrement, of 16 and 64 bits too *)
FetchAndAdd(n) == Effect(As(width, dest + n), dest)
AddAndFetch(n) == Effect(As(width, dest + n), As(width, dest + n))

InterlockedAnd(Value) == Effect(dest \cap Value, dest \cap Value)

InterlockedOr(Value) == Effect(dest \cup Value, dest \cup Value)

CompareExchangeReturnsNew(ExChange, Comperand) ==
    LET new == IF dest = Comperand THEN ExChange ELSE dest
    IN  Effect(new, new)

(* Of the three, the one of a long returns a short. *)
InterlockedCompareExchange(ExChange, Comperand) ==
    Effect(IF dest = Comperand THEN ExChange ELSE dest,
           IF width = "long" THEN As("short", dest) ELSE dest)

AddAndFetch64(Value) == Effect(As("int64", dest + Value), As("int64", dest + Value))
InterlockedExchangeAdd64(Value) == Effect(As("int64", dest + Value), dest)

InterlockedExchangePointer(Value) == Effect(Value, dest)

FetchPointer == Effect(dest, dest)
InterlockedFetchAndClearPointer == Effect(NULL, dest)

InterlockedFetchAndClearBoolean == Effect(FALSE, dest)

SetAndFetchBoolean == Effect(TRUE, TRUE)
InterlockedFetchAndSetBoolean == Effect(TRUE, dest)

-----------------------------------------------------------------------------
(* Where the variable starts: for the protocols that count on from         *)
(* anywhere, anywhere.                                                     *)
Start(w) ==
    [references |-> {0}, bits |-> {{}}, flag |-> {FALSE}, slot |-> {NULL},
     tickets |-> Values(w), update |-> Values(w)][protocol]

Init ==
    /\ protocol \in Protocols
    /\ width \in IF protocol \in {"references", "update"} THEN Widths ELSE {"int64"}
    /\ dest \in Start(width)
    /\ has = [t \in Threads |-> IF protocol = "slot" THEN {t} ELSE {}]   \* an object of its own
    /\ old = [t \in Threads |-> Nothing]
    /\ made = FALSE
    /\ number = 0
    /\ beyond = (protocol = "update" /\ dest \notin Values("short"))

(* References.  Who is returned 1 makes the object, who is returned 0      *)
(* deletes it.                                                             *)
AddReference(t) ==
    LET op == AddAndFetch(1)
    IN  /\ protocol = "references" /\ Cardinality(has[t]) < MaxRefs
        /\ dest' = op.dest
        /\ has' = [has EXCEPT ![t] = @ \cup {Cardinality(@)}]
        /\ made' = (made \/ op.returned = 1)
        /\ UNCHANGED <<protocol, width, old, number, beyond>>

DropReference(t) ==
    LET op == AddAndFetch(-1)
    IN  /\ protocol = "references" /\ has[t] # {}
        /\ dest' = op.dest
        /\ has' = [has EXCEPT ![t] = @ \ {Cardinality(@) - 1}]
        /\ made' = (made /\ op.returned # 0)
        /\ UNCHANGED <<protocol, width, old, number, beyond>>

(* Bits.  Who is returned its own bit alone makes the object. *)
SetBit(t) ==
    LET op == InterlockedOr({t})
    IN  /\ protocol = "bits" /\ has[t] = {}
        /\ dest' = op.dest
        /\ has' = [has EXCEPT ![t] = {t}]
        /\ made' = (made \/ op.returned = {t})
        /\ UNCHANGED <<protocol, width, old, number, beyond>>

ClearBit(t) ==
    LET op == InterlockedAnd(Threads \ {t})
    IN  /\ protocol = "bits" /\ has[t] # {}
        /\ dest' = op.dest
        /\ has' = [has EXCEPT ![t] = {}]
        /\ made' = (made /\ op.returned # {})
        /\ UNCHANGED <<protocol, width, old, number, beyond>>

(* Flag.  Who is returned FALSE is inside. *)
Enter(t) ==
    LET op == InterlockedFetchAndSetBoolean
    IN  /\ protocol = "flag" /\ has[t] = {}
        /\ dest' = op.dest
        /\ has' = [has EXCEPT ![t] = IF op.returned THEN {} ELSE {"inside"}]
        /\ UNCHANGED <<protocol, width, old, made, number, beyond>>

(* Who is inside clears the flag, which tells it that the flag was set. *)
Leave(t) ==
    LET op == InterlockedFetchAndClearBoolean
    IN  /\ protocol = "flag" /\ has[t] # {}
        /\ dest' = op.dest
        /\ has' = [has EXCEPT ![t] = IF op.returned THEN {} ELSE @]
        /\ UNCHANGED <<protocol, width, old, made, number, beyond>>

(* Slot.  A thread puts an object it has there and gets what was there. *)
Put(t) ==
    \E object \in has[t] :
       LET op == InterlockedExchangePointer(object)
       IN  /\ protocol = "slot"
           /\ dest' = op.dest
           /\ has' = [has EXCEPT ![t] = (@ \ {object}) \cup ({op.returned} \ {NULL})]
           /\ UNCHANGED <<protocol, width, old, made, number, beyond>>

Take(t) ==
    LET op == InterlockedFetchAndClearPointer
    IN  /\ protocol = "slot"
        /\ dest' = op.dest
        /\ has' = [has EXCEPT ![t] = @ \cup ({op.returned} \ {NULL})]
        /\ UNCHANGED <<protocol, width, old, made, number, beyond>>

(* Tickets.  A thread gets n numbers, from the one it is returned on. *)
Draw(t, n) ==
    LET op == InterlockedExchangeAdd64(n)
    IN  /\ protocol = "tickets" /\ number + n <= MaxTickets
        /\ dest' = op.dest
        /\ has' = [has EXCEPT ![t] = @ \cup {As("int64", op.returned + i) : i \in 0 .. n - 1}]
        /\ number' = number + n
        /\ UNCHANGED <<protocol, width, old, made, beyond>>

(* Update.  A thread reads the variable, and replaces what it has read by  *)
(* another value; it is done when it is returned what it has read, and     *)
(* reads again when not.                                                   *)
ReadOld(t) ==
    /\ protocol = "update" /\ has[t] = {} /\ old[t] = Nothing
    /\ old' = [old EXCEPT ![t] = dest]
    /\ UNCHANGED <<protocol, width, dest, has, made, number, beyond>>

Replace(t, new) ==
    LET op == InterlockedCompareExchange(new, old[t])
    IN  /\ protocol = "update" /\ old[t] \notin {Nothing, new}
        /\ dest' = op.dest
        /\ has' = [has EXCEPT ![t] = IF op.returned = old[t] THEN {"done"} ELSE {}]
        /\ old' = [old EXCEPT ![t] = Nothing]
        /\ number' = IF op.dest = dest THEN number ELSE number + 1
        /\ number' <= MaxTickets
        /\ beyond' = (beyond \/ dest' \notin Values("short"))
        /\ UNCHANGED <<protocol, width, made>>

Next ==
    \E t \in Threads :
       \/ AddReference(t) \/ DropReference(t)
       \/ SetBit(t) \/ ClearBit(t)
       \/ Enter(t) \/ Leave(t)
       \/ Put(t) \/ Take(t)
       \/ \E n \in Addends : Draw(t, n)
       \/ ReadOld(t)
       \/ \E new \in Values(width) : Replace(t, new)

Spec == Init /\ [][Next]_vars

-----------------------------------------------------------------------------
Holders == {t \in Threads : has[t] # {}}

(* InterlockedIncrement and InterlockedDecrement, InterlockedOr and        *)
(* InterlockedAnd return the new value: exactly the first thread is told   *)
(* to make the object and exactly the last one to delete it, so that it    *)
(* exists as long as somebody has a reference or a bit and no longer.      *)
FirstAndLastAreTold == protocol \in {"references", "bits"} => (made <=> Holders # {})

(* InterlockedFetchAndSetBoolean returns the old value: one thread at a    *)
(* time is told that the flag was down, and finds it up when it clears it. *)
OneIsInside ==
    protocol = "flag" => Cardinality(Holders) <= 1 /\ (dest <=> Holders # {})

(* InterlockedExchangePointer and InterlockedFetchAndClearPointer hand     *)
(* objects over: each is in the slot or with one thread, never in two      *)
(* places and never lost.                                                  *)
ObjectsHaveOneOwner ==
    protocol = "slot" =>
       \A object \in Threads :
          Cardinality({t \in Threads : object \in has[t]}) + (IF dest = object THEN 1 ELSE 0) = 1

(* InterlockedExchangeAdd64 returns the old value: no number is given out  *)
(* twice, also when the counter passes its largest value.                  *)
TicketsAreDistinct ==
    /\ \A t, u \in Threads : protocol = "tickets" /\ t # u => has[t] \cap has[u] = {}
    /\ protocol = "tickets" => Cardinality(UNION {has[t] : t \in Threads}) = number

(* Each thread that is done has replaced the variable once, and none has   *)
(* replaced it unawares.  InterlockedCompareExchange of a long tells the   *)
(* truth only as long as the variable fits into the short it returns: with *)
(* a larger value a thread is not told that it succeeded, and repeats its  *)
(* update, or is told so when it failed.                                   *)
UpdatesAreTold ==
    protocol = "update" =>
       \/ Cardinality(Holders) = number
       \/ width = "long" /\ beyond
=============================================================================
