------------------------------- MODULE Vector -------------------------------
(***************************************************************************)
(* What a KArray promises its users: a std::vector without exceptions.     *)
(* Each array is a sequence with a capacity.  A call that needs more       *)
(* capacity may fail; then it says so, changes nothing, and leaves an      *)
(* argument passed by rvalue reference with its caller.  A call the        *)
(* capacity suffices for does not fail and does not reallocate.            *)
(***************************************************************************)
EXTENDS Integers, Sequences

CONSTANTS Arrays,   \* the variables of type KArray
          Values,   \* what an element may hold, a set of numbers
          Zero,     \* the value of T()
          Counts,   \* the counts and indices its users pass
          Limit     \* no capacity reaches it

VARIABLES live,      \* the arrays whose lifetime has begun
          vec,       \* the elements of each array
          capacity,  \* how many elements it can hold without allocating
          call,      \* the last call: function, arguments, results
          stopped    \* the program was stopped by a failed check or access

vectorVars == <<live, vec, capacity, call, stopped>>

Ops == {"KArray", "~KArray", "move", "reserve", "resize", "pop_back", "append",
        "insertAt", "insertSorted", "insertSortedUnique", "eraseAt",
        "append own", "insertAt own", "subscript"}

Call(op, a, n, v, ret, moved) ==
    [op |-> op, arr |-> a, n |-> n, v |-> v, ret |-> ret, moved |-> moved]

Init ==
    /\ live = {}
    /\ vec = [a \in Arrays |-> <<>>]
    /\ capacity = [a \in Arrays |-> 0]
    /\ \E a \in Arrays : call = Call("none", a, 0, Zero, TRUE, FALSE)
    /\ stopped = FALSE

(* a now holds s; its capacity has grown if and only if it had to *)
Become(a, s) ==
    /\ vec' = [vec EXCEPT ![a] = s]
    /\ IF Len(s) <= capacity[a]
       THEN UNCHANGED capacity
       ELSE \E c \in Len(s) .. Limit - 1 : capacity' = [capacity EXCEPT ![a] = c]
    /\ UNCHANGED <<live, stopped>>

(* s with v as a new element i, and without element i *)
InsertAt(s, i, v) == SubSeq(s, 1, i - 1) \o <<v>> \o SubSeq(s, i, Len(s))
RemoveAt(s, i) == SubSeq(s, 1, i - 1) \o SubSeq(s, i + 1, Len(s))

Unchanged == UNCHANGED <<live, vec, capacity, stopped>>

(* The array must be able to hold n elements for the call to succeed. *)
MayFail(a, n, ret) == ret = FALSE /\ n > capacity[a] /\ Unchanged

Stop == stopped' = TRUE /\ UNCHANGED <<live, vec, capacity>>

-----------------------------------------------------------------------------
(* A constructor has no way to say that it failed. *)
Construct(a, n, v) ==
    /\ a \notin live
    /\ call' = Call("KArray", a, n, v, TRUE, FALSE)
    /\ \/ /\ live' = live \cup {a}
          /\ vec' = [vec EXCEPT ![a] = [i \in 1 .. n |-> v]]
          /\ \E c \in n .. Limit - 1 : capacity' = [capacity EXCEPT ![a] = c]
          /\ UNCHANGED stopped
       \/ n > 0 /\ Stop

Destroy(a) ==
    /\ a \in live
    /\ call' = Call("~KArray", a, 0, Zero, TRUE, FALSE)
    /\ live' = live \ {a}
    /\ vec' = [vec EXCEPT ![a] = <<>>]
    /\ capacity' = [capacity EXCEPT ![a] = 0]
    /\ UNCHANGED stopped

Reserve(a, n, ret) ==
    /\ a \in live
    /\ call' = Call("reserve", a, n, Zero, ret, FALSE)
    /\ \/ MayFail(a, n, ret)
       \/ ret = TRUE /\ n <= capacity[a] /\ Unchanged
       \/ /\ ret = TRUE /\ n > capacity[a]
          /\ capacity' = [capacity EXCEPT ![a] = n]
          /\ UNCHANGED <<live, vec, stopped>>

Resize(a, n, ret) ==
    /\ a \in live
    /\ call' = Call("resize", a, n, Zero, ret, FALSE)
    /\ \/ MayFail(a, n, ret)
       \/ /\ ret = TRUE
          /\ Become(a, [i \in 1 .. n |-> IF i <= Len(vec[a]) THEN vec[a][i] ELSE Zero])

(* pop_back of an empty array does nothing. *)
PopBack(a) ==
    /\ a \in live
    /\ call' = Call("pop_back", a, 0, Zero, TRUE, FALSE)
    /\ Become(a, SubSeq(vec[a], 1, Len(vec[a]) - 1))

(* v becomes element i; only a successful call takes it from its owner *)
Insert(a, i, v, ret, moved) ==
    \/ MayFail(a, Len(vec[a]) + 1, ret) /\ moved = FALSE
    \/ ret = TRUE /\ Become(a, InsertAt(vec[a], i, v))

AppendElement(a, v, ret, moved) ==
    /\ a \in live
    /\ call' = Call("append", a, 0, v, ret, moved)
    /\ Insert(a, Len(vec[a]) + 1, v, ret, moved)

InsertElement(a, n, v, ret, moved) ==
    /\ a \in live
    /\ call' = Call("insertAt", a, n, v, ret, moved)
    /\ \/ n <= Len(vec[a]) /\ Insert(a, n + 1, v, ret, moved)
       \/ n > Len(vec[a]) /\ ret = FALSE /\ moved = FALSE /\ Unchanged

(* An argument that is one of the array's own elements has lost its value  *)
(* by the time it is used if the buffer had to grow.                       *)
AppendOwn(a, v, ret) ==
    /\ a \in live
    /\ call' = Call("append own", a, 0, v, ret, FALSE)
    /\ \/ MayFail(a, Len(vec[a]) + 1, ret)
       \/ /\ ret = TRUE
          /\ \E w \in Values : /\ Len(vec[a]) < capacity[a] => w = v
                               /\ Become(a, Append(vec[a], w))

(* Inserted before itself it has lost its value, too, and inserted further *)
(* ahead it stands for its predecessor.                                    *)
InsertOwn(a, n, v, ret) ==
    /\ a \in live
    /\ call' = Call("insertAt own", a, n, v, ret, FALSE)
    /\ \/ MayFail(a, Len(vec[a]) + 1, ret)
       \/ /\ ret = TRUE
          /\ \E w \in Values, k \in {i \in DOMAIN vec[a] : vec[a][i] = v} :
                /\ Len(vec[a]) < capacity[a] /\ k <= n => w = v
                /\ Len(vec[a]) < capacity[a] /\ k > n + 1 => w = vec[a][k - 1]
                /\ Become(a, InsertAt(vec[a], n + 1, w))

Ascending(s) == \A i, j \in 1 .. Len(s) : i < j => s[i] <= s[j]
Strictly(s) == \A i, j \in 1 .. Len(s) : i < j => s[i] < s[j]

(* An array in ascending order stays in that order. *)
InsertSorted(a, v, ret, moved) ==
    /\ a \in live
    /\ call' = Call("insertSorted", a, 0, v, ret, moved)
    /\ \E i \in 1 .. Len(vec[a]) + 1 : Insert(a, i, v, ret, moved)
    /\ Ascending(vec[a]) => Ascending(vec'[a])

(* An array in strictly ascending order stays that way, and contains v if  *)
(* the call succeeds.                                                      *)
InsertSortedUnique(a, v, ret, moved) ==
    /\ a \in live
    /\ call' = Call("insertSortedUnique", a, 0, v, ret, moved)
    /\ \/ \E i \in 1 .. Len(vec[a]) + 1 : Insert(a, i, v, ret, moved)
       \/ ret = TRUE /\ moved = FALSE /\ Unchanged /\ \E i \in 1 .. Len(vec[a]) : vec[a][i] = v
    /\ Strictly(vec[a]) => Strictly(vec'[a])

Erase(a, n) ==
    /\ a \in live
    /\ call' = Call("eraseAt", a, n, Zero, TRUE, FALSE)
    /\ \/ n < Len(vec[a]) /\ Become(a, RemoveAt(vec[a], n + 1))
       \/ n >= Len(vec[a]) /\ Stop

Subscript(a, n, v) ==
    /\ a \in live
    /\ call' = Call("subscript", a, n, v, TRUE, FALSE)
    /\ \/ n < Len(vec[a]) /\ v = vec[a][n + 1] /\ Unchanged
       \/ n >= Len(vec[a]) /\ Stop

(* Move construction (a does not live yet) and move assignment; an array   *)
(* that is moved to itself is empty afterwards.                            *)
Move(a, rhs) ==
    /\ rhs \in live
    /\ call' = Call("move", a, 0, Zero, TRUE, FALSE)
    /\ live' = live \cup {a}
    /\ vec' = [vec EXCEPT ![a] = vec[rhs], ![rhs] = <<>>]
    /\ capacity' = [capacity EXCEPT ![a] = capacity[rhs], ![rhs] = 0]
    /\ UNCHANGED stopped

(* What call' says happens. *)
Next ==
    LET c == call'
    IN  /\ ~stopped
        /\ c \in [op : Ops, arr : Arrays, n : Counts \cup {0}, v : Values,
                  ret : BOOLEAN, moved : BOOLEAN]
        /\ \/ c.op = "KArray" /\ Construct(c.arr, c.n, c.v)
           \/ c.op = "~KArray" /\ Destroy(c.arr)
           \/ c.op = "pop_back" /\ PopBack(c.arr)
           \/ c.op = "reserve" /\ Reserve(c.arr, c.n, c.ret)
           \/ c.op = "resize" /\ Resize(c.arr, c.n, c.ret)
           \/ c.op = "append" /\ AppendElement(c.arr, c.v, c.ret, c.moved)
           \/ c.op = "insertAt" /\ InsertElement(c.arr, c.n, c.v, c.ret, c.moved)
           \/ c.op = "insertSorted" /\ InsertSorted(c.arr, c.v, c.ret, c.moved)
           \/ c.op = "insertSortedUnique" /\ InsertSortedUnique(c.arr, c.v, c.ret, c.moved)
           \/ c.op = "eraseAt" /\ Erase(c.arr, c.n)
           \/ c.op = "append own" /\ AppendOwn(c.arr, c.v, c.ret)
           \/ c.op = "insertAt own" /\ InsertOwn(c.arr, c.n, c.v, c.ret)
           \/ c.op = "subscript" /\ Subscript(c.arr, c.n, c.v)
           \/ c.op = "move" /\ \E rhs \in Arrays : Move(c.arr, rhs)

Spec == Init /\ [][Next]_vectorVars
=============================================================================
