-------------------------------- MODULE Locks --------------------------------
(***************************************************************************)
(* The four locks of the three platforms, CXPLAT_LOCK, CXPLAT_RW_LOCK,     *)
(* CXPLAT_DISPATCH_LOCK and CXPLAT_DISPATCH_RW_LOCK.                       *)
(*                                                                         *)
(* In kernel mode the first two are push locks held in a critical region,  *)
(* in which the thread cannot be suspended, and the others are spin locks: *)
(* the acquiring thread is raised to DISPATCH_LEVEL, and the level to      *)
(* return to is kept in the lock, in its field PrevIrql, which the macros  *)
(* read and write in plain accesses next to the kernel's acquire and       *)
(* release.  On the other platforms there are no levels, and a lock that   *)
(* is not a reader-writer lock can be acquired again by its holder.        *)
(*                                                                         *)
(* The callers' part: locks nest like brackets, in the order of their      *)
(* numbers, but for a lock that is acquired again; a push lock is acquired *)
(* below DISPATCH_LEVEL.                                                   *)
(***************************************************************************)
EXTENDS Integers, Sequences, FiniteSets

CONSTANTS Platforms, Threads,
          PushLocks, DispatchLocks,  \* disjoint sets of numbers; push locks in kernel mode
          RwLocks,                   \* the locks that can be held shared
          MaxDepth                   \* bound on the nesting of brackets

Locks == PushLocks \cup DispatchLocks

ASSUME LockAssumption ==
    /\ Platforms \subseteq {"posix", "winuser", "winkernel"}
    /\ Locks \subseteq Nat /\ IsFiniteSet(Locks)
    /\ PushLocks \cap DispatchLocks = {}
    /\ RwLocks \subseteq Locks
    /\ MaxDepth \in Nat

VARIABLES platform,
          irql,      \* the level each thread runs at
          region,    \* how many critical regions it is in
          held,      \* its open brackets, the innermost last
          PrevIrql,  \* the field of a dispatch lock
          pc,        \* where a thread is in a macro
          bracket,   \* the bracket that macro opens or closes
          old,       \* the level it has been given, or has loaded
          mixed      \* history: a lock was shared by threads of different levels

vars == <<platform, irql, region, held, PrevIrql, pc, bracket, old, mixed>>

Levels == {"PASSIVE", "DISPATCH"}
Modes(l) == IF l \in RwLocks THEN {"shared", "exclusive"} ELSE {"exclusive"}

(* A bracket: a lock that is held, or CXPLAT_RAISE_IRQL.  level is what    *)
(* the thread ran at before; only CXPLAT_RAISE_IRQL has it in a variable.  *)
Raised == [lock |-> -1, mode |-> "raise", level |-> "PASSIVE"]

Init ==
    /\ platform \in Platforms
    /\ irql = [t \in Threads |-> "PASSIVE"]
    /\ region = [t \in Threads |-> 0]
    /\ held = [t \in Threads |-> <<>>]
    /\ PrevIrql \in [DispatchLocks -> Levels]
    /\ pc = [t \in Threads |-> "run"]
    /\ bracket = [t \in Threads |-> Raised]
    /\ old = [t \in Threads |-> "PASSIVE"]
    /\ mixed = FALSE

-----------------------------------------------------------------------------
Top(t) == held[t][Len(held[t])]
Push(t, b) == held' = [held EXCEPT ![t] = Append(@, b)]
Pop(t) == held' = [held EXCEPT ![t] = SubSeq(@, 1, Len(@) - 1)]
Goto(t, where) == pc' = [pc EXCEPT ![t] = where] /\ UNCHANGED <<bracket, old>>
Return(t) ==   \* the macro's temporaries are gone
    /\ pc' = [pc EXCEPT ![t] = "run"]
    /\ bracket' = [bracket EXCEPT ![t] = Raised]
    /\ old' = [old EXCEPT ![t] = "PASSIVE"]

(* What a lock is on each platform: a recursive mutex or a pthread_rwlock, *)
(* a CRITICAL_SECTION or an SRWLOCK, a push lock or a spin lock.           *)
PosixKindMutant(l) == IF l \in RwLocks THEN "rwlock" ELSE "normal"
PosixKind(l) == IF l \in RwLocks THEN "rwlock" ELSE "recursive"
WinUserKind(l) == IF l \in RwLocks THEN "srw" ELSE "recursive"
WinKernelKind(l) == IF l \in DispatchLocks THEN "spin" ELSE "push"

Kind(l) ==
    CASE platform = "posix"     -> PosixKind(l)
      [] platform = "winuser"   -> WinUserKind(l)
      [] platform = "winkernel" -> WinKernelKind(l)

Holders(l, mode) ==
    {u \in Threads : \E i \in DOMAIN held[u] : held[u][i].lock = l /\ held[u][i].mode = mode}
HoldersOf(l) == Holders(l, "shared") \cup Holders(l, "exclusive")

(* Those that a thread in "acquire" has to wait for, itself included. *)
Conflicts(t) ==
    LET l == bracket[t].lock
    IN  (IF bracket[t].mode = "shared" THEN Holders(l, "exclusive") ELSE HoldersOf(l))
           \ (IF Kind(l) = "recursive" THEN {t} ELSE {})

CXPLAT_RAISE_IRQL(t) ==
    /\ platform = "winkernel"
    /\ pc[t] = "run" /\ Len(held[t]) < MaxDepth
    /\ Push(t, [Raised EXCEPT !.level = irql[t]])
    /\ irql' = [irql EXCEPT ![t] = "DISPATCH"]
    /\ UNCHANGED <<platform, region, PrevIrql, pc, bracket, old, mixed>>

CXPLAT_LOWER_IRQL(t) ==
    /\ pc[t] = "run" /\ held[t] # <<>> /\ Top(t).mode = "raise"
    /\ irql' = [irql EXCEPT ![t] = Top(t).level]
    /\ Pop(t)
    /\ UNCHANGED <<platform, region, PrevIrql, pc, bracket, old, mixed>>

(* A macro is entered: the critical region of a push lock, the raised      *)
(* level at which a spin lock is waited for.                               *)
Acquire_call(t, l, mode) ==
    /\ pc[t] = "run" /\ Len(held[t]) < MaxDepth
    /\ t \in HoldersOf(l) \/ \A i \in DOMAIN held[t] : held[t][i].lock < l
    /\ Kind(l) = "push" => irql[t] = "PASSIVE"
    /\ bracket' = [bracket EXCEPT ![t] = [lock |-> l, mode |-> mode, level |-> irql[t]]]
    /\ pc' = [pc EXCEPT ![t] = "acquire"]
    /\ region' = IF Kind(l) = "push" THEN [region EXCEPT ![t] = @ + 1] ELSE region
    /\ old' = [old EXCEPT ![t] = irql[t]]
    /\ irql' = IF Kind(l) = "spin" THEN [irql EXCEPT ![t] = "DISPATCH"] ELSE irql
    /\ UNCHANGED <<platform, held, PrevIrql, mixed>>

(* The lock is granted. *)
Acquire_grant(t) ==
    LET l == bracket[t].lock
    IN  /\ pc[t] = "acquire"
        /\ Conflicts(t) = {}
        /\ Push(t, bracket[t])
        /\ IF Kind(l) = "spin" THEN Goto(t, "store") ELSE Return(t)
        /\ mixed' = (mixed \/ /\ Kind(l) = "spin"
                              /\ \E u \in HoldersOf(l) : \E i \in DOMAIN held[u] :
                                    held[u][i].lock = l /\ held[u][i].level # bracket[t].level)
        /\ UNCHANGED <<platform, irql, region, PrevIrql>>

(* Who holds a pthread_rwlock exclusively is told so when it acquires it   *)
(* again: CXPLAT_FRE_ASSERT ends the process.                              *)
Acquire_EDEADLK(t) ==
    /\ pc[t] = "acquire"
    /\ Kind(bracket[t].lock) = "rwlock" /\ t \in Holders(bracket[t].lock, "exclusive")
    /\ pc' = [u \in Threads |-> "ended"]
    /\ UNCHANGED <<platform, irql, region, held, PrevIrql, bracket, old, mixed>>

(* Mutation of Acquire_store: the caller is taken to run at PASSIVE_LEVEL. *)
StorePassive(t) ==
    /\ pc[t] = "store"
    /\ PrevIrql' = [PrevIrql EXCEPT ![bracket[t].lock] = "PASSIVE"]
    /\ Return(t)
    /\ UNCHANGED <<platform, irql, region, held, mixed>>

(* (Lock)->PrevIrql = ... *)
Acquire_store(t) ==
    /\ pc[t] = "store"
    /\ PrevIrql' = [PrevIrql EXCEPT ![bracket[t].lock] = old[t]]
    /\ Return(t)
    /\ UNCHANGED <<platform, irql, region, held, mixed>>

(* Mutation of Release_load: the critical region is left first. *)
LeaveFirst(t) ==
    /\ pc[t] = "run" /\ held[t] # <<>> /\ Top(t).lock \in PushLocks
    /\ bracket' = [bracket EXCEPT ![t] = Top(t)]
    /\ region' = [region EXCEPT ![t] = @ - 1]
    /\ pc' = [pc EXCEPT ![t] = "release"]
    /\ UNCHANGED <<platform, irql, held, PrevIrql, old, mixed>>

(* The macros that release: first the argument (Lock)->PrevIrql is read *)
Release_load(t) ==
    /\ pc[t] = "run" /\ held[t] # <<>> /\ Top(t).mode # "raise"
    /\ bracket' = [bracket EXCEPT ![t] = Top(t)]
    /\ old' = IF Kind(Top(t).lock) = "spin"
              THEN [old EXCEPT ![t] = PrevIrql[Top(t).lock]] ELSE old
    /\ pc' = [pc EXCEPT ![t] = "release"]
    /\ UNCHANGED <<platform, irql, region, held, PrevIrql, mixed>>

(* ... then the lock is given up, and with a spin lock the level. *)
Release_unlock(t) ==
    LET kind == Kind(bracket[t].lock)
    IN  /\ pc[t] = "release"
        /\ Pop(t)
        /\ IF kind = "push" THEN Goto(t, "leave") ELSE Return(t)
        /\ irql' = IF kind = "spin" THEN [irql EXCEPT ![t] = old[t]] ELSE irql
        /\ UNCHANGED <<platform, region, PrevIrql, mixed>>

(* KeLeaveCriticalRegion() *)
Release_leave(t) ==
    /\ pc[t] = "leave"
    /\ region' = [region EXCEPT ![t] = @ - 1]
    /\ Return(t)
    /\ UNCHANGED <<platform, irql, held, PrevIrql, mixed>>

Next ==
    \E t \in Threads :
       \/ CXPLAT_RAISE_IRQL(t)
       \/ CXPLAT_LOWER_IRQL(t)
       \/ \E l \in Locks : \E mode \in Modes(l) : Acquire_call(t, l, mode)
       \/ Acquire_grant(t)
       \/ Acquire_EDEADLK(t)
       \/ Acquire_store(t)
       \/ Release_load(t)
       \/ Release_unlock(t)
       \/ Release_leave(t)

Spec == Init /\ [][Next]_vars

-----------------------------------------------------------------------------
(* The level t should run at between two macros: DISPATCH_LEVEL inside a   *)
(* spin lock or a raise, PASSIVE_LEVEL outside.                            *)
Expected(t) ==
    IF platform = "winkernel" /\ \E i \in DOMAIN held[t] : held[t][i].lock \notin PushLocks
    THEN "DISPATCH" ELSE "PASSIVE"

(* CXPLAT_AT_DISPATCH() is true inside a dispatch lock, and after the      *)
(* release the thread runs at the level it had before the acquisition.     *)
IrqlIsRestored == \A t \in Threads : pc[t] = "run" => irql[t] = Expected(t)

(* One PrevIrql suffices for all readers of a CXPLAT_DISPATCH_RW_LOCK as   *)
(* long as those that share it came from the same level; the lock never    *)
(* corrupts the level otherwise, however its acquisitions interleave.      *)
IrqlIsRestoredUnlessMixed == ~mixed => IrqlIsRestored

(* A thread that holds a push lock cannot be suspended: it is inside as    *)
(* many critical regions as it has acquired push locks, from before each   *)
(* is granted until after it is given up, and leaves them all.             *)
HoldersCannotBeSuspended ==
    \A t \in Threads :
       LET pushes == {i \in DOMAIN held[t] : held[t][i].lock # -1 /\ Kind(held[t][i].lock) = "push"}
       IN  /\ Cardinality(pushes) <= region[t]
           /\ pc[t] = "run" => Cardinality(pushes) = region[t]

(* Whom t may be waiting for: those that conflict, and where writers are   *)
(* not overtaken also the writers that wait for the lock.                  *)
WaitsFor(t) ==
    IF pc[t] # "acquire" THEN {}
    ELSE Conflicts(t) \cup
         {u \in Threads : /\ pc[u] = "acquire" /\ bracket[u].lock = bracket[t].lock
                          /\ bracket[t].mode = "shared" /\ bracket[u].mode = "exclusive"
                          /\ Kind(bracket[t].lock) \in {"srw", "push", "spin"}}

(* Threads that acquire locks in order wait for each other forever only if *)
(* one of them acquires again a lock that it holds, and that lock is not   *)
(* the recursive CXPLAT_LOCK or CXPLAT_DISPATCH_LOCK of user mode and      *)
(* POSIX.  Kernel mode has no lock that may be acquired again.             *)
DeadlockNeedsReacquisition ==
    \A S \in (SUBSET Threads) \ {{}} :
       (\A t \in S : WaitsFor(t) \cap S # {}) =>
          \E t \in S : /\ t \in HoldersOf(bracket[t].lock)
                       /\ platform = "winkernel" \/ bracket[t].lock \in RwLocks
=============================================================================
