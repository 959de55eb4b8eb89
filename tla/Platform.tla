------------------------------- MODULE Platform -------------------------------
(***************************************************************************)
(* CxPlatInitialize and CxPlatUninitialize of src/lib/cxplat_posix.c,      *)
(* src/lib/cxplat_winuser.c and src/lib/cxplat_winkernel.c, with the       *)
(* processor tables of Windows user mode and the memory they live in.      *)
(*                                                                         *)
(* The calls are serialized, as inc/cxplat.h asks, and repeated: what a    *)
(* call leaves behind, the next one finds.  Each call of the system that   *)
(* can fail is a step.                                                     *)
(***************************************************************************)
EXTENDS Integers, Sequences, FiniteSetsExt

CONSTANTS Builds,
          Blocks,          \* the memory
          Topologies,      \* active processors of each group, as the system reports them
          MaxProcessors,   \* UINT16_MAX
          MaxNumber,       \* the largest number of a processor within its group
          Null             \* the null pointer

\* The platform, DEBUG, and CXPLAT_NUMA_AWARE
ASSUME PlatformAssumption ==
    /\ Builds \subseteq [platform : {"posix", "winuser", "winkernel"}, debug : BOOLEAN, numa : BOOLEAN]
    /\ Topologies \subseteq Seq(Nat)
    /\ Null \notin Blocks /\ IsFiniteSet(Blocks)
    /\ MaxProcessors \in Nat \ {0} /\ MaxNumber \in Nat

VARIABLES
    build,
    stopped,        \* why the program was stopped, or "no"
    up,             \* the last call was a CxPlatInitialize that succeeded
    pc, Status,     \* the step and the result so far
    Heap, RandomFd, RngAlgorithm,
    memory,         \* the tag of each block, or "free"
    Info,           \* CxPlatProcessorInfoInit's buffer
    reported,       \* and what it holds
    system,         \* what the system would report now
    grown,          \* history: since its last report a group without processors got some
    CxPlatProcessorInfo, CxPlatProcessorGroupInfo, CxPlatNumaNodeMasks,  \* pointers
    ProcInfo, GroupInfo,                                                 \* what they point to
    CxPlatProcessorCount,
    failures        \* history: how often the random device could not be opened,
                    \* counted up to the number of blocks

control == <<build, up, pc, Status>>
handles == <<Heap, RandomFd, RngAlgorithm>>
buffer == <<Info, reported, system, grown>>
tables == <<CxPlatProcessorInfo, CxPlatProcessorGroupInfo, ProcInfo, GroupInfo, CxPlatProcessorCount>>
vars == <<control, stopped, handles, memory, buffer, tables, CxPlatNumaNodeMasks, failures>>

Init ==
    /\ build \in Builds /\ up = FALSE
    /\ stopped = "no"
    /\ pc = "idle" /\ Status = "success"
    /\ Heap = "none" /\ RandomFd = "none" /\ RngAlgorithm = "none"
    /\ memory = [b \in Blocks |-> "free"]
    /\ Info = Null /\ reported = <<>> /\ system \in Topologies /\ grown = FALSE
    /\ CxPlatProcessorInfo = Null /\ CxPlatProcessorGroupInfo = Null /\ CxPlatNumaNodeMasks = Null
    /\ ProcInfo = <<>> /\ GroupInfo = <<>> /\ CxPlatProcessorCount = 0
    /\ failures = 0

At(step) == stopped = "no" /\ pc = step

Goto(step, status) ==
    /\ pc' = step /\ Status' = status
    /\ UNCHANGED <<build, up, stopped, failures>>

Return(status) ==
    /\ pc' = "idle" /\ Status' = status /\ up' = (status = "success")
    /\ failures' = IF pc = "open" /\ status = "failure" /\ failures < Cardinality(Blocks)
                   THEN failures + 1 ELSE failures
    /\ UNCHANGED <<build, stopped>>

Uninitialized ==
    /\ up' = FALSE
    /\ UNCHANGED <<build, pc, Status, stopped, failures>>

Stop(why) ==
    /\ stopped' = why
    /\ UNCHANGED <<control, handles, memory, buffer, tables, CxPlatNumaNodeMasks, failures>>

-----------------------------------------------------------------------------
(* Memory: malloc, or the heap of CxPlatform.  *)

CxPlatAlloc(b, tag) == memory[b] = "free" /\ memory' = [memory EXCEPT ![b] = tag]

\* The pointers can be freed, one after the other; null pointers are ignored.
CanFree(pointers, tag) == \A p \in pointers \ {Null} : memory[p] = tag

CxPlatFree(pointers) == [b \in Blocks |-> IF b \in pointers THEN "free" ELSE memory[b]]

-----------------------------------------------------------------------------
(* Windows user mode.  *)

Initialize_winuser ==
    /\ At("idle") /\ build.platform = "winuser" /\ ~up
    /\ \/ Heap' = "open" /\ Goto("size", "success")
       \/ Heap' = "none" /\ Return("failure")
    /\ Info' = Null /\ reported' = <<>>
    /\ UNCHANGED <<RandomFd, RngAlgorithm, memory, system, grown, tables, CxPlatNumaNodeMasks>>

\* CxPlatGetProcessorGroupInfo: the size, the buffer, the information.
QuerySize ==
    /\ At("size")
    /\ Goto("info", "success") \/ Goto("error", "failure")
    /\ UNCHANGED <<handles, memory, buffer, tables, CxPlatNumaNodeMasks>>

AllocInfo ==
    /\ At("info")
    /\ \/ \E b \in Blocks : CxPlatAlloc(b, "tmp") /\ Info' = b /\ Goto("query", "success")
       \/ UNCHANGED <<memory, Info>> /\ Goto("error", "failure")
    /\ UNCHANGED <<handles, reported, system, grown, tables, CxPlatNumaNodeMasks>>

\* When it fails the buffer is freed, and Info still points to it.
QueryInfo ==
    /\ At("query")
    /\ \/ reported' = system /\ grown' = FALSE /\ Goto("count", "success") /\ UNCHANGED memory
       \/ memory' = CxPlatFree({Info}) /\ Goto("error", "failure") /\ UNCHANGED <<reported, grown>>
    /\ UNCHANGED <<handles, Info, system, tables, CxPlatNumaNodeMasks>>

\* The processors of the first g groups of a report.
Before(r) ==
    LET sum[g \in 0..Len(r)] == IF g = 0 THEN 0 ELSE sum[g - 1] + r[g] IN sum

Active == Before(reported)[Len(reported)]

CountProcessors ==
    /\ At("count")
    /\ LET valid == Active > 0 /\ Active <= MaxProcessors IN
       \/ /\ valid /\ Goto("proc", "success")
          /\ UNCHANGED <<handles, memory, buffer, tables, CxPlatNumaNodeMasks>>
       \/ ~valid /\ build.debug /\ Stop("assert")
       \/ /\ ~valid /\ ~build.debug /\ Goto("error", "failure")
          /\ UNCHANGED <<handles, memory, buffer, tables, CxPlatNumaNodeMasks>>

AllocProcessorInfo ==
    /\ At("proc")
    /\ IF CxPlatProcessorInfo # Null
       THEN Stop("overwritten")
       ELSE /\ \/ \E b \in Blocks : CxPlatAlloc(b, "proc") /\ CxPlatProcessorInfo' = b /\ Goto("group", "success")
               \/ UNCHANGED <<memory, CxPlatProcessorInfo>> /\ Goto("error", "failure")
            /\ UNCHANGED <<handles, buffer, CxPlatProcessorGroupInfo, ProcInfo, GroupInfo, CxPlatProcessorCount, CxPlatNumaNodeMasks>>

AllocGroupInfo ==
    /\ At("group")
    /\ IF CxPlatProcessorGroupInfo # Null /\ build.debug
       THEN Stop("overwritten")
       ELSE /\ \/ \E b \in Blocks : CxPlatAlloc(b, "proc") /\ CxPlatProcessorGroupInfo' = b /\ Goto("tables", "success")
               \/ CxPlatProcessorGroupInfo' = Null /\ UNCHANGED memory /\ Goto("error", "failure")
            /\ UNCHANGED <<handles, buffer, CxPlatProcessorInfo, ProcInfo, GroupInfo, CxPlatProcessorCount, CxPlatNumaNodeMasks>>

\* The groups are numbered from 1 here.
Groups == [g \in DOMAIN reported |->
    [Count |-> reported[g], Offset |-> Before(reported)[g - 1]]]

\* Mutation: a processor may be one past the end of its group.
OwnersInclusive(proc) ==
    {g \in DOMAIN reported : proc >= Groups[g].Offset /\ proc <= Groups[g].Offset + reported[g]}

\* The groups a processor is found in; the loop takes the first.
Owners(proc) ==
    {g \in DOMAIN reported : proc >= Groups[g].Offset /\ proc < Groups[g].Offset + reported[g]}

FillTables ==
    /\ At("tables")
    /\ GroupInfo' = Groups
    /\ CxPlatProcessorCount' = Active
    /\ ProcInfo' = [proc \in 0..(Active - 1) |->
          LET g == Min(Owners(proc)) IN [Group |-> g, Index |-> proc - Groups[g].Offset]]
    /\ Goto("error", "success")
    /\ UNCHANGED <<handles, memory, buffer, CxPlatProcessorInfo, CxPlatProcessorGroupInfo, CxPlatNumaNodeMasks>>

\* Mutation: the error path leaves the pointers as they are.
ErrorKeepsPointers ==
    /\ At("error")
    /\ CanFree({Info}, "tmp")
    /\ memory' = CxPlatFree({Info} \cup IF Status = "failure" THEN {CxPlatProcessorGroupInfo, CxPlatProcessorInfo} ELSE {})
    /\ IF Status = "failure" THEN Goto("heap", "failure") ELSE Return("success")
    /\ UNCHANGED <<handles, buffer, tables, CxPlatNumaNodeMasks>>

\* The label Error, on every way out of CxPlatProcessorInfoInit.
ProcessorInfoInit_error ==
    /\ At("error")
    /\ LET failed == Status = "failure"
           held == IF failed THEN {CxPlatProcessorGroupInfo, CxPlatProcessorInfo} ELSE {} IN
       IF CanFree({Info}, "tmp") /\ CanFree(held, "proc")
       THEN /\ memory' = CxPlatFree({Info} \cup held)
            /\ CxPlatProcessorGroupInfo' = IF failed THEN Null ELSE CxPlatProcessorGroupInfo
            /\ CxPlatProcessorInfo' = IF failed THEN Null ELSE CxPlatProcessorInfo
            /\ IF failed THEN Goto("heap", "failure") ELSE Return("success")
            /\ UNCHANGED <<handles, buffer, ProcInfo, GroupInfo, CxPlatProcessorCount, CxPlatNumaNodeMasks>>
       ELSE Stop("free")

\* HeapDestroy frees what was allocated from the heap.
HeapDestroy ==
    /\ Heap' = "none"
    /\ memory' = [b \in Blocks |-> "free"]

Initialize_failed ==
    /\ At("heap")
    /\ HeapDestroy /\ Return("failure")
    /\ UNCHANGED <<RandomFd, RngAlgorithm, buffer, tables, CxPlatNumaNodeMasks>>

\* Mutation: the tables are freed with the heap only.
UninitializeKeepsPointers ==
    /\ At("idle") /\ build.platform = "winuser" /\ up
    /\ HeapDestroy /\ Uninitialized
    /\ UNCHANGED <<RandomFd, RngAlgorithm, buffer, tables, CxPlatNumaNodeMasks>>

Uninitialize_winuser ==
    /\ At("idle") /\ build.platform = "winuser" /\ up
    /\ IF CanFree({CxPlatProcessorGroupInfo, CxPlatProcessorInfo}, "proc")
       THEN /\ CxPlatProcessorGroupInfo' = Null /\ CxPlatProcessorInfo' = Null
            /\ HeapDestroy /\ Uninitialized
            /\ UNCHANGED <<RandomFd, RngAlgorithm, buffer, ProcInfo, GroupInfo, CxPlatProcessorCount, CxPlatNumaNodeMasks>>
       ELSE Stop("free")

-----------------------------------------------------------------------------
(* POSIX.  An allocation that fails, or a node without processors, stops   *)
(* the program; where there is no NUMA support the pointer keeps its value.*)

\* The largest uint32_t, to scale: more than any number of processors.
UINT32_MAX == (MaxProcessors + 1) * (MaxProcessors + 1) - 1

\* The count is sysconf's result as a uint32_t, also when that is -1.
Initialize_posix ==
    /\ At("idle") /\ build.platform = "posix" /\ ~up
    /\ \E n \in {1, MaxProcessors, UINT32_MAX} : CxPlatProcessorCount' = n
    /\ Goto(IF build.numa THEN "numa" ELSE "open", "success")
    /\ UNCHANGED <<handles, memory, buffer, CxPlatProcessorInfo, CxPlatProcessorGroupInfo, ProcInfo, GroupInfo, CxPlatNumaNodeMasks>>

NumaNodeMasks ==
    /\ At("numa")
    /\ \/ /\ \E b \in Blocks : CxPlatAlloc(b, "proc") /\ CxPlatNumaNodeMasks' = b
          /\ Goto("open", "success") /\ UNCHANGED <<handles, buffer, tables>>
       \/ /\ Goto("open", "success")
          /\ UNCHANGED <<handles, memory, buffer, tables, CxPlatNumaNodeMasks>>
       \/ Stop("assert")

\* Mutation: a failure is not returned.
OpenIgnoresFailure ==
    /\ At("open")
    /\ RandomFd' \in {"open", "none"} /\ Return("success")
    /\ UNCHANGED <<Heap, RngAlgorithm, memory, buffer, tables, CxPlatNumaNodeMasks>>

OpenRandom ==
    /\ At("open")
    /\ \/ RandomFd' = "open" /\ Return("success")
       \/ RandomFd' = "none" /\ Return("failure")
    /\ UNCHANGED <<Heap, RngAlgorithm, memory, buffer, tables, CxPlatNumaNodeMasks>>

Uninitialize_posix ==
    /\ At("idle") /\ build.platform = "posix" /\ up
    /\ LET held == IF build.numa THEN {CxPlatNumaNodeMasks} ELSE {} IN
       IF CanFree(held, "proc")
       THEN /\ memory' = CxPlatFree(held)
            /\ RandomFd' = "closed" /\ Uninitialized
            /\ UNCHANGED <<Heap, RngAlgorithm, buffer, tables, CxPlatNumaNodeMasks>>
       ELSE Stop("free")

-----------------------------------------------------------------------------
(* Windows kernel mode.  *)

Initialize_winkernel ==
    /\ At("idle") /\ build.platform = "winkernel" /\ ~up
    /\ \E n \in {1, MaxProcessors} : CxPlatProcessorCount' = n
    /\ \/ RngAlgorithm' = "open" /\ Return("success")
       \/ RngAlgorithm' = "none" /\ Return("failure")
    /\ UNCHANGED <<Heap, RandomFd, memory, buffer, CxPlatProcessorInfo, CxPlatProcessorGroupInfo, ProcInfo, GroupInfo, CxPlatNumaNodeMasks>>

Uninitialize_winkernel ==
    /\ At("idle") /\ build.platform = "winkernel" /\ up
    /\ RngAlgorithm' = "none" /\ Uninitialized
    /\ UNCHANGED <<Heap, RandomFd, memory, buffer, tables, CxPlatNumaNodeMasks>>

-----------------------------------------------------------------------------
(* Processors are added to the system, in groups there are or in new ones. *)

AddProcessors ==
    /\ stopped = "no" /\ build.platform = "winuser"
    /\ system' \in {s \in Topologies : Len(s) >= Len(system) /\ s # system
                                      /\ \A g \in DOMAIN system : s[g] >= system[g]}
    /\ grown' = (grown \/ \E g \in DOMAIN system' :
                             system'[g] > 0 /\ (g \in DOMAIN system => system[g] = 0))
    /\ UNCHANGED <<control, stopped, handles, memory, Info, reported, tables, CxPlatNumaNodeMasks, failures>>

Step ==
    \/ QuerySize \/ AllocInfo \/ QueryInfo \/ CountProcessors
    \/ AllocProcessorInfo \/ AllocGroupInfo \/ FillTables \/ ProcessorInfoInit_error
    \/ Initialize_failed \/ NumaNodeMasks \/ OpenRandom

Call ==
    \/ Initialize_winuser \/ Initialize_posix \/ Initialize_winkernel
    \/ Uninitialize_winuser \/ Uninitialize_posix \/ Uninitialize_winkernel

Next == Step \/ Call \/ AddProcessors

Spec == Init /\ [][Next]_vars

-----------------------------------------------------------------------------
\* The index of the processor a thread runs on, from its number in the system:
\* its group and its number there, or elsewhere its number alone.
CxPlatProcCurrentNumber(group, number) ==
    IF build.platform = "winuser"
    THEN GroupInfo[group].Offset + (number % GroupInfo[group].Count)
    ELSE number % CxPlatProcessorCount

(* A thread on any processor of the system gets an index below the number  *)
(* of processors, also on processors that were added since; in user mode   *)
(* the tables lead back from it to the thread's group.  It takes a group   *)
(* that had no processors when the tables were made to read past their end *)
(* or divide by zero.  The number is at most the maximum of Windows; on    *)
(* POSIX a call that failed makes it the largest of its type.              *)
ProcessorTablesAgree ==
    /\ up => CxPlatProcessorCount \in 1..(IF build.platform = "posix" THEN UINT32_MAX ELSE MaxProcessors)
    /\ up /\ build.platform = "winuser" /\ ~grown =>
          \A g \in {h \in DOMAIN system : system[h] > 0}, n \in 0..MaxNumber :
             /\ g \in DOMAIN GroupInfo /\ GroupInfo[g].Count > 0
             /\ LET i == CxPlatProcCurrentNumber(g, n)
                IN  /\ i \in 0..(CxPlatProcessorCount - 1)
                    /\ ProcInfo[i] = [Group |-> g, Index |-> n % GroupInfo[g].Count]
    /\ up /\ build.platform # "winuser" =>
          \A n \in 0..MaxNumber : CxPlatProcCurrentNumber(1, n) \in 0..(CxPlatProcessorCount - 1)

(* While the library is initialized it holds what the later calls use: the *)
(* tables, in blocks of their own, the heap and the random generator.      *)
HeldWhileUp ==
    up /\ pc = "idle" =>
        CASE build.platform = "winuser" ->
                /\ Heap = "open"
                /\ CxPlatProcessorInfo # CxPlatProcessorGroupInfo
                /\ \A b \in Blocks : memory[b] = "proc" <=> b \in {CxPlatProcessorInfo, CxPlatProcessorGroupInfo}
          [] build.platform = "posix" -> RandomFd = "open"
          [] OTHER -> RngAlgorithm = "open"

(* After a CxPlatInitialize that failed and after CxPlatUninitialize,      *)
(* nothing is held, so that the library may be initialized again; only the *)
(* NUMA masks of POSIX are left behind when the random device is missing.  *)
NothingHeldWhileDown ==
    ~up /\ pc = "idle" /\ stopped = "no" =>
        /\ Heap = "none" /\ RngAlgorithm = "none" /\ RandomFd # "open"
        /\ CxPlatProcessorInfo = Null /\ CxPlatProcessorGroupInfo = Null
        /\ Cardinality({b \in Blocks : memory[b] # "free"}) <= failures

(* However often the library is initialized, no table is overwritten, and  *)
(* no block is freed that was not allocated but for two cases: user mode,  *)
(* when the second query of the processors fails, and POSIX, when NUMA     *)
(* support that was there before is not any more: the masks that were      *)
(* freed then are freed again.                                             *)
StopsAreKnown ==
    /\ stopped # "overwritten"
    /\ stopped = "free" => \/ build.platform = "winuser" /\ pc = "error" /\ memory[Info] = "free" /\ reported = <<>>
                           \/ /\ build.platform = "posix" /\ build.numa /\ up
                              /\ CxPlatNumaNodeMasks # Null /\ memory[CxPlatNumaNodeMasks] = "free"

(* A block that is freed carries the tag it was allocated with.  *)
FreesWhatWasAllocated == stopped # "free"
=============================================================================
