------------------------------ MODULE LocalMem ------------------------------
(***************************************************************************)
(* The allocator of IOP memory (portable-ohci-ps2.c:29-302).  The          *)
(* controller can only reach memory of the I/O processor, so TDs, bounce   *)
(* buffers and the ohci structure itself come from regions that            *)
(* GrowLocalMem gets from the IOP's heap, cut into blocks on demand.       *)
(*                                                                         *)
(* Processes and the interrupt handler allocate and free.  One processor:  *)
(* a process keeps it until it sleeps, in kmalloc(GFP_KERNEL) or in        *)
(* ps2sif_allociopheap; an interrupt may come between any two steps.       *)
(*                                                                         *)
(* Addresses and sizes are counted in granules of 256 bytes (line 184).    *)
(* The two lists are sets of blocks: their order only decides which of the *)
(* blocks that fit is taken, and the model takes any.  Of the counter      *)
(* insufficient_local_mem the code uses whether it is zero.                *)
(***************************************************************************)
EXTENDS Integers, FiniteSets

CONSTANTS
    Procs,          \* processes that allocate
    Idle,           \* nobody holds the processor
    NULL,
    Bases,          \* addresses of the regions the IOP's heap can grant
    Unit,           \* LOCAL_MEM_UNIT, in granules
    MaxMems,        \* MAX_LOCAL_MEM / LOCAL_MEM_UNIT
    Sizes,          \* sizes that are asked for
    IndexFirst      \* line 110 reads nlocal_mems before it calls the heap

ASSUME RegionAssumption ==
    /\ Idle \notin Procs
    /\ NULL \notin Bases
    /\ Bases \subseteq Nat
    /\ Unit \in Nat \ {0}
    /\ \A r, s \in Bases : r # s => r + Unit <= s \/ s + Unit <= r
    /\ MaxMems \in Nat \ {0}
    /\ Sizes \subseteq Nat \ {0}
    /\ IndexFirst \in BOOLEAN

VARIABLES
    loaded,                 \* between Portable_AllocateOhci and _FreeOhci
    local_mems, nlocal_mems,
    insufficient_local_mem, \* is not zero
    FreeList, AllocList,
    heap,                   \* regions the IOP's heap has granted
    lost,                   \* blocks in no list: their mb was not allocated
    cpu,                    \* the process that holds the processor
    pc, want, do_retry,     \* of each AllocLocalMem under way
    slot,                   \* the index line 110 read before the call
    new,                    \* the block that waits for its mb
    fault                   \* the array local_mems was overrun

tableVars == <<local_mems, nlocal_mems, heap>>
listVars  == <<FreeList, AllocList, lost>>
vars == <<loaded, tableVars, insufficient_local_mem, listVars, cpu, pc, want,
          do_retry, slot, new, fault>>

Block == [p : Nat, size : Nat \ {0}]
Mb(p, n) == [p |-> p, size |-> n]

(* Growing stops one region too late (line 96): the model has the entry    *)
(* behind the array too.                                                   *)
Slots == 0 .. MaxMems + 1

Init ==
    /\ loaded = FALSE
    /\ local_mems = [i \in Slots |-> NULL]
    /\ nlocal_mems = 0
    /\ insufficient_local_mem = FALSE
    /\ FreeList = {} /\ AllocList = {} /\ heap = {} /\ lost = {}
    /\ cpu = Idle
    /\ pc = [q \in Procs |-> "idle"]
    /\ want = [q \in Procs |-> 0]
    /\ do_retry = [q \in Procs |-> FALSE]
    /\ slot = [q \in Procs |-> 0]
    /\ new = [q \in Procs |-> NULL]
    /\ fault = FALSE

Runs(q) == ~ fault /\ cpu \in {Idle, q}

(* q goes on to a step it reaches without / only after sleeping.           *)
Goto(q, from, to) == /\ Runs(q)
                     /\ pc[q] = from
                     /\ pc' = [pc EXCEPT ![q] = to]
                     /\ cpu' = q
Sleep(q, from, to) == /\ Runs(q)
                      /\ pc[q] = from
                      /\ pc' = [pc EXCEPT ![q] = to]
                      /\ cpu' = Idle

(* The call returns: its local variables are gone.                         *)
Return(q, from) == /\ Sleep(q, from, "idle")
                   /\ want' = [want EXCEPT ![q] = 0]
                   /\ slot' = [slot EXCEPT ![q] = 0]

-----------------------------------------------------------------------------
(* The pieces; "Mutant" marks a plausible mistake in the definition after  *)
(* it, which no specification uses.                                        *)

Cut(b, n) == Mb(b.p + (b.size - n), n)

Shrunk(b, n) == Mb(b.p, b.size - n)

(* Mutant: the rest of a block that is cut is forgotten.                   *)
TakeTopOnly(b, n) == FreeList' = FreeList \ {b}

(* A larger block gives its top away, lines 212-215.                       *)
TakeTop(b, n) == FreeList' = (FreeList \ {b}) \cup {Shrunk(b, n)}

(* Mutant: any block that lies below is taken for the preceding one.       *)
Below(a, b) == a.p + a.size <= b.p
Precedes(a, b) == a.p + a.size = b.p
Merged(a, b) == Mb(a.p, a.size + b.size)

(* Mutant: the region is returned, its blocks stay on the list.            *)
KeepFreeList == FreeList
DropFreeList == {}

TableRegions == { local_mems[i] : i \in 0 .. nlocal_mems - 1 }

RetryOnce(q) == do_retry' = [do_retry EXCEPT ![q] = FALSE]

-----------------------------------------------------------------------------
(* GrowLocalMem.                                                           *)

(* The region is entered in the table and put on the list, lines 110-131.  *)
(* C leaves open whether line 110 reads its index before or after the call *)
(* that sleeps; lines 111 and 120 read it again.                           *)
EnterRegion(i, r) ==
    LET table == [local_mems EXCEPT ![i] = r]
        base  == table[nlocal_mems]
    IN  /\ local_mems' = table
        /\ IF base = NULL
           THEN UNCHANGED <<nlocal_mems, FreeList>>
           ELSE /\ FreeList' = FreeList \cup {Mb(base, Unit)}
                /\ nlocal_mems' = nlocal_mems + 1

(* Lines 91-102: the limit, and kmalloc of the mb, which sleeps.           *)
AtLimit == MaxMems < nlocal_mems

(* What ps2sif_allociopheap may answer.                                    *)
Grants == (Bases \ heap) \cup {NULL}

(* Mutant: the index is always read before the call.                       *)
IndexBeforeCall(q) == slot[q]
Index(q) == IF IndexFirst THEN slot[q] ELSE nlocal_mems

(* The mb was allocated (lines 102-110), the call to the heap sleeps.      *)
GrowItem(q) ==
    /\ Sleep(q, "kmalloc", "heap")
    /\ slot' = [slot EXCEPT ![q] = nlocal_mems]
    /\ UNCHANGED <<loaded, tableVars, insufficient_local_mem, listVars, want,
                   do_retry, new, fault>>

(* It was not, lines 104-108.                                              *)
GrowItemFails(q) ==
    /\ Goto(q, "kmalloc", "scan")
    /\ UNCHANGED <<loaded, tableVars, insufficient_local_mem, listVars, want,
                   do_retry, slot, new, fault>>

GrowRegion(q, r) ==
    /\ Goto(q, "heap", "scan")
    /\ Index(q) < MaxMems /\ nlocal_mems < MaxMems
    /\ heap' = IF r = NULL THEN heap ELSE heap \cup {r}
    /\ EnterRegion(Index(q), r)
    /\ UNCHANGED <<loaded, insufficient_local_mem, AllocList, lost, want,
                   do_retry, slot, new, fault>>

(* The table is full: the region is written behind the array.              *)
GrowOverrun(q, r) ==
    /\ Goto(q, "heap", "scan")
    /\ ~ (Index(q) < MaxMems /\ nlocal_mems < MaxMems)
    /\ heap' = IF r = NULL THEN heap ELSE heap \cup {r}
    /\ EnterRegion(Index(q), r)
    /\ fault' = TRUE
    /\ UNCHANGED <<loaded, insufficient_local_mem, AllocList, lost, want,
                   do_retry, slot, new>>

-----------------------------------------------------------------------------
(* AllocLocalMem and FreeLocalMem.                                         *)

Call(q, n) ==
    /\ loaded
    /\ Goto(q, "idle", "retry")
    /\ want' = [want EXCEPT ![q] = n]
    /\ do_retry' = [do_retry EXCEPT ![q] = TRUE]
    /\ UNCHANGED <<loaded, tableVars, insufficient_local_mem, listVars, slot,
                   new, fault>>

(* Lines 189-194: grow first if memory ran out before.                     *)
TestInsufficient(q) ==
    /\ insufficient_local_mem' = FALSE
    /\ IF insufficient_local_mem /\ ~ AtLimit
       THEN Sleep(q, "retry", "kmalloc")
       ELSE Goto(q, "retry", "scan")
    /\ UNCHANGED <<loaded, tableVars, listVars, want, do_retry, slot, new,
                   fault>>

(* A block of just the size moves to AllocList, lines 200-211.             *)
TakeWhole(b) == /\ FreeList' = FreeList \ {b}
                /\ AllocList' = AllocList \cup {b}

NoneFits(n) == \A b \in FreeList : b.size < n

ScanWhole(q) ==
    /\ Return(q, "scan")
    /\ \E b \in FreeList : b.size = want[q] /\ TakeWhole(b)
    /\ do_retry' = [do_retry EXCEPT ![q] = FALSE]
    /\ UNCHANGED <<loaded, tableVars, insufficient_local_mem, lost, new, fault>>

ScanTop(q) ==
    /\ Sleep(q, "scan", "cut")
    /\ \E b \in FreeList :
           /\ b.size > want[q]
           /\ TakeTop(b, want[q])
           /\ new' = [new EXCEPT ![q] = Cut(b, want[q])]
    /\ do_retry' = [do_retry EXCEPT ![q] = FALSE]
    /\ UNCHANGED <<loaded, tableVars, insufficient_local_mem, AllocList, lost,
                   want, slot, fault>>

(* Lines 237-243, and line 245.                                            *)
ScanNone(q) ==
    /\ NoneFits(want[q]) /\ do_retry[q]
    /\ insufficient_local_mem' = TRUE
    /\ Goto(q, "scan", "retry")
    /\ RetryOnce(q)
    /\ UNCHANGED <<loaded, tableVars, listVars, want, slot, new, fault>>

ScanFails(q) ==
    /\ NoneFits(want[q]) /\ ~ do_retry[q]
    /\ insufficient_local_mem' = TRUE
    /\ Return(q, "scan")
    /\ UNCHANGED <<loaded, tableVars, listVars, do_retry, new, fault>>

(* The mb of the part that was cut off, lines 216-232; without it the part *)
(* is in no list any more (line 219).                                      *)
CutDone(q) ==
    /\ Return(q, "cut")
    /\ \/ AllocList' = AllocList \cup {new[q]} /\ lost' = lost
       \/ lost' = lost \cup {new[q]} /\ AllocList' = AllocList
    /\ new' = [new EXCEPT ![q] = NULL]
    /\ UNCHANGED <<loaded, tableVars, insufficient_local_mem, FreeList,
                   do_retry, fault>>

(* The whole call in the interrupt handler, which does not grow.           *)
IrqAlloc(n) ==
    /\ loaded /\ ~ fault
    /\ \/ /\ \E b \in FreeList : b.size = n /\ TakeWhole(b)
          /\ UNCHANGED <<insufficient_local_mem, lost>>
       \/ /\ \E b \in FreeList :
                /\ b.size > n
                /\ TakeTop(b, n)
                /\ \/ AllocList' = AllocList \cup {Cut(b, n)} /\ lost' = lost
                   \/ lost' = lost \cup {Cut(b, n)} /\ AllocList' = AllocList
          /\ UNCHANGED insufficient_local_mem
       \/ /\ NoneFits(n)
          /\ insufficient_local_mem' = TRUE
          /\ UNCHANGED listVars
    /\ UNCHANGED <<loaded, tableVars, cpu, pc, want, do_retry, slot, new, fault>>

(* FreeLocalMem, in a process or in the handler: the block joins the free  *)
(* block just before it, if there is one, else it is put on the list.      *)
Free(b) ==
    /\ loaded /\ ~ fault
    /\ AllocList' = AllocList \ {b}
    /\ \/ \E a \in FreeList : /\ Precedes(a, b)
                              /\ FreeList' = (FreeList \ {a}) \cup {Merged(a, b)}
       \/ /\ \A a \in FreeList : ~ Precedes(a, b)
          /\ FreeList' = FreeList \cup {b}
    /\ UNCHANGED <<loaded, tableVars, insufficient_local_mem, lost, cpu, pc,
                   want, do_retry, slot, new, fault>>

-----------------------------------------------------------------------------
(* Portable_AllocateOhci and Portable_FreeOhci, which run alone.           *)

(* The first region and the ohci structure are granted.                    *)
AllocateOhci(r) ==
    /\ ~ loaded /\ ~ fault
    /\ ~ AtLimit
    /\ heap' = heap \cup {r}
    /\ EnterRegion(nlocal_mems, r)
    /\ loaded' = TRUE
    /\ UNCHANGED <<insufficient_local_mem, AllocList, lost, cpu, pc, want,
                   do_retry, slot, new, fault>>

(* CleanupLocalMem, lines 133-139, and the lists, lines 287-301.           *)
CleanupLocalMem == /\ heap' = heap \ TableRegions
                   /\ nlocal_mems' = 0

(* The region is granted, the ohci structure is not, lines 263-271: the    *)
(* region goes back, its entry in the table stays.                         *)
AllocateOhciFails(r) ==
    /\ ~ loaded /\ ~ fault
    /\ ~ AtLimit
    /\ local_mems' = [local_mems EXCEPT ![nlocal_mems] = r]
    /\ UNCHANGED <<loaded, nlocal_mems, heap, insufficient_local_mem, listVars,
                   cpu, pc, want, do_retry, slot, new, fault>>

(* The devices are gone: no call is under way.  What was lost goes back    *)
(* with its region.                                                        *)
FreeOhci ==
    /\ loaded /\ ~ fault
    /\ \A q \in Procs : pc[q] = "idle"
    /\ loaded' = FALSE
    /\ CleanupLocalMem
    /\ FreeList' = DropFreeList
    /\ AllocList' = {} /\ lost' = {}
    /\ UNCHANGED <<local_mems, insufficient_local_mem, cpu, pc, want, do_retry,
                   slot, new, fault>>

-----------------------------------------------------------------------------
Step(q) ==
    \/ TestInsufficient(q)
    \/ GrowItem(q) \/ GrowItemFails(q)
    \/ \E r \in Grants : GrowRegion(q, r) \/ GrowOverrun(q, r)
    \/ ScanWhole(q) \/ ScanTop(q) \/ ScanNone(q) \/ ScanFails(q)
    \/ CutDone(q)

Next ==
    \/ \E q \in Procs : Step(q) \/ \E n \in Sizes : Call(q, n)
    \/ \E n \in Sizes : IrqAlloc(n)
    \/ \E b \in AllocList : Free(b)
    \/ \E r \in Bases \ heap : AllocateOhci(r) \/ AllocateOhciFails(r)
    \/ FreeOhci

Spec == Init /\ [][Next]_vars

-----------------------------------------------------------------------------
(* Properties.                                                             *)

TableType ==
    /\ loaded \in BOOLEAN
    /\ local_mems \in [Slots -> Bases \cup {NULL}]
    /\ nlocal_mems \in Slots
    /\ heap \subseteq Bases
    /\ fault \in BOOLEAN
ListType ==
    /\ insufficient_local_mem \in BOOLEAN
    /\ FreeList \subseteq Block /\ AllocList \subseteq Block
    /\ lost \subseteq Block
CallType ==
    /\ cpu \in Procs \cup {Idle}
    /\ pc \in [Procs -> {"idle", "retry", "kmalloc", "heap", "scan", "cut"}]
    /\ want \in [Procs -> Sizes \cup {0}]
    /\ do_retry \in [Procs -> BOOLEAN]
    /\ slot \in [Procs -> Slots]
    /\ new \in [Procs -> Block \cup {NULL}]
TypeOK == TableType /\ ListType /\ CallType

Disjoint(a, b) == a.p + a.size <= b.p \/ b.p + b.size <= a.p

Cutting == { q \in Procs : pc[q] = "cut" }

(* No memory is given to two users: the blocks on the two lists, and those *)
(* that wait for their mb while AllocLocalMem sleeps in kmalloc (line 216) *)
(* and others allocate and free, never overlap.                            *)
NoOverlap ==
    /\ \A a, b \in FreeList : a = b \/ Disjoint(a, b)
    /\ \A a, b \in AllocList : a = b \/ Disjoint(a, b)
    /\ \A a \in FreeList, b \in AllocList : Disjoint(a, b)
    /\ \A q \in Cutting : \A b \in FreeList \cup AllocList : Disjoint(new[q], b)
    /\ \A q, r \in Cutting : q = r \/ Disjoint(new[q], new[r])

Cells(b) == b.p .. b.p + b.size - 1
RegionCells == UNION { Cells(Mb(r, Unit)) : r \in heap }
Blocks == FreeList \cup AllocList \cup { new[q] : q \in Cutting }

(* A block lies in memory that the IOP's heap has granted and not taken    *)
(* back, across removal and a new start of the driver.                     *)
WithinRegions == \A b \in Blocks : Cells(b) \subseteq RegionCells

(* All of the granted memory is in some block, except what AllocLocalMem   *)
(* drops when its second kmalloc fails (line 219).                         *)
Tiling == RegionCells = UNION { Cells(b) : b \in Blocks \cup lost }

(* The table knows every region once, so that CleanupLocalMem returns all  *)
(* of them and none twice, though GrowLocalMem sleeps between reading      *)
(* nlocal_mems and advancing it.                                           *)
RegionsKnown ==
    /\ heap = TableRegions
    /\ \A i, j \in 0 .. nlocal_mems - 1 :
           local_mems[i] = local_mems[j] => i = j
=============================================================================
