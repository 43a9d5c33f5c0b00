----------------------------- MODULE SideDumper -----------------------------
(***************************************************************************)
(* The core of the side dumper (side_dumper_core.c): the capture of urbs   *)
(* by submitting processes and by the interrupt handler, the queue and its *)
(* two semaphores, the worker thread, and the dumper's installation and    *)
(* removal with the host controller driver.                                *)
(*                                                                         *)
(* The kernel is the one the driver is written for: one processor, and a   *)
(* process that runs in the kernel keeps the processor until it sleeps     *)
(* (down() on a zero semaphore, kmalloc(GFP_KERNEL), schedule()).  `cpu'   *)
(* names the process that is between two such points; an interrupt may     *)
(* come between any two steps, and its handler runs to completion.         *)
(***************************************************************************)
EXTENDS Integers, Sequences, FiniteSets

CONSTANTS
    Procs,            \* processes that submit urbs
    Worker, Rmmod,    \* the worker thread; the process that unloads the module
    Idle,             \* nobody holds the processor
    DevNums,          \* USB device numbers in use
    TableSize,        \* entries of aDevSettings (16 in the code)
    NumberSpan,       \* 2^(width of unsigned int), for uUrbNumGenerator
    StartFailures,    \* ways in which starting up may fail in this instance
    MaxUrbs           \* bound: urbs captured in one behaviour

ASSUME ThreadAssumption ==
    /\ Idle \notin Procs \cup {Worker, Rmmod}
    /\ Worker \notin Procs \cup {Rmmod}
    /\ Rmmod \notin Procs

ASSUME NumberAssumption ==
    /\ DevNums \subseteq Nat
    /\ TableSize \in Nat \ {0}
    /\ NumberSpan \in Nat \ {0}
    /\ MaxUrbs \in Nat
    /\ StartFailures \subseteq {"hc_found_ohci", "kernel_thread"}

VARIABLES
    phase,            \* of the driver's life
    panic,            \* how the kernel died, if it did
    cpu,              \* the process that holds the processor
    uUrbNumGenerator,
    list,             \* Queue.list
    semListAccess, semItemsQueued, semExitSignal,
    oContinue,
    aDevSettings,     \* oEnabled and oAsync of each device
    procfs,           \* the /proc entries exist
    wpc, wItem,       \* the worker: where it is, and its pItem
    pc, mini, async,  \* each process: where it is, its mini urb, the mode it saw
    liveItems,        \* allocated TWorkItems, by the urb they were made for
    liveBufs,         \* allocated mini transfer_buffers, likewise
    log,              \* the dumps made, as id and number
    captured          \* urbs captured so far; names the next one

lifeVars   == <<phase, oContinue, procfs>>
queueVars  == <<list, semListAccess, semItemsQueued>>
workerVars == <<wpc, wItem>>
procVars   == <<pc, mini, async>>
heapVars   == <<liveItems, liveBufs>>
vars == <<lifeVars, panic, cpu, uUrbNumGenerator, queueVars, semExitSignal,
          aDevSettings, workerVars, procVars, heapVars, log, captured>>

Table    == 0 .. TableSize - 1
Settings == [oEnabled : BOOLEAN, oAsync : BOOLEAN]
Number   == 0 .. NumberSpan - 1

(* A TMiniUrb: id tells the captured urbs apart, tb is its transfer_buffer *)
(* pointer.                                                                *)
Pointer == {"NULL", "buffer"}
Mini == [id : Nat, num : Number, devnum : Table, tb : Pointer]
NewMini(i, n, d, b) == [id |-> i, num |-> n, devnum |-> d, tb |-> b]
NoMini == NewMini(0, 0, 0, "NULL")
Numbered(m, n) == [m EXCEPT !.num = n]
WithBuffer(m) == [m EXCEPT !.tb = "buffer"]

(* What the log keeps of a dump.                                           *)
Entry == [id : Nat, num : Number]
Dump(m) == [id |-> m.id, num |-> m.num]

Init ==
    /\ phase = "loading"
    /\ panic = "none"
    /\ cpu = Idle
    /\ uUrbNumGenerator = 0
    /\ list = <<>>
    /\ semListAccess = 0 /\ semItemsQueued = 0 /\ semExitSignal = 0
    /\ oContinue = 0
    /\ aDevSettings = [d \in Table |-> [oEnabled |-> FALSE, oAsync |-> FALSE]]
    /\ procfs = FALSE
    /\ wpc = "none" /\ wItem = NoMini
    /\ pc = [p \in Procs |-> "idle"]
    /\ mini = [p \in Procs |-> NoMini]
    /\ async = [p \in Procs |-> FALSE]
    /\ liveItems = {} /\ liveBufs = {}
    /\ log = <<>>
    /\ captured = 0

-----------------------------------------------------------------------------
(* Scheduling.                                                             *)

(* t may take a step: the kernel lives, and no other process runs.         *)
Runs(t) == panic = "none" /\ cpu \in {Idle, t}

(* t's step is not followed by a sleep / may be followed by one.           *)
Keeps(t) == cpu' = t
Yields   == cpu' = Idle

Goto(p, from, to) == /\ Runs(p)
                     /\ pc[p] = from
                     /\ pc' = [pc EXCEPT ![p] = to]

WGoto(from, to) == /\ Runs(Worker)
                   /\ wpc = from
                   /\ wpc' = to

-----------------------------------------------------------------------------
(* The pieces the operations are made of.  A definition whose comment says *)
(* "Mutant" is a plausible mistake in the one that follows it; no          *)
(* specification uses it.                                                  *)

(* Mutant: the count is wider than unsigned int.                           *)
NumberAfterWide(n) == n + 1
NumberAfter(n) == (n + 1) % NumberSpan

(* Mutant: list_add for list_add_tail.                                     *)
QueuedFront(m) == <<m>> \o list
QueuedTail(m) == Append(list, m)

(* Mutant: the semaphore is not given back.                                *)
NoUpListAccess == semListAccess' = semListAccess
UpListAccess == semListAccess' = semListAccess + 1

(* Mutant: only the first item of an empty list is signalled.              *)
UpFirstItemQueued ==
    semItemsQueued' = semItemsQueued + (IF Len(list) = 1 THEN 1 ELSE 0)
UpItemsQueued == semItemsQueued' = semItemsQueued + 1

(* Mutant: the exit signal starts up (init_MUTEX).                         *)
InitThreadUp == oContinue' = 1 /\ semExitSignal' = 1
InitThread == oContinue' = 1 /\ semExitSignal' = 0

(* Mutants: oContinue stays set; the worker is not woken.                  *)
StopThreadContinue == oContinue' = oContinue /\ semItemsQueued' = semItemsQueued + 1
StopThreadAsleep   == oContinue' = 0 /\ semItemsQueued' = semItemsQueued
StopThread == oContinue' = 0 /\ semItemsQueued' = semItemsQueued + 1

(* Mutant: CleanMini without the kfree of the item that holds it.          *)
FreeMiniOnly(m) == liveBufs' = liveBufs \ {m.id} /\ liveItems' = liveItems
FreeItem(m) == liveBufs' = liveBufs \ {m.id} /\ liveItems' = liveItems \ {m.id}

(* Mutant: QueueUrb cleans its mini urb as ProcessUrb does.                *)
CleanQueued(m) == liveBufs' = liveBufs \ {m.id} /\ UNCHANGED liveItems
KeepQueued(m) == UNCHANGED heapVars

-----------------------------------------------------------------------------
(* Installation, at the end of hc_found_ohci.                              *)

InstallDumper ==
    /\ phase = "loading" /\ panic = "none"
    /\ phase' = "running"
    /\ uUrbNumGenerator' = 1 % NumberSpan
    /\ list' = <<>> /\ semItemsQueued' = 0 /\ semListAccess' = 1
    /\ InitThread
    /\ \/ /\ wpc' = "wait"
          /\ procfs' \in BOOLEAN              \* InstallProcFs, not checked
       \/ /\ "kernel_thread" \in StartFailures
          /\ UNCHANGED <<wpc, procfs>>
    /\ UNCHANGED <<panic, cpu, aDevSettings, wItem, procVars, heapVars, log,
                   captured>>

(* hc_found_ohci fails (hc_reset or request_irq) and calls hc_release_ohci *)
(* before the dumper was ever installed.                                   *)
HcFoundFails ==
    /\ "hc_found_ohci" \in StartFailures
    /\ phase = "loading" /\ panic = "none"
    /\ phase' = "join"
    /\ StopThread
    /\ UNCHANGED <<panic, cpu, uUrbNumGenerator, list, semListAccess,
                   semExitSignal, aDevSettings, procfs, workerVars, procVars,
                   heapVars, log, captured>>

-----------------------------------------------------------------------------
(* Capture in a process: OnSubmit, then QueueUrb or ProcessUrb.            *)

Captures(d) == d \in Table /\ aDevSettings[d].oEnabled

OnSubmit(p, d) ==
    /\ phase = "running"
    /\ captured < MaxUrbs
    /\ Captures(d)
    /\ Goto(p, "idle", IF aDevSettings[d].oAsync THEN "alloc" ELSE "load")
    /\ captured' = captured + 1
    /\ mini' = [mini EXCEPT ![p] = NewMini(captured + 1, 0, d, "NULL")]
    /\ async' = [async EXCEPT ![p] = aDevSettings[d].oAsync]
    /\ cpu' = IF aDevSettings[d].oAsync THEN Idle ELSE p
    /\ UNCHANGED <<lifeVars, panic, uUrbNumGenerator, queueVars, semExitSignal,
                   aDevSettings, workerVars, heapVars, log>>

(* kmalloc of the TWorkItem returns, with it or with NULL.                 *)
QueueAlloc(p) ==
    /\ \/ /\ Goto(p, "alloc", "load")
          /\ liveItems' = liveItems \cup {mini[p].id}
          /\ Keeps(p)
          /\ UNCHANGED <<mini, async>>
       \/ /\ Goto(p, "alloc", "idle")
          /\ mini'  = [mini EXCEPT ![p] = NoMini]
          /\ async' = [async EXCEPT ![p] = FALSE]
          /\ Yields
          /\ UNCHANGED liveItems
    /\ UNCHANGED <<lifeVars, panic, uUrbNumGenerator, queueVars, semExitSignal,
                   aDevSettings, workerVars, liveBufs, log, captured>>

(* InitMini reads uUrbNumGenerator ...                                     *)
NumberLoad(p) ==
    /\ Goto(p, "load", "store")
    /\ mini' = [mini EXCEPT ![p] = Numbered(@, uUrbNumGenerator)]
    /\ Keeps(p)
    /\ UNCHANGED <<lifeVars, panic, uUrbNumGenerator, queueVars, semExitSignal,
                   aDevSettings, workerVars, async, heapVars, log, captured>>

AfterInitMini(p) == IF async[p] THEN "down" ELSE "process"

(* ... and writes it back incremented.  An urb with data goes on to        *)
(* kmalloc, which may sleep.                                               *)
NumberStore(p) ==
    /\ \/ Goto(p, "store", "copy") /\ Yields
       \/ Goto(p, "store", AfterInitMini(p)) /\ Keeps(p)
    /\ uUrbNumGenerator' = NumberAfter(mini[p].num)
    /\ UNCHANGED <<lifeVars, panic, queueVars, semExitSignal, aDevSettings,
                   workerVars, mini, async, heapVars, log, captured>>

(* kmalloc of the transfer_buffer returns; the memcpy does not look at     *)
(* what it returned.                                                       *)
CopyTb(p) ==
    /\ \/ /\ Goto(p, "copy", AfterInitMini(p))
          /\ mini' = [mini EXCEPT ![p] = WithBuffer(@)]
          /\ liveBufs' = liveBufs \cup {mini[p].id}
          /\ Keeps(p)
          /\ UNCHANGED panic
       \/ /\ Runs(p) /\ pc[p] = "copy"
          /\ panic' = "memcpy to NULL"
          /\ UNCHANGED <<pc, mini, liveBufs, cpu>>
    /\ UNCHANGED <<lifeVars, uUrbNumGenerator, queueVars, semExitSignal,
                   aDevSettings, workerVars, async, liveItems, log, captured>>

(* down(&semListAccess) in QueueUrb: the process sleeps while it is taken. *)
ListDown(p) ==
    /\ pc[p] = "down" /\ Runs(p)
    /\ IF semListAccess > 0
       THEN /\ Goto(p, "down", "add")
            /\ semListAccess' = semListAccess - 1
            /\ Keeps(p)
       ELSE Yields /\ UNCHANGED <<pc, semListAccess>>
    /\ UNCHANGED <<lifeVars, panic, uUrbNumGenerator, list, semItemsQueued,
                   semExitSignal, aDevSettings, workerVars, mini, async,
                   heapVars, log, captured>>

(* list_add_tail and up(&semListAccess).                                   *)
ListAdd(p) ==
    /\ Goto(p, "add", "signal")
    /\ list' = QueuedTail(mini[p])
    /\ UpListAccess
    /\ Keeps(p)
    /\ UNCHANGED <<lifeVars, panic, uUrbNumGenerator, semItemsQueued,
                   semExitSignal, aDevSettings, workerVars, mini, async,
                   heapVars, log, captured>>

Forget(p) == /\ mini'  = [mini EXCEPT ![p] = NoMini]
             /\ async' = [async EXCEPT ![p] = FALSE]

(* up(&semItemsQueued); QueueUrb returns.                                  *)
Signal(p) ==
    /\ Goto(p, "signal", "idle")
    /\ UpItemsQueued
    /\ KeepQueued(mini[p])
    /\ Forget(p)
    /\ Yields
    /\ UNCHANGED <<lifeVars, panic, uUrbNumGenerator, list, semListAccess,
                   semExitSignal, aDevSettings, workerVars, log, captured>>

(* ProcessMini in ProcessUrb: is the device still enabled?  If so the      *)
(* dumper's kmalloc may sleep.                                             *)
ProcessMini(p) ==
    /\ IF aDevSettings[mini[p].devnum].oEnabled
       THEN Goto(p, "process", "dump") /\ Yields
       ELSE Goto(p, "process", "clean") /\ Keeps(p)
    /\ UNCHANGED <<lifeVars, panic, uUrbNumGenerator, queueVars, semExitSignal,
                   aDevSettings, workerVars, mini, async, heapVars, log,
                   captured>>

(* DumpUrbToPrintk: the text is printed, or there is no memory for it.     *)
DumpUrbToPrintk(p) ==
    /\ Goto(p, "dump", "clean")
    /\ log' \in {log, Append(log, Dump(mini[p]))}
    /\ Yields
    /\ UNCHANGED <<lifeVars, panic, uUrbNumGenerator, queueVars, semExitSignal,
                   aDevSettings, workerVars, mini, async, heapVars, captured>>

(* CleanMini; ProcessUrb returns.                                          *)
CleanMini(p) ==
    /\ Goto(p, "clean", "idle")
    /\ liveBufs' = liveBufs \ {mini[p].id}
    /\ Forget(p)
    /\ Yields
    /\ UNCHANGED <<lifeVars, panic, uUrbNumGenerator, queueVars, semExitSignal,
                   aDevSettings, workerVars, liveItems, log, captured>>

Proc(p) == \/ QueueAlloc(p) \/ NumberLoad(p) \/ NumberStore(p) \/ CopyTb(p)
           \/ ListDown(p) \/ ListAdd(p) \/ Signal(p)
           \/ ProcessMini(p) \/ DumpUrbToPrintk(p) \/ CleanMini(p)

-----------------------------------------------------------------------------
(* Capture in the interrupt handler: OnReturn on an in pipe, or OnSubmit   *)
(* from a completion handler that submits again.  One step: nothing comes  *)
(* between its parts, and it cannot sleep.                                 *)

Interrupt(d) == /\ phase = "running" /\ panic = "none"
                /\ captured < MaxUrbs
                /\ Captures(d)
                /\ captured' = captured + 1
                /\ uUrbNumGenerator' = NumberAfter(uUrbNumGenerator)
                /\ UNCHANGED <<lifeVars, cpu, semListAccess, semExitSignal,
                               aDevSettings, workerVars, procVars>>

InterruptMini(d, tb) == NewMini(captured + 1, uUrbNumGenerator, d, tb)

(* InitMini's kmalloc(GFP_ATOMIC) fails and its result is used.            *)
InterruptNoBuf(d) ==
    /\ Interrupt(d)
    /\ panic' = "memcpy to NULL"
    /\ liveItems' = IF aDevSettings[d].oAsync
                    THEN liveItems \cup {captured + 1} ELSE liveItems
    /\ UNCHANGED <<list, semItemsQueued, liveBufs, log>>

(* QueueUrb.  With the semaphore taken, down() calls schedule(): the       *)
(* kernel stops with "Scheduling in interrupt".                            *)
InterruptQueue(d, tb) ==
    /\ Interrupt(d)
    /\ aDevSettings[d].oAsync
    /\ liveItems' = liveItems \cup {captured + 1}
    /\ liveBufs' = IF tb = "buffer" THEN liveBufs \cup {captured + 1} ELSE liveBufs
    /\ IF semListAccess > 0
       THEN /\ list' = QueuedTail(InterruptMini(d, tb))
            /\ UpItemsQueued
            /\ UNCHANGED panic
       ELSE /\ panic' = "scheduling in interrupt"
            /\ UNCHANGED <<list, semItemsQueued>>
    /\ UNCHANGED log

(* ProcessUrb: the copy is made, dumped and freed again.                   *)
InterruptProcess(d) ==
    /\ Interrupt(d)
    /\ ~ aDevSettings[d].oAsync
    /\ log' \in {log, Append(log, Dump(InterruptMini(d, "NULL")))}
    /\ UNCHANGED <<panic, list, semItemsQueued, heapVars>>

-----------------------------------------------------------------------------
(* WorkerThreadEntry.                                                      *)

(* down(&semItemsQueued) takes a token ...                                 *)
WorkerDown ==
    /\ WGoto("wait", "check")
    /\ semItemsQueued > 0
    /\ semItemsQueued' = semItemsQueued - 1
    /\ Keeps(Worker)
    /\ UNCHANGED <<lifeVars, panic, uUrbNumGenerator, list, semListAccess,
                   semExitSignal, aDevSettings, wItem, procVars, heapVars, log,
                   captured>>

(* ... or sleeps for want of one.                                          *)
WorkerSleep ==
    /\ wpc = "wait" /\ cpu = Worker /\ panic = "none"
    /\ semItemsQueued = 0
    /\ Yields
    /\ UNCHANGED <<lifeVars, panic, uUrbNumGenerator, queueVars, semExitSignal,
                   aDevSettings, workerVars, procVars, heapVars, log, captured>>

WorkerCheck ==
    /\ WGoto("check", IF oContinue = 1 THEN "down" ELSE "exit")
    /\ Keeps(Worker)
    /\ UNCHANGED <<lifeVars, panic, uUrbNumGenerator, queueVars, semExitSignal,
                   aDevSettings, wItem, procVars, heapVars, log, captured>>

WorkerListDown ==
    /\ wpc = "down" /\ Runs(Worker)
    /\ IF semListAccess > 0
       THEN /\ WGoto("down", "locked")
            /\ semListAccess' = semListAccess - 1
            /\ Keeps(Worker)
       ELSE Yields /\ UNCHANGED <<wpc, semListAccess>>
    /\ UNCHANGED <<lifeVars, panic, uUrbNumGenerator, list, semItemsQueued,
                   semExitSignal, aDevSettings, wItem, procVars, heapVars, log,
                   captured>>

(* The first item is taken off the list; an empty list is only reported.   *)
WorkerTake ==
    /\ WGoto("locked", IF list = <<>> THEN "wait" ELSE "process")
    /\ IF list = <<>> THEN UNCHANGED <<wItem, list>>
                      ELSE wItem' = Head(list) /\ list' = Tail(list)
    /\ UpListAccess
    /\ Keeps(Worker)
    /\ UNCHANGED <<lifeVars, panic, uUrbNumGenerator, semItemsQueued,
                   semExitSignal, aDevSettings, procVars, heapVars, log,
                   captured>>

WorkerProcessMini ==
    /\ IF aDevSettings[wItem.devnum].oEnabled
       THEN WGoto("process", "dump") /\ Yields
       ELSE WGoto("process", "clean") /\ Keeps(Worker)
    /\ UNCHANGED <<lifeVars, panic, uUrbNumGenerator, queueVars, semExitSignal,
                   aDevSettings, wItem, procVars, heapVars, log, captured>>

WorkerDump ==
    /\ WGoto("dump", "clean")
    /\ log' \in {log, Append(log, Dump(wItem))}
    /\ Yields
    /\ UNCHANGED <<lifeVars, panic, uUrbNumGenerator, queueVars, semExitSignal,
                   aDevSettings, wItem, procVars, heapVars, captured>>

(* CleanMini and kfree of the item.                                        *)
WorkerClean ==
    /\ WGoto("clean", "wait")
    /\ FreeItem(wItem)
    /\ wItem' = NoMini
    /\ Keeps(Worker)
    /\ UNCHANGED <<lifeVars, panic, uUrbNumGenerator, queueVars, semExitSignal,
                   aDevSettings, procVars, log, captured>>

WorkerExit ==
    /\ WGoto("exit", "gone")
    /\ semExitSignal' = semExitSignal + 1
    /\ Yields
    /\ UNCHANGED <<lifeVars, panic, uUrbNumGenerator, queueVars, aDevSettings,
                   wItem, procVars, heapVars, log, captured>>

WorkerThread ==
    \/ WorkerDown \/ WorkerSleep \/ WorkerCheck \/ WorkerListDown \/ WorkerTake
    \/ WorkerProcessMini \/ WorkerDump \/ WorkerClean \/ WorkerExit

-----------------------------------------------------------------------------
(* Settings, written through /proc by other processes.                     *)

SetSettings(d, s) ==
    /\ procfs /\ panic = "none" /\ cpu = Idle
    /\ d \in Table
    /\ aDevSettings' = [aDevSettings EXCEPT ![d] = s]
    /\ UNCHANGED <<lifeVars, panic, cpu, uUrbNumGenerator, queueVars,
                   semExitSignal, workerVars, procVars, heapVars, log, captured>>

SetEnabled(d, b) ==
    /\ d \in Table
    /\ SetSettings(d, [oEnabled |-> b, oAsync |-> aDevSettings[d].oAsync])

Enable(d)  == SetEnabled(d, TRUE)
Disable(d) == SetEnabled(d, FALSE)
SetDeviceSettings(d) == \E s \in Settings : SetSettings(d, s)

-----------------------------------------------------------------------------
(* Removal, at the end of hc_release_ohci: the devices are disconnected    *)
(* and the interrupt is freed, so nothing is captured any more.            *)

RemoveDumper ==
    /\ phase = "running" /\ panic = "none" /\ cpu = Idle
    /\ \A p \in Procs : pc[p] = "idle"
    /\ phase' = "join"
    /\ StopThread
    /\ UNCHANGED <<panic, cpu, uUrbNumGenerator, list, semListAccess,
                   semExitSignal, aDevSettings, procfs, workerVars, procVars,
                   heapVars, log, captured>>

(* down(&semExitSignal) returns.                                           *)
RemoveJoin ==
    /\ phase = "join" /\ Runs(Rmmod)
    /\ semExitSignal > 0
    /\ semExitSignal' = semExitSignal - 1
    /\ phase' = "drain"
    /\ Keeps(Rmmod)
    /\ UNCHANGED <<panic, uUrbNumGenerator, queueVars, oContinue, aDevSettings,
                   procfs, workerVars, procVars, heapVars, log, captured>>

(* One round of the clean-up loop: the item is freed, what it owns is not. *)
RemoveDrain ==
    /\ phase = "drain" /\ Runs(Rmmod)
    /\ list # <<>>
    /\ liveItems' = liveItems \ {Head(list).id}
    /\ list' = Tail(list)
    /\ Keeps(Rmmod)
    /\ UNCHANGED <<lifeVars, panic, uUrbNumGenerator, semListAccess,
                   semItemsQueued, semExitSignal, aDevSettings, workerVars,
                   procVars, liveBufs, log, captured>>

RemoveProcFs ==
    /\ phase = "drain" /\ Runs(Rmmod)
    /\ list = <<>>
    /\ procfs' = FALSE
    /\ phase' = "removed"
    /\ Yields
    /\ UNCHANGED <<panic, uUrbNumGenerator, queueVars, semExitSignal, oContinue,
                   aDevSettings, workerVars, procVars, heapVars, log, captured>>

Remover == RemoveJoin \/ RemoveDrain \/ RemoveProcFs

-----------------------------------------------------------------------------
Next ==
    \/ InstallDumper \/ HcFoundFails
    \/ \E p \in Procs : Proc(p)
    \/ \E p \in Procs, d \in DevNums : OnSubmit(p, d)
    \/ \E d \in DevNums : \/ InterruptNoBuf(d)
                          \/ \E tb \in Pointer : InterruptQueue(d, tb)
                          \/ InterruptProcess(d)
    \/ WorkerThread
    \/ \E d \in DevNums : Enable(d) \/ Disable(d) \/ SetDeviceSettings(d)
    \/ RemoveDumper \/ Remover

Spec == Init /\ [][Next]_vars

(* The scheduler lets every process that can run run: the worker, the      *)
(* processes inside a submission and the process that removes the module   *)
(* are runnable again and again whenever another one holds the processor.  *)
Fairness == /\ SF_vars(WorkerThread)
            /\ \A p \in Procs : SF_vars(Proc(p))
            /\ SF_vars(Remover)

FairSpec == Spec /\ Fairness

-----------------------------------------------------------------------------
(* Properties.                                                             *)

(* Every variable keeps to its C type; a number fits an unsigned int.      *)
LifeType == /\ phase \in {"loading", "running", "join", "drain", "removed"}
            /\ panic \in {"none", "memcpy to NULL", "scheduling in interrupt"}
            /\ cpu \in Procs \cup {Worker, Rmmod, Idle}
            /\ oContinue \in {0, 1}
            /\ procfs \in BOOLEAN
            /\ aDevSettings \in [Table -> Settings]
SemType == semListAccess \in Nat /\ semItemsQueued \in Nat /\ semExitSignal \in Nat
NumberType == uUrbNumGenerator \in Number /\ captured \in 0 .. MaxUrbs
SeqType == list \in Seq(Mini) /\ log \in Seq(Entry)
WorkerType == /\ wpc \in {"none", "wait", "check", "down", "locked", "process",
                          "dump", "clean", "exit", "gone"}
              /\ wItem \in Mini
PcType == pc \in [Procs -> {"idle", "alloc", "load", "store", "copy", "down",
                            "add", "signal", "process", "dump", "clean"}]
LocalType == mini \in [Procs -> Mini] /\ async \in [Procs -> BOOLEAN]
HeapType == liveItems \subseteq Nat /\ liveBufs \subseteq Nat

TypeOK == /\ LifeType /\ SemType /\ NumberType /\ SeqType
          /\ WorkerType /\ PcType /\ LocalType /\ HeapType

(* QueueUrb signals after it added and the worker takes what was signalled *)
(* (core.c:198, "list empty" is an error message): whatever sleeps and     *)
(* interrupts come between, a worker that took a token finds an item.      *)
NoEmptyWake == wpc = "locked" => list # <<>>

(* Between up(&semListAccess) in QueueUrb and up(&semItemsQueued) an item  *)
(* is on the list without its token.                                       *)
Unsignalled == IF \E p \in Procs : pc[p] = "signal" THEN 1 ELSE 0
(* A token the worker took and has not turned into an item yet.            *)
TokenHeld == IF wpc \in {"check", "down", "locked"} THEN 1 ELSE 0
(* RemoveDumper's own token, until the worker saw oContinue = 0.           *)
StopToken == IF phase = "join" /\ wpc \notin {"exit", "gone"} THEN 1 ELSE 0

(* Until the removal empties the list by hand, semItemsQueued counts the   *)
(* list: no token is lost, whichever interrupt, sleep or stop intervenes,  *)
(* so no queued urb waits for ever and none is waited for in vain.         *)
TokenBalance ==
    phase \in {"running", "join"} =>
        semItemsQueued + TokenHeld + Unsignalled = Len(list) + StopToken

(* A process that holds semListAccess never sleeps with it, so no process  *)
(* ever has to wait for it: the semaphore protects against nothing but     *)
(* interrupts, which cannot wait.                                          *)
ListNeverContended ==
    /\ \A p \in Procs : pc[p] = "down" /\ cpu \in {Idle, p} => semListAccess = 1
    /\ wpc = "down" /\ cpu \in {Idle, Worker} => semListAccess = 1

(* "main thread should clean pending items" (core.c:195): RemoveDumper     *)
(* walks the list without semListAccess, so the worker must be past its    *)
(* last access, no submission under way and nothing queued afterwards.     *)
DrainIsAlone ==
    phase \in {"drain", "removed"} =>
        /\ wpc = "gone" /\ semListAccess = 1
        /\ \A p \in Procs : pc[p] = "idle"

Queued == {list[i].id : i \in DOMAIN list}
InWorker == IF wpc \in {"process", "dump", "clean"} THEN {wItem.id} ELSE {}
HasItem(p) == async[p] /\ pc[p] \in {"load", "store", "copy", "down", "add"}

(* A TWorkItem is allocated exactly while the queue, the worker or the     *)
(* process that fills it can reach it: none is leaked, and none is used    *)
(* after its kfree.  A dead kernel frees nothing.                          *)
ItemsReachable ==
    panic = "none" =>
        liveItems = Queued \cup InWorker
                    \cup {mini[p].id : p \in {q \in Procs : HasItem(q)}}

(* No transfer_buffer is used after its kfree: a mini urb that still has   *)
(* its buffer (CleanMini frees it once) has a live one.                    *)
BuffersLive ==
    /\ \A i \in DOMAIN list : list[i].tb = "buffer" => list[i].id \in liveBufs
    /\ wItem.tb = "buffer" => wItem.id \in liveBufs
    /\ \A p \in Procs : mini[p].tb = "buffer" /\ pc[p] # "signal" => mini[p].id \in liveBufs

(* What the reader of the log is promised.                                 *)
Fifo == INSTANCE DumpFifo WITH
            Urbs  <- 1 .. MaxUrbs,
            NoUrb <- 0,
            queue <- [i \in DOMAIN list |-> list[i].id],
            hand  <- IF wpc \in {"process", "dump"} THEN wItem.id ELSE 0,
            out   <- [i \in DOMAIN log |-> log[i].id]

(* The dumper is a fifo queue with a background thread (README.md: "queues *)
(* the urb data to an fifo queue"): DumpFifo's steps or stutters.          *)
ImplementsFifo == Fifo!Spec

(* A queued urb leaves the queue: the worker takes it, or the removal      *)
(* throws it away; unless the kernel dies.                                 *)
QueuedLeaves ==
    \A n \in 1 .. MaxUrbs : n \in Queued ~> n \notin Queued \/ panic # "none"

(* Once RemoveDumper has begun it ends, and rmmod with it ("De-allocate    *)
(* all resources..", portable-ohci-core.c:2016); unless the kernel dies.   *)
RemovalEnds == phase = "join" ~> phase = "removed" \/ panic # "none"

-----------------------------------------------------------------------------
(* The inductive invariant behind the safety properties above.             *)

(* A process between two sleeping points holds the processor.              *)
CpuInv ==
    /\ \A p \in Procs :
          pc[p] \in {"load", "store", "down", "add", "signal", "process"} => cpu = p
    /\ wpc \in {"check", "down", "locked", "exit"} => cpu = Worker

(* semListAccess is down exactly while somebody is at the list.            *)
AtList == wpc = "locked" \/ \E p \in Procs : pc[p] = "add"
LockInv == phase = "running" \/ wpc # "none" =>
              semListAccess = IF AtList THEN 0 ELSE 1

(* The driver's life and the threads: nothing is submitted but while it    *)
(* runs, the worker leaves its loop only when told so, and its exit signal *)
(* is given once and taken once.                                           *)
LifeInv ==
    /\ oContinue = 1 <=> phase = "running"
    /\ phase = "loading" => wpc = "none" /\ list = <<>>
    /\ \A p \in Procs : pc[p] # "idle" => phase = "running"
    /\ wpc \in {"down", "locked"} => phase = "running"
    /\ wpc \in {"exit", "gone"} => phase \notin {"loading", "running"}
    /\ phase \in {"drain", "removed"} => wpc = "gone"
    /\ semExitSignal > 0 => wpc = "gone"
    /\ phase = "loading" => semItemsQueued = 0

IInv == TypeOK /\ CpuInv /\ LockInv /\ LifeInv /\ TokenBalance

=============================================================================
