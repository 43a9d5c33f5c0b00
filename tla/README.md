# A verification project for the PS2 OHCI driver with side dumper

The program is a Linux 2.2 kernel module for the PlayStation 2: an OHCI USB host
controller driver (`portable-ohci-core.c`, `portable-ohci-ps2.c`) with a "side dumper"
(`side_dumper_core.c`, `side_dumper_procfs.c`) that copies the USB transfers (urbs) that
pass through it and prints them.  This directory holds TLA+ modules that model it, TLC
configurations that check them on small instances, and proofs checked by TLAPS.

    tlc -config SideDumperSafety.cfg MCSideDumper.tla
    tlc -config UrbSafety.cfg MCUrbLife.tla
    tlc -config LocalMem.cfg MCLocalMem.tla
    tlc -config EdLists.cfg MCEdLists.tla
    tlc -config TdQueue.cfg MCTdQueue.tla
    tlc -config Driver.cfg MCDriver.tla
    tlapm SideDumperProofs.tla        (also UrbLifeProofs, UrbTdProofs,
                                       UrbOrderProofs, EdListsProofs,
                                       TdQueueProofs, DriverProofs, LocalMemProofs)

The proofs take a few minutes each, `TdQueueProofs` (7370 obligations), `UrbTdProofs` (3590),
`SideDumperProofs` (2170) and `UrbOrderProofs` (1830) most of them.

## The execution model

The machine has one processor and the kernel is not preemptive.  A process inside the
kernel keeps the processor until it sleeps: `down()` on a semaphore that is zero,
`kmalloc(GFP_KERNEL)`, `copy_from_user`, `schedule()`, `ps2sif_allociopheap`.  An interrupt
may come between any two instructions at which interrupts are enabled, and its handler
runs to completion.  Spin locks are therefore nothing but (in the `irqsave` form) a way
to hold interrupts off.  The models split an operation exactly at these points: a step
that may sleep gives up `cpu`, the others keep it; interrupts are single steps that may
come between any two steps of a process, unless it disabled them.

## Inventory

| component | state | operations | hard behaviour | correct when |
|---|---|---|---|---|
| side dumper core (`side_dumper_core.c`) | `g_Inst`: number generator, fifo list with `semListAccess` and `semItemsQueued`, worker thread with `oContinue` and `semExitSignal`, settings of 16 devices | InstallDumper, RemoveDumper, OnSubmit, OnReturn, QueueUrb, ProcessUrb, WorkerThreadEntry, Enable, Disable, SetDeviceSettings | capture from processes and from the interrupt handler, removal against the worker, failed allocations, failed start-up | items and tokens balance, fifo order, each urb output at most once, nothing leaked or used after it is freed, removal ends |
| urb text dumpers (lines 292-770) | none | DumpUrb, DumpTB, DumpCD, DumpRawBuf, ... | descriptor lengths that come from the device | no read beyond the copy, the walk ends |
| /proc interface (`side_dumper_procfs.c`) | the /proc entries | InstallProcFs, RemoveProcFs, Read_*, Write_* | read-modify-write of the settings across a sleep, partly failed installation | no setting lost, every entry removed |
| local memory allocator (`portable-ohci-ps2.c`) | list of blocks in IOP memory, table of at most 16 regions | GrowLocalMem, AllocLocalMem, FreeLocalMem, CleanupLocalMem | growth sleeps with a slot in use, allocation in interrupts, failing allocations | blocks tile the regions, no overlap, no leak, the table is not overrun |
| urb life cycle (`portable-ohci-core.c:375-729`) | urb_priv, device use counts | sohci_submit_urb, sohci_return_urb, sohci_unlink_urb, sohci_free_dev | completion in the interrupt against unlink in a process; asynchronous unlink | one completion per submission, use counts balance, no TD freed while the controller has it |
| endpoint lists (`:804-1073`) | control, bulk and isochronous chains, 32-entry interrupt tree | ep_link, ep_unlink, ep_add_ed, ep_rm_ed | tree surgery | an unlinked ED is unreachable, the others stay reachable |
| TDs and done list (`:1081-1427`) | TD queues, done list | td_fill, td_submit_urb, dl_reverse_done_list, dl_del_list, dl_done_list | the controller consumes in parallel; halted endpoints | done TDs are processed once and in order |
| root hub (`:1434-1794`) | rh.urb, rh.send, timer | rh_submit_urb, rh_unlink_urb, rh_int_timer_do | timer against unlink | no report after unlink |
| controller life cycle (`:1802-2185`) | ohci structure, irq, disabled flag | hc_found_ohci, hc_start, hc_reset, hc_interrupt, hc_release_ohci, handle_pm_event | failing start, unrecoverable error | every resource released once |
| PS2 glue (`portable-ohci-ps2.c:252-390`) | bounce buffers | PrepareUrbOnSubmit, PrepareUrbOnReturn, FreeUrb | allocation failing with interrupts off | buffers released once |
| debug printing (`:145-367`) | - | - | not compiled | - |

Interaction: `sohci_submit_urb` calls `SideDumper_OnSubmit` in the submitting process (or in
the interrupt handler, when a completion handler submits again); `sohci_return_urb` calls
`SideDumper_OnReturn` in the interrupt handler; `hc_found_ohci` and `hc_release_ohci` install
and remove the dumper; the /proc entries write its settings; the PS2 glue gives the core its
memory and its bounce buffers.

## Modules

| module | models | extends, checked by | proofs |
|---|---|---|---|
| `SideDumper` | side dumper core | `MCSideDumper`; implements `DumpFifo` | `SideDumperProofs` |
| `UrbLife` | urbs of one device, their EDs and TDs, the interrupt handler | `MCUrbLife`; implements `UrbContract` | `UrbLifeProofs`, `UrbTdProofs`, `UrbOrderProofs` |
| `LocalMem` | allocator of IOP memory | `MCLocalMem` | `LocalMemProofs` |
| `EdLists` | chains and interrupt tree of EDs, removal lists | `MCEdLists` | `EdListsProofs` |
| `TdQueue` | TDs of one endpoint in memory, done list, lengths | `MCTdQueue` | `TdQueueProofs` |
| `HcLife` | life of the controller, power management, root hub | `MCHcLife` | `DriverProofs` |
| `ProcFs` | /proc entries and the writes of the settings | in `Driver` | `DriverProofs` |
| `Driver` | `HcLife` and `ProcFs` composed | `MCDriver` | `DriverProofs` |

The definitions marked "Mutant" are plausible mistakes in the definition after them; no
specification uses them.  Putting one in the place of that definition breaks the property that
`PROJECT.json` pairs it with, which is how one sees that the property depends on the code.

### SideDumper, DumpFifo, SideDumperProofs

`SideDumper` has one action per step between two points where something else can come in
between.  A submission that captures goes through `alloc` (kmalloc of the item), `load` and
`store` (the two halves of `uUrbNumGenerator++`), `copy` (kmalloc of the buffer copy),
`down`, `add`, `signal` (QueueUrb) or `process`, `dump`, `clean` (ProcessUrb).  The worker
goes through `wait`, `check`, `down`, `locked`, `process`, `dump`, `clean` and on removal
`exit` and `gone`.  The interrupt handler's captures are single steps.  `panic` records that
the kernel died (a copy to a NULL pointer, a sleep in the interrupt handler); nothing moves
after that.

Data is abstracted: an urb is a number (`id`), a mini urb keeps its id, its printed number,
its device and its buffer pointer; `liveItems` and `liveBufs` are the allocations, and `log`
is what was printed.  Not modelled: the text itself, `OutLimit` and `InLimit`, the
`pfnDumper` pointer (always `DumpUrbToPrintk`), the "called twice" branch of InstallDumper
(`hc_found_ohci` is called once per load of the module).  Assumed of the code outside: when
`hc_release_ohci` calls RemoveDumper the devices are disconnected, so no submission is under
way, and the interrupt is freed.

`DumpFifo` is what the README of the program promises: a fifo queue, a background thread,
each urb output at most once.

| run | question | bounds |
|---|---|---|
| side_dumper_safety | do tokens, items, the list and removal stay consistent; does it implement `DumpFifo`? | 2 processes, 3 captured urbs, one device in the table and one beyond it, numbers modulo 4, both start-up failures |
| side_dumper_live | do queued urbs leave and does removal end? | 1 process, 2 urbs, a worker that starts |

Two processes and three urbs let two processes be inside a submission while a third urb comes
from an interrupt; the numbers wrap within the run.  One removal occurs in each behaviour, as
in the life of the module.  Deadlock is not checked: after removal or a panic nothing moves.

Fairness is strong fairness of the worker, of each process inside a submission and of the
removing process: the scheduler runs every runnable process again and again.  Nothing is
assumed of interrupts, of new submissions or of whoever removes the module.

Proved for every number of processes, devices and urbs (`SideDumperProofs`): `TypeOK`, and from
the inductive invariant `IInv` the token balance, that the worker never finds the list empty,
that no process ever waits for `semListAccess`, and that removal drains the list alone.  `IInv`
adds to `TypeOK` who holds the processor at which step (`CpuInv`), that `semListAccess` is down
exactly while somebody is at the list (`LockInv`), how the phases of the driver and the places
of the threads go together (`LifeInv`), and the balance itself: a token is in the semaphore, in
the worker's hand, or about to be given, and matches an item, except for the one token that
tells the worker to stop.  The balance alone is not inductive: the worker's step to `locked`
needs to know that removal cannot begin in between, which is where `CpuInv` comes in.
Assumptions: the threads are distinct, the constants are natural numbers.

Also proved there: no mini urb is leaked (`ItemsReachable`), no copy of a
buffer is output or freed after it was freed (`BuffersLive`), and `SideDumper` implements
`DumpFifo`, step by step.  The inductive invariant `HeapInv` says that an urb that was captured
and not yet freed has one owner (`OneOwner`: the process that fills it, the list, the worker),
and that what an owner has yet to print is not in the log (`NotLogged`).  Neither property is
inductive by itself: a step that frees an item leaves the others live only if nobody else has the
same one.  The refinement needs both parts: an abstract `Put` or `Direct` is of an urb that is
neither waiting, nor in hand, nor output.

### UrbLife, UrbContract, UrbLifeProofs, UrbTdProofs, UrbOrderProofs

`UrbLife` is the life of the urbs of one device: `sohci_submit_urb`, `sohci_return_urb`,
`sohci_unlink_urb`, `sohci_free_dev`, the endpoint descriptors' states and removal lists
(`ep_*`), the TD queues and the done list (`td_*`, `dl_*`) and `hc_interrupt`, with the OHCI
controller and the device drivers as environment.

| in the model | in the code |
|---|---|
| `state`, `skip`, `linked`, `queue`, `halted`, `ed_cnt` | `ed->state` as a set of bits, `OHCI_ED_SKIP`, chain entries pointing to the ED, TDs from `hwHeadP` to `hwTailP`, the halt bit of `hwHeadP`, `usb_to_ohci(dev)->ed_cnt` |
| `hot` | the controller read the ED in this frame and may still work on it |
| `hcpriv`, `td_cnt`, `urb_del`, `status`, `use` | `urb->hcpriv` not NULL, `urb_priv->td_cnt`, `urb_priv->state == URB_DEL`, `urb->status`, the urb's share of `usb_inc_dev_use` / `usb_dec_dev_use` |
| `ed_rm_list`, `sf`, `sf_on`, `wdh`, `hc_done`, `done_head` | the two removal lists, SF in intrstatus and intrenable, WDH, the controller's internal done list, `hcca.done_head` |
| `irq`, `ints`, `td_list`, `cur`, `spin` | how far the handler is, its `ints`, the rest of the done list, the urb whose completion runs, the frame wait of lines 625-643 with its `count`, `frame_prev` and whether SF is disabled for it |
| `pc`, `target`, `seen`, `op_wakeup` | where a process is in submit, unlink or free_dev, its urb, and the wait queue |
| `fault` | the first undefined thing that happened |

A submission is SubmitBegin, SubmitSetUp for an ED that it found new, SubmitAlloc, SubmitLink (or
SubmitFails), split where it may sleep: at the allocations, the one of the dummy TD in `ep_add_ed`
(line 1016) included, and in `SideDumper_OnSubmit`.  `usb_ed_lock` is taken at line 1006, but it is a
plain spinlock that keeps nobody out on the one processor there is.  Unlinking is UnlinkBegin, UnlinkMark,
UnlinkRequest, and UnlinkEnd or UnlinkAsync, split wherever an interrupt makes a difference;
several of these are in `Running`, the program points a process does not leave the processor at.
The handler is IrqEnter (with `dl_reverse_done_list`), one Done step per TD, the completion
handler (which does nothing, submits, or unlinks itself or another urb), SpinBegin (line 629 disables SF) and SpinFrame and SpinEnd
when it waits for an unlink, AfterComplete, and IrqEnd with the SF part.  A TD is an urb, an index and whether it failed.

Many of the properties hold `Alive`, that is as long as nothing undefined has happened.
`fault` names what did, and the behaviour ends there:

- `stale urb_priv`: the urb completes between lines 603 and 620 of `sohci_unlink_urb`;
- `requeue`: a completion handler unlinks its own interrupt urb, line 404 reads the freed part;
- `request forgotten`: `ep_link` overwrites the state of an ED with a pending request;
- `set up twice`: of two processes that submit the first urbs of an ED, one sleeps at line 1016 while
  the other goes on to use the ED; when it wakes, lines 1018-1027 overwrite head and tail (the
  queued TDs are lost), the state (the ED is linked, or a request pending) and SKIP.  As long as the ED
  is not used yet, the second set-up only loses a dummy TD and counts the ED once more in `ed_cnt`;
- `td_cnt`: an error TD in the done list counts TDs as skipped that `dl_del_list` deleted and
  counted in an earlier interrupt, so the count goes past `length`;
- `orphan TD`, `urb_priv`: a TD of an urb without private part is met by `dl_done_list` or
  `dl_del_list`; this takes a controller that hangs (`NoTdIsLost` proves that nothing else leads
  there);
- `freed ED`: `sohci_free_dev` frees an ED that is in a chain or on a removal list (line 710 takes
  out only EDs in exactly state ED_OPER);
- `wait queue entry`: the controller hangs between lines 609 and 623.

Assumed of what is outside: nobody unlinks an urb before its submission returned, an urb has
one user at a time and is unlinked at most once in each submission, `sohci_free_dev` is called
when no use is left (the USB core's use count), completion handlers called from `dl_del_list`
and from line 659 do nothing, the done list is written back at the next frame, and HZ / 10 is
longer than a removal while the controller runs.  Left out: the root hub's urbs, iso frame
numbers, urbs without completion handler, the enabling of the control and bulk lists (lines
1065-1072, 1356-1365), and the chains themselves: `linked` counts the entries.
Between its allocations `ep_add_ed` is one step although line 1006 does not hold off interrupts: the
urbs that share its ED change the ED in the handler only by unlinking it, before or after.

`UrbContract` is what the driver promises to device drivers.  Its state is the set of the urbs that
wait, which of them was submitted before which at one endpoint, and the urb whose completion
handler runs.  A submitted urb waits until it is given to its handler, once, while no other handler
runs and nothing is before it, or until it is taken back; a periodic urb waits again when its
handler is done.  The refinement mapping reads this off the driver's data: the TDs that are out
form a `Line` for each endpoint (the handler's list, the done list handed over, the controller's own,
the queue), an urb waits that has its private part, is not marked and `Has` a TD in the line, and
it is before another when a TD of it is `Ahead` of one of the other's; `handler` is `cur`.  So an
urb submitted is the step that queues its TDs, and an urb returned the one that services its last.

| run | question | bounds |
|---|---|---|
| urb_safety | TD counts, removal lists, use count, chain entries; does it implement `UrbContract`? | 2 processes, 2 urbs of 2 and 1 TDs at one ED, 2 submissions of each |
| urb_mixed | the same with an urb that is requeued, an asynchronous unlink, a hung controller, free_dev | 1 process, 2 EDs with an urb of one TD each, 2 submissions |
| urb_live | are removals carried out and unlinked urbs freed? | 1 process and completion handlers, 2 urbs at one ED, 1 submission of each |
| urb_async | "usb_dec_dev_use done in dl_del_list()" (line 652), which the code breaks | 1 process, 2 urbs |

Two urbs at one ED are enough for one to be served, unlinked or linked while the other is in
any phase, and, with two processes, for both to be first submissions, one asleep at line 1016; two TDs are the least for which an urb is partly serviced; two submissions let an urb
meet what an earlier life of it left behind.  Frames are counted modulo 2, as the code does.

Fairness of `FairSpec`: the controller begins frames and serves an ED it is given (weak: it is
hardware, and the device answers or fails), the handler runs to its end (weak), and a process
inside an operation runs again and again between interrupts (strong: the scheduler).  Strong
fairness of IrqEnter and IrqEnd for each frame parity says that interrupts do not meet frames of
one parity only, and of SpinFrame that the busy loop of line 631 sees a frame number change.
Nothing is assumed of drivers.

Proved for every number of processes, EDs and urbs (`UrbLifeProofs`): `RemovalMarked`,
`RemovalArmed`, `DeletedWhenIdle` and `LinkedIsOper`, from the inductive invariant `RemovalInv`.
It adds to them that SF is enabled inside the handler too, but for lines 629-641, where the wait for an
unlink has it disabled (`Armed`, `Spins`), that the controller no
longer holds what it read of an ED on the list of the other frame (`Cold`: the list changes its
meaning with every frame, and nothing becomes hot while it is skipped), that an ED is not
ED_UNLINK and ED_OPER at once (`Chained`), and that a process about to put an ED on the list has
an urb (`Aimed`).  TLC checks `RemovalInv` itself in urb_mixed.  There is one lemma for each way an operation changes the EDs (a frame,
`ep_unlink`, `ep_rm_ed`, the two halves of `ep_add_ed`, `ep_link`, `dl_del_list`), which the lemmas on the controller,
the handler and the processes cite.  Assumption: `EdOf` maps urbs to EDs.

Proved in `UrbTdProofs`, also for any lengths: `TdsAccounted`, `UseHeld`, and `NoLostTd` (while the
controller has not hung, the handler meets no TD whose urb has lost its private part), from
the inductive invariant `TdInv`:

- `OneOwner`, `Owned`: an urb is in the hands of one process, or of the handler that waits for
  it, and where its owner is says what its private part holds.  Otherwise a submission could
  clear `td_cnt` while TDs of an earlier life of the urb are out.
- `Handed`, `AtHome`: the done lists change hands empty, TDs are in the queue of their endpoint.
  `dl_del_list` looks at queues only, so that a TD elsewhere would be counted by nobody.
- `Accounted`: besides the balance itself, an urb that is not queued has no TD out, and one that
  is done with has none either; this is what a second submission starts from.
- `Quiet`, `DelWhenFreed`: nothing is submitted to a device that is freed, so the TDs that
  `dl_del_list` takes out for ED_DEL belong to nobody who waits.
- `Held`: a use for everything that gives one back later.

The TDs of an urb are counted (`Count`), and a list from which TDs are taken is what is at the
places that stay (`Without`), because `SelectSeq` would need an induction over sequences.  The
counting lemmas say what appending, taking the head, joining and `Without` do to a count.
Hypothesis of the theorems: `ShortAsync`, every urb with USB_ASYNC_UNLINK has one TD, or (where
`UseHeld` is not concerned) that no device is freed.  It excludes the defect of line 1331 (run
urb_async), after which the device is freed under its urbs.  TLC checked `TdInv` on four small
instances.

Proved in `UrbOrderProofs`: `UrbLife` implements `UrbContract` (`DriverImplementsContract`), under the
same hypothesis, with hung controllers, requeued urbs and asynchronous unlinks, which urb_safety
leaves out.  The inductive invariant `OrderInv` adds to `TdInv`

- `Unmixed`: of two urbs of an endpoint, the TDs of one are all ahead of those of the other.  Only
  so does "a TD ahead" order them, and taking TDs off the head keep the order;
- `EdUsed`: an urb's ED has been made ready, or is about to be by the process that submits it (`Begun`).
  `dl_done_list` takes an urb on an ED in state ED_NEW for
  one that is taken back (`Live`), and the contract would miss its return;
- `OneCompletes`: no handler runs when the next TD is serviced.

For each step there is a lemma on the lines (`RetireLine`, `FrameLine`, `EnterLine`, `DoneLine`,
`AppendLine`, `WithoutLine`) and one on what the drivers see: nothing (`SeenNothing`), an urb that
leaves (`SeenLeave`), one that is queued (`SeenQueue`).  Two of them are less obvious than they look.
In `EnterLine`, `dl_reverse_done_list` takes TDs of a failing urb out of the queue while one of its
TDs goes to the handler's list: its place stays only because of `Unmixed`.  In `LastOrder`, the last TD
by count (`LastTd`) is the last in the line by `Accounted` alone, so that a miscounted urb would be
returned with TDs out.  TLC checked `OrderInv` on three small instances.
Only model-checked: liveness.

### LocalMem, LocalMemProofs

The controller reaches only memory of the I/O processor.  `LocalMem` is its allocator: regions that
`GrowLocalMem` gets from the IOP's heap, cut into blocks.  Addresses and sizes are counted in
granules of 256 bytes, the unit line 184 rounds to.  The two lists are sets of blocks: their order
only decides which of the blocks that fit is taken, and the model takes any.  Of
`insufficient_local_mem` only whether it is zero is kept.

A call goes through `retry` (the test of lines 189-194), `kmalloc` and `heap` (the two places
GrowLocalMem sleeps), `scan` and `cut` (the second kmalloc sleeps while the block that was cut off is
in no list).  The handler's allocation (`IrqAlloc`) and `Free` are single steps.  Loading and removal
of the module can be repeated.

- `fault`: the table of regions is overrun (line 96 tests `<` where the slot is one too far, and
  processes can sleep behind the test).  The behaviour ends there.
- `lost`: blocks whose descriptor could not be allocated (line 219).  They return with their region.
- `IndexFirst`: C leaves open whether line 110, `local_mems[nlocal_mems] = ps2sif_allociopheap(...)`,
  reads its index before or after the call that sleeps.  The run and the theorems are about the
  reading after the call.  In a build that reads it before, two growing processes write one slot and
  a region is lost; the mutant of `RegionsKnown` shows it.

| run | question | bounds |
|---|---|---|
| local_mem | do blocks overlap, leave the regions or fail to cover them; does the table know each region once? | 2 processes, 2 adjacent regions of 2 granules, table of 2, requests of 1 to 3 granules |

Adjacent regions let free blocks of different regions merge, as the code does.  A request of three
granules fits no region but fits two that merged.  Proved for any regions, sizes and processes
(`LocalMemProofs`): the types, `NoOverlap`, `WithinRegions`, `RegionsKnown`, `Tiling`, from
`LocalInv`, which adds that the table is not overrun before the fault and that a call under way finds
the allocator loaded.  The layout lemmas say what taking, cutting, merging and adding a region do to
a set of blocks.  `Tiling` follows step by step from `LocalInv` and `RegionsKnown`: the `Cover` lemmas
say that cutting and merging leave the covered cells as they are.

### EdLists, EdListsProofs

`EdLists` is the pointer structure the controller walks: the control and bulk chains (linked
forward by `hwNextED`, backward by `ed_prev`), the interrupt tree with its heads in the hcca, the
isochronous EDs behind it, the load of the branches, the two removal lists, and the bits by which
lists are stopped and started.  One step is one critical section of `usb_ed_lock`.  `ep_link` and
`ep_unlink` are translated loop for loop (`Loop` is what `i` and the links are after each turn).

A submission passes three such sections and may sleep between them, at lines 1016, 509, 526 and 534,
while others submit to the same ED or ask for its removal.  The model does not follow the single
submission: behind each allocation there may be one at any time.  So `SetUp` (lines 1018-1027) may
happen to an ED that has been in use for long, and of lines 536-568 `Link` links an ED that is ED_UNLINK
whoever set it up, while `Relink` meets a request that came since the test at line 1011.  `FreeDev`
is the loop of `sohci_free_dev` as it is: it takes an ED out of its chain only if it is ED_OPER and nothing
else.

- All loads are 1: `sohci_submit_urb` passes 1 (line 481).
- `fault` says what a critical section spoiled, and the behaviour ends there.  The properties that
  it spoils are stated until then:

  | `fault` | what happened | spoils |
  |---|---|---|
  | left | `ep_unlink` leaves an ED in the tree (lines 934-944; the run ed_unlink shows it) | the chains |
  | dropped | line 864 overwrites the link from `ed_isotail` to an interrupt ED of interval 1 | the chains |
  | set up twice | line 1020 makes an ED ED_UNLINK that is linked, or on a removal list | chains, load, lists |
  | request forgotten | line 562 links an ED again, and forgets the request to remove it, while it stays on the list | chains, load, lists, the frame of the next removal |
  | kept | line 710 leaves an ED in its chain of which an urb removal waits; line 712 then has it deleted | chains, load |

- `MCEdLists` has an assumption about the arithmetic at the width of the code: `ep_rev` is its
  own inverse for 5 bits, maps intervals to the number of heads that share them for 6, and
  `ep_2_n_interval` rounds every period of 1 to 255 down to a power of two.

| run | question | bounds |
|---|---|---|
| ed_lists | do the heads lead to exactly the operational EDs, is the load right, are removals carried out a frame later with lists stopped and restarted? | three control EDs and a bulk ED, or three interrupt EDs and an isochronous one (`Together`); 4 heads, periods 1, 2, 5; any of them may wait for removal |
| ed_unlink | does an unlinked ED leave the tree? (no) | periods 1 and 3 |

Three EDs in a chain have a first, a middle and a last; periods 1, 2 and 5 give all the intervals of
a tree with four heads.  The chains and the tree touch only in the removal lists, so they are
not exercised together.

Proved for any EDs, devices, periods and number of heads (`EdListsProofs`): `OnOneList`,
`ListsStopped`, `LoadExact` and `NotInSameFrame`, from `EdInv`.  It adds that what was requested in
this frame is on this frame's list (`Fresh`; the lists are disjoint, so the start of a frame
does not reach it), that an ED of a freed device is not operational (`FreedOut`: `dl_del_list` makes it
ED_NEW without looking), and the load by linked EDs (`LoadKept`).  `OnOneList`, `LoadExact`,
`NotInSameFrame` and `LoadKept` hold until a fault.  `LoadExact` rests on the interval and branch that `ep_unlink` reads being the
ones `ep_link` stored, and not on the links.  Assumptions: finitely many EDs, each of one of the four
types, and devices that are sequences of them.  Only model-checked: `LinksExact`, which is about what
walks along the links compute, an induction over their length.

### TdQueue, TdQueueProofs

`TdQueue` is one endpoint's TDs as they lie in memory: addresses, the chain from `hwHeadP` to `hwTailP`
with its dummy TD, the done list that the controller builds newest first and writes to the hcca,
`urb_priv->td`, the lengths.  The controller retires TDs (whole, short, stalled) between any two
steps of the driver, also while `td_submit_urb` is filling.  `dl_reverse_done_list` restarts a halted
endpoint; `DoneTd` is one TD of `dl_done_list` and fills an interrupt urb again; `dl_del_list`
takes an urb out of the chain.  The endpoint stays linked; what else can come between is in `UrbLife`.

| run | question | bounds |
|---|---|---|
| td_queue | is the chain in order and whole, is every TD owned once, is the length exact, does every urb come back? | 2 urbs, 6 TDs; a TD has 2 bytes instead of 4096; bulk urbs of 3 and 1 bytes, control urbs of 1 and 0, interrupt urbs of 1; IN |

Six TDs are what a control urb with data, one without, and the dummy need.  An OUT endpoint has
a part of the behaviours of an IN one (no short packets).  Control urbs have at most one piece
of data: beyond that lines 499 and 1171 disagree about the number of TDs (see below).
Fairness: the controller serves what it is given and writes its done list back (weak); the handler and
`td_submit_urb` come to their end (weak); the pending interrupt is taken again and again when
interrupts are enabled (strong).  `moved` and `returned` are history: what the controller
transferred, and what the last completed urb reported.

Proved for any urbs, addresses, types, lengths and size of a TD (`TdQueueProofs`): `QueueInOrder`,
`TdsOwned` and `LengthExact`, under `ShortControl`: the data of a control urb fit into one TD, which
excludes the defect at line 499.  None is inductive: the controller's and the driver's lists say
nothing of each other, and a chain is only what a walk along the links finds.  `QueueInv` says that there is a
line `w` of all the TDs that are filled and not yet returned, oldest first, and three places in it:
up to `x` they are in `td_list`, up to `y` in the done list of the hcca, up to `z` in that of the
controller, the rest in the queue.

| part of `QueueInv` | what it says of the line |
|---|---|
| `Linked` | the heads and pointers lead through the four parts, backwards in the done lists |
| `Placed`, `Tables` | a TD is in the table of its urb at its index, each address in one table once, the dummy in none |
| `Ordered` | the TDs of an urb are in order, also across the parts |
| `Served` | in the queue, with a failed TD before it, each TD is followed by the next of its urb, or a last one by a first |
| `Halts` | the endpoint is halted as long as the failed TD is in a done list; it is then the last one retired |
| `Counted` | `td_cnt` and the TDs of an urb in the line make up what is filled |

Retiring a TD, writing back, reversing and `dl_done_list` only move the places; `td_fill` makes the
line longer; the rest of a failed urb and the TDs of an unlinked one are a block that is cut out.
That they are a block is what `Served` is for, and why the step after an error, which sets `hwHeadP`
to what follows the last TD in the urb's table, skips just these.  The walk is a recursive function
over its length; `ChainIs` says once what it finds in a line, by induction from the fact that
a set of naturals has a least member.

`LengthExact` compares what the last TD of an urb tells with what was transferred by all of them, so
it needs an account of the bytes at every moment between. `LengthInv` adds it to the line: `D` are
the TDs that were retired, `Q` those in the queue, `f` the urb whose TD failed, if the endpoint is
halted.

| part of `LengthInv` | what it says |
|---|---|
| `Fresh` | a TD has the end that `td_submit_urb` wrote, and in the queue also its begin |
| `LastData` | the last TD with bytes in `D` of an urb ends where all that was transferred for the urb ends |
| `NoData` | an urb without such a TD has that number in `actual_length` already |
| `NextData`, `FillData` | its first TD in `Q`, or else the one filled next, begins just there, unless the urb is `f` |
| `Idle` | nothing has been transferred for an urb that is not out |

An error or a short packet breaks the last but one for the failed urb alone, and the skipped rest
takes its TDs out of `Q` before it could be served again: this is why the driver may compute the length
from each TD's end and let later ones overwrite it.  Only the last TD of an urb may return it:
`LastOne` finds from `Counted` that no other is out then. (A control urb's setup and status have
no bytes and `dl_transfer_length` leaves them out by index; `EntryIs` shows that it meets
no other TD so.)

### HcLife, ProcFs, Driver, DriverProofs

`HcLife` is the life of the controller: `hc_found_ohci`, `hc_start`, `hc_reset`, `handle_pm_event`,
`ohci_hcd_cleanup`, `hc_release_ohci` with every failing step, and with it the root hub: its interrupt
urb (`send`, `timer`), `rh_int_timer_do`, the change bits.  `job` and `pc` are the function that
is under way and where it sleeps; one at a time starts, resumes or releases (the module loader;
power management serialises its calls).  Beside it run the timer, the interrupt, the
hub driver, the controller.

- `root_hub` may be "freed": line 1894 frees the device but leaves `bus->root_hub`; a later disconnect
  of it is undefined and the behaviour ends there (`Sound`).
- `AsleepRemoval` says whether EDs are removed while the controller is suspended.  The passing run
  and `ResumedControllerRuns` have it FALSE; the run hc_resume shows what happens otherwise.
- `Release` hangs if the dumper was not installed: `SideDumper_RemoveDumper` waits for a worker that
  never ran (this is part of the code's behaviour in the model, and the module never becomes free).
- Assumed: the hub driver does not unlink its urb in its own completion handler.
- Of the root hub's control requests those that clear change bits are modelled.

`ProcFs` makes the entries one by one, each may fail; the writes of `/proc/side_dumper` are split where
`copy_from_user` sleeps.  `intended` and `raced` are history: the value last written, and the settings
written while somebody else held a copy of the device.  `Driver` composes the two: the entries are
installed when the dumper is, and removed with it.  A writer that sleeps across the unloading of the
module is not followed.  The files' read functions change nothing.

| run | question | bounds |
|---|---|---|
| driver | is the timer owned, is the hub polled, does a resumed controller run, is all given back, are settings kept, do files go, does the hub thread handle changes? | 1 port and the hub's own bit, 1 device, 2 writers, one setting besides `oEnabled`, any number of loads, suspends and resets |
| hc_resume | does a controller run after a resume, when EDs are removed while it sleeps? (no) | 2 ports |

Fairness: the kernel runs a timer that is due, and the hub's thread (weak).

Proved for any ports, devices, settings and writers (`DriverProofs`).  Of `HcLife`: the types, `TimerOwned`,
`PollKept`, `ResumedRuns` (from ~ AsleepRemoval), `NothingHeld`.  The inductive invariant `HcInv`
adds which functions have which steps (`Paths`), what is held at each (`Holding`), when the hub driver
can be bound (`HubInv`), that interrupts are enabled only with the handler installed and the firmware gone
(`MasterInv`), that the driver knows when the controller runs (`OperInv`), and the state between power
events (`PowerInv`).  `NothingHeld` is not inductive alone: that `hc_release_ohci` leaves interrupts off
depends on the firmware not taking the controller back, hence `MasterInv`.  It does not speak of
the entry in `ohci_hcd_list`, which a failed start leaves behind (line 2071).  Of `Driver`:
`DriverIsHcLife`, a refinement (every step of the composition is one of `HcLife` or leaves it alone, so
what is proved of `HcLife` holds of it), and `SettingsKept` from `SettingsInv`, which adds
that the copy a sleeping writer holds differs from the settings only in what is in `raced`.
`NoFileLeft` follows from `TreeInv`: what is in /proc is what the removal takes away, but for
device_settings, and a directory that is not there yet is still to be made before everything
that goes into it, so that no file is made in a directory whose creation failed.
Only model-checked: `ChangeHandled` (liveness).

## Proofs: what they assume and what they leave

The assumptions on constants are `ASSUME`s of the modules and are evaluated by TLC in every run:
threads distinct and constants natural (`SideDumper`), `EdOf` a function from urbs to EDs
(`UrbLife`), EDs finite and typed (`EdLists`), addresses finite and not NULL (`TdQueue`), regions
disjoint and of positive size (`LocalMem`), natural numbers for ports (`HcLife`) and devices
(`ProcFs`). Beyond these, the theorems of `LocalMemProofs` assume `~ IndexFirst`,
`ResumedControllerRuns` assumes `~ AsleepRemoval`, those of `UrbTdProofs` and `UrbOrderProofs`
`ShortAsync` (or that no device is freed), and those of `TdQueueProofs` `ShortControl`; all are
stated in the theorems, and each excludes a defect of the code: the first three are shown by a run
or a mutant, the last is the one at line 499.

Not proved: liveness (fairness is out of the prover's reach), and what the walks along the links of
`EdLists` compute (`LinksExact`).  Those walks could be treated as the ones of `TdQueue` are, but the
interrupt tree needs in addition the arithmetic of bit reversal and powers of two for every `Bits`.

## Known defects

The runs expected to find a violation are listed under "findings" in `PROJECT.json`: an
asynchronous unlink releases the device once per deleted TD (`portable-ohci-core.c:1331`); an
interrupt ED behind one of a longer interval stays in the tree (`:936`); an ED removed while the
controller sleeps hides a loss of power from the resume (`:1067`).

These were met while modelling and have no run of their own; most end the model or are
excluded by an assumption named above.

| where | what |
|---|---|
| `side_dumper_core.c:827` | the copies of the transfer buffers of pending items are not freed by RemoveDumper |
| `:856` | `down()` may be reached in the interrupt handler (panic "scheduling in interrupt") |
| `:816` | removal waits for the exit signal of a worker that never ran |
| `:869` | the increment of the urb number is interrupted by the handler's own: two urbs get one number |
| `:852` | the "*queue" mark is printed before the urb is on the queue |
| `:882` | kmalloc of the transfer buffer's copy is not checked |
| `side_dumper_procfs.c:412` | the directory device_settings is looked for in the wrong parent and stays |
| `portable-ohci-ps2.c:96` | the table of regions can be overrun |
| `:324` | the copy rounds the length up and reads beyond the source |
| `portable-ohci-core.c:405` | a requeued interrupt OUT urb sends the bounce buffer of the first time again |
| `:464` | the use count taken for a control urb of the root hub is not dropped (1779) |
| `:478` | a hung controller refuses an urb without giving its use back |
| `:499` | a control urb of more than 4096 bytes counts more TDs than line 1171 makes: it never completes |
| `:562` | an ED with a pending urb deletion is linked again; the request is forgotten |
| `:563` | an ED that is skipped when it is linked keeps its urb for ever |
| `:603`, `:404` | the urb's private part is used after the handler may have freed it |
| `:623` | a wait queue entry is left when the controller hangs between two tests |
| `:645` | unlink may return while TDs of the urb are out: any deletion wakes it |
| `:653` | an asynchronous unlink sets the status after the interrupt may have set it |
| `:710` | a device is freed while removals of its EDs are pending: such an ED stays in its chain and is made ED_NEW there |
| `:864` | linking an isochronous ED drops an interrupt ED of interval 1 |
| `:1016` | two first submissions of one ED: the one that slept here overwrites head, tail and state and clears SKIP of an ED that the other has put to use, though line 995 says "in all other cases the state is left unchanged" |
| `:1509` | with seven or more ports the report has bytes that were not written |
| `:1556` | a hub driver that unlinks its urb in its own handler has the timer started again |
| `:1893` | a root hub that was freed stays in `bus->root_hub` |
| `:2035` | the bus is deregistered though it was never registered, if hc_reset fails |
| `:2071` | the entry in `ohci_hcd_list` of a controller whose start failed is not removed, though the controller is freed |
| `:2151` | a resume enables the lists again while an ED waits on a removal list |

## Not modelled

- The urb text dumpers (`side_dumper_core.c:292-770`): layout of text.  The walk over a configuration
  descriptor would make a model of its own.
- Debug printing (`portable-ohci-core.c:145-367`): not compiled.
- The layout of registers, hcca and descriptors (`portable-ohci.h`): used as data.
- The read functions of `/proc`: they change nothing.
- The root hub's descriptors and the control of its ports.
- Isochronous TDs and frame numbers; urbs without a completion handler.
- The copies of the bounce buffers (`portable-ohci-ps2.c:304-390`); their allocation and release
  are in `LocalMem` and `UrbLife`.

## Plan

Done: `SideDumper`, `UrbLife`, `LocalMem`, `EdLists`, `TdQueue`, `HcLife` with the root hub, `ProcFs`,
`Driver`, and the proofs named above.  Left, in this order:
`LinksExact` for the control and bulk chains; isochronous TDs and the walk over
configuration descriptors as new models.
