------------------------------ MODULE UrbLife ------------------------------
(***************************************************************************)
(* The life of an urb in the OHCI driver (portable-ohci-core.c): it is     *)
(* submitted by a process or by a completion handler, its TDs are queued   *)
(* at an endpoint descriptor (ED) that is linked into the controller's     *)
(* chains, the controller retires them, the interrupt handler walks the    *)
(* done list and returns the urb, or a process, or a completion handler,   *)
(* unlinks it, which takes the ED off the controller's hands for a frame;  *)
(* and the device is freed when nothing uses it any more.                  *)
(*                                                                         *)
(* One processor, no kernel preemption: a process is interrupted between   *)
(* any two of its steps and runs no step while the handler is active       *)
(* (irq # "off"); the controller works in parallel with both.  What runs   *)
(* under spin_lock_irqsave is one step.  When the code does something      *)
(* undefined (a freed or NULL urb_priv, a pending removal forgotten, an ED *)
(* in use set up anew) `fault' says what, and the behaviour ends there.    *)
(***************************************************************************)
EXTENDS Integers, Sequences, FiniteSets, SequencesExt

CONSTANTS
    Procs,            \* processes of the device's drivers
    Eds, Urbs,        \* endpoints and urbs of one device
    NoUrb,            \* not one of them
    EdOf,             \* the ED of each urb
    Length,           \* urb_priv->length: the number of its TDs
    Requeued,         \* interrupt urbs (and rings of iso urbs)
    AsyncUnlink,      \* urbs with USB_ASYNC_UNLINK
    Features,         \* what may happen in this instance
    MaxLives          \* bound: submissions of one urb

ASSUME ConfigAssumption ==
    /\ NoUrb \notin Urbs
    /\ EdOf \in [Urbs -> Eds]
    /\ Length \in [Urbs -> Nat \ {0}]
    /\ Requeued \subseteq Urbs
    /\ AsyncUnlink \subseteq Urbs
    /\ Features \subseteq {"error", "fail", "unlink", "callback", "free", "hang"}
    /\ MaxLives \in Nat

VARIABLES
    (* The EDs: state is the set of the bits of ed->state (ED_NEW is {});  *)
    (* linked counts the chain entries that point to it; queue are the TDs *)
    (* from hwHeadP to hwTailP; hot: taken off, but the controller may     *)
    (* still be at it in this frame; ed_cnt is the device's.               *)
    state, skip, linked, queue, halted, hot, ed_cnt,
    (* The urbs: hcpriv tells whether urb_priv is there, lives counts the  *)
    (* submissions, use is the urb's part of the device's use count.       *)
    hcpriv, td_cnt, urb_del, lives, status, use,
    ed_rm_list, disabled,
    (* The controller: parity of the frame number, SF pending and enabled, *)
    (* WDH pending, retired TDs it keeps and has handed over, newest first.*)
    frame, sf, sf_on, wdh, hc_done, done_head,
    (* The interrupt handler: where it is, what it saw in intrstatus, the  *)
    (* reversed done list, the urb it completes, its wait for frames.      *)
    irq, ints, td_list, cur, spin,
    (* The processes; those asleep in op_wakeup; sohci_free_dev was called.*)
    pc, target, seen, op_wakeup, freed,
    fault

edVars   == <<state, skip, linked, queue, halted, hot, ed_cnt>>
urbVars  == <<hcpriv, td_cnt, urb_del, lives, status, use>>
hcVars   == <<frame, sf, sf_on, wdh, hc_done, done_head>>
irqVars  == <<irq, ints, td_list, cur, spin>>
procVars == <<pc, target, seen>>
vars == <<edVars, urbVars, ed_rm_list, disabled, hcVars, irqVars, procVars,
          op_wakeup, freed, fault>>

Bits == {"UNLINK", "OPER", "DEL", "URB_DEL"}
Frames == 0 .. 1
Places == {"idle", "add", "alloc", "link", "mark", "request", "async", "sleep",
           "freeing", "freewait"}
NewTd(u, i, err) == [urb |-> u, index |-> i, err |-> err]
Td == [urb : Urbs, index : Nat, err : 0 .. 1]

(* The TDs of an urb as td_submit_urb queues them.                         *)
Tds(u) == [i \in 1 .. Length[u] |-> NewTd(u, i - 1, 0)]

(* How many TDs of urb u a list holds.                                     *)
Count(s, u) == Cardinality({i \in DOMAIN s : s[i].urb = u})

(* A list without the TDs of the urbs in U: what is at the places K of s.  *)
Rank(K, k) == Cardinality({j \in K : j <= k})
Picked(s, K) == [i \in 1 .. Cardinality(K) |-> s[CHOOSE k \in K : Rank(K, k) = i]]
Without(s, U) == Picked(s, {i \in DOMAIN s : s[i].urb \notin U})

Alive == fault = "none"
Pending(e) == state[e] \cap {"DEL", "URB_DEL"} # {}   \* a delete request
NoSpin == [urb |-> NoUrb, prev |-> 0, count |-> 0, off |-> 0]
RmListed(e) == \E f \in Frames : e \in ed_rm_list[f]

Init ==
    /\ state = [e \in Eds |-> {}]
    /\ skip = [e \in Eds |-> 0]
    /\ linked = [e \in Eds |-> 0]
    /\ queue = [e \in Eds |-> <<>>]
    /\ halted = [e \in Eds |-> 0]
    /\ hot = [e \in Eds |-> 0] /\ ed_cnt = 0
    /\ hcpriv = [u \in Urbs |-> 0]
    /\ td_cnt = [u \in Urbs |-> 0]
    /\ urb_del = [u \in Urbs |-> 0]
    /\ lives = [u \in Urbs |-> 0]
    /\ status = [u \in Urbs |-> "none"]
    /\ use = [u \in Urbs |-> 0]
    /\ ed_rm_list = [f \in Frames |-> {}]
    /\ disabled = 0
    /\ frame = 0 /\ sf = 0 /\ sf_on = 0 /\ wdh = 0
    /\ hc_done = <<>> /\ done_head = <<>>
    /\ irq = "off" /\ ints = {} /\ td_list = <<>>
    /\ cur = NoUrb
    /\ spin = NoSpin
    /\ pc = [p \in Procs |-> "idle"]
    /\ target = [p \in Procs |-> NoUrb]
    /\ seen = [p \in Procs |-> 0]
    /\ op_wakeup = {} /\ freed = 0
    /\ fault = "none"

(* The code goes wrong in a way that what follows is undefined.            *)
Fails(why) ==
    /\ fault' = why
    /\ UNCHANGED <<edVars, urbVars, ed_rm_list, disabled, hcVars, irqVars,
                   procVars, op_wakeup, freed>>

-----------------------------------------------------------------------------
(* The pieces of the operations.  A definition whose comment says "Mutant" *)
(* is a plausible mistake in the one that follows it; no specification     *)
(* uses it.                                                                *)

(* Still in the controller's hands when it is taken off.                   *)
HotNow(e) == IF linked[e] > 0 /\ skip[e] = 0 THEN 1 ELSE hot[e]

EpUnlink(e) ==
    /\ linked' = [linked EXCEPT ![e] = @ - 1]
    /\ skip' = [skip EXCEPT ![e] = 1]
    /\ hot' = [hot EXCEPT ![e] = HotNow(e)]
    /\ state' = [state EXCEPT ![e] = {"UNLINK"}]

NotBusy(e) == state[e] = {"OPER"} /\ queue[e] = <<>>

(* The end of dl_done_list's loop: EDs that are not busy leave the chain.  *)
UnlinkIdle(e) ==
    /\ IF NotBusy(e) THEN EpUnlink(e) ELSE UNCHANGED <<state, skip, linked, hot>>
    /\ UNCHANGED <<queue, halted, ed_cnt>>

(* Mutant: the removal list is that of the other frame parity.             *)
RmFrameOther(f) == 1 - f
RmFrame(f) == f

(* A new entry needs the SF interrupt, of a frame that is to come.         *)
Arm(New) == IF New = {} THEN UNCHANGED <<sf, sf_on>> ELSE sf' = 0 /\ sf_on' = 1

(* ep_rm_ed on the EDs of S that have no delete request yet; the caller    *)
(* then sets the request.                                                  *)
EpRmEd(S) ==
    LET New == {e \in S : ~ Pending(e)} IN
    /\ skip' = [e \in Eds |-> IF e \in New THEN 1 ELSE skip[e]]
    /\ hot' = [e \in Eds |-> IF e \in New THEN HotNow(e) ELSE hot[e]]
    /\ ed_rm_list' = [ed_rm_list EXCEPT ![RmFrame(frame)] = @ \cup New]
    /\ Arm(New)

(* ep_add_ed.  A new ED is first written with SKIP ...                     *)
SkipNew(e) ==
    /\ skip' = [skip EXCEPT ![e] = 1]
    /\ UNCHANGED <<state, linked, queue, halted, hot, ed_cnt>>

(* ... and when there is a dummy TD it becomes head and tail; the info     *)
(* word is then written without SKIP, as it is for an ED that is not new.  *)
SetUp(e) ==
    /\ state' = [state EXCEPT ![e] = {"UNLINK"}]
    /\ halted' = [halted EXCEPT ![e] = 0]
    /\ skip' = [skip EXCEPT ![e] = 0]
    /\ ed_cnt' = ed_cnt + 1

Refresh(e) ==
    /\ skip' = [skip EXCEPT ![e] = 0]
    /\ UNCHANGED <<state, halted, ed_cnt>>

(* All of it, where it does not sleep.                                     *)
EpAddEd(e) ==
    /\ IF state[e] = {} THEN SetUp(e) ELSE Refresh(e)
    /\ UNCHANGED <<linked, queue, hot>>

(* Mutant: ep_link is called every time.                                   *)
OneMoreLink(e) == 1

(* Chain entries that submitting at ED e adds: ep_link is called unless it *)
(* is operational and nothing else.                                        *)
NewLinks(e) == IF state[e] = {"OPER"} THEN 0 ELSE 1

(* ep_link overwrites the whole state, a pending request included.         *)
EpLink(e) ==
    /\ state' = [state EXCEPT ![e] = {"OPER"}]
    /\ linked' = [linked EXCEPT ![e] = @ + NewLinks(e)]
    /\ fault' = IF "URB_DEL" \in state[e] THEN "request forgotten" ELSE fault

(* The end of sohci_submit_urb: the ED is linked, td_submit_urb queues.    *)
LinkAndQueue(u, e) ==
    /\ status' = [status EXCEPT ![u] = "pending"]
    /\ EpLink(e)
    /\ queue' = [queue EXCEPT ![e] = @ \o Tds(u)]

(* What urb_rm_priv and usb_dec_dev_use leave of urb u.                    *)
RmPriv(u) == hcpriv' = [hcpriv EXCEPT ![u] = 0]
DecUse(u) == use' = [use EXCEPT ![u] = @ - 1]

(* Mutant: the private part goes with the first TD that is serviced.       *)
FirstTd(u, n) == n >= 1
LastTd(u, n) == n = Length[u]

(* Mutant: the delete request stays.                                       *)
RequestKept(e) == state[e]
RequestDone(e) == IF "DEL" \in state[e] THEN {} ELSE state[e] \ {"URB_DEL"}

(* dl_del_list for the EDs listed in frames of parity f.                   *)
DlDelList(f) ==
    LET S == ed_rm_list[f]
        Doomed == {u \in Urbs : urb_del[u] = 1 \/ "DEL" \in state[EdOf[u]]}
        Gone(u) == IF EdOf[u] \in S /\ u \in Doomed THEN Count(queue[EdOf[u]], u)
                                                    ELSE 0
        Freed == {e \in S : "DEL" \in state[e]}
    IN /\ queue' = [e \in Eds |-> IF e \in S THEN Without(queue[e], Doomed)
                                               ELSE queue[e]]
       /\ td_cnt' = [u \in Urbs |-> td_cnt[u] + Gone(u)]
       /\ hcpriv' = [u \in Urbs |-> IF Gone(u) > 0 /\ LastTd(u, td_cnt[u] + Gone(u))
                                    THEN 0 ELSE hcpriv[u]]
       /\ use' = [u \in Urbs |-> IF u \in AsyncUnlink THEN use[u] - Gone(u)
                                                      ELSE use[u]]
       /\ status' = [u \in Urbs |-> IF u \in AsyncUnlink /\ Gone(u) > 0
                                    THEN "reset" ELSE status[u]]
       /\ op_wakeup' = IF \/ \E u \in Urbs \ AsyncUnlink : Gone(u) > 0
                          \/ Freed # {} /\ ed_cnt = Cardinality(Freed)
                       THEN {} ELSE op_wakeup
       /\ state' = [e \in Eds |-> IF e \in S THEN RequestDone(e) ELSE state[e]]
       /\ skip' = [e \in Eds |-> IF e \in S
                                 THEN IF e \in Freed THEN 1 ELSE 0 ELSE skip[e]]
       /\ ed_cnt' = ed_cnt - Cardinality(Freed)
       /\ ed_rm_list' = [ed_rm_list EXCEPT ![f] = {}]
       /\ fault' = IF \E e \in S : \E t \in ToSet(queue[e]) : hcpriv[t.urb] = 0
                   THEN "urb_priv"
                   ELSE IF \E e \in Freed : linked[e] > 0 THEN "freed ED" ELSE fault
       /\ UNCHANGED <<linked, halted, hot, urb_del, lives>>

NothingDeleted == UNCHANGED <<edVars, urbVars, ed_rm_list, op_wakeup, fault>>

-----------------------------------------------------------------------------
(* The controller.                                                         *)

(* It may work on ED e: the ED is in a chain and not skipped, or was so    *)
(* when this frame began.                                                  *)
Serves(e) ==
    /\ queue[e] # <<>> /\ halted[e] = 0
    /\ (linked[e] > 0 /\ skip[e] = 0) \/ hot[e] = 1

(* It retires the first TD, with an error it halts the ED.                 *)
HcRetire(e) ==
    /\ Alive /\ disabled = 0
    /\ Serves(e)
    /\ \E err \in IF "error" \in Features THEN 0 .. 1 ELSE {0} :
          /\ hc_done' = <<NewTd(Head(queue[e]).urb, Head(queue[e]).index, err)>>
                        \o hc_done
          /\ halted' = [halted EXCEPT ![e] = err]
    /\ queue' = [queue EXCEPT ![e] = Tail(@)]
    /\ UNCHANGED <<state, skip, linked, hot, ed_cnt, urbVars, ed_rm_list, disabled, frame,
                   sf, sf_on, wdh, done_head, irqVars, procVars, op_wakeup, freed,
                   fault>>

(* A frame begins; the done list is handed over when WDH is clear.         *)
Frame ==
    /\ Alive /\ disabled = 0
    /\ frame' = 1 - frame
    /\ sf' = 1
    /\ hot' = [e \in Eds |-> 0]
    /\ IF wdh = 0 /\ hc_done # <<>>
       THEN done_head' = hc_done /\ hc_done' = <<>> /\ wdh' = 1
       ELSE UNCHANGED <<done_head, hc_done, wdh>>
    /\ UNCHANGED <<state, skip, linked, queue, halted, ed_cnt, urbVars, ed_rm_list,
                   disabled, sf_on, irqVars, procVars, op_wakeup, freed, fault>>

-----------------------------------------------------------------------------
(* The interrupt handler, hc_interrupt.                                    *)

(* It comes when the controller asks for it, at last because of an         *)
(* unrecoverable error (UE) that stops it; dl_reverse_done_list puts the   *)
(* TDs in the order they were retired in and, for a TD with an error whose *)
(* ED is halted, skips the rest of its urb and lets the ED run again.  TDs *)
(* of the rest that dl_del_list took out before are counted a second time. *)
RestOf(t) == Length[t.urb] - t.index - 1

(* Mutant: the done list is taken as the controller left it.               *)
AsHandedOver(s) == s
InOrder(s) == Reverse(s)

IrqEnter ==
    LET due  == (IF wdh = 1 THEN {"WDH"} ELSE {})
                \cup (IF sf = 1 /\ sf_on = 1 THEN {"SF"} ELSE {})
        Bad  == {t \in ToSet(done_head) : t.err = 1 /\ halted[EdOf[t.urb]] = 1}
        Cut  == {t \in Bad : hcpriv[t.urb] = 1 /\ t.index + 1 < Length[t.urb]}
        Skipped == {t.urb : t \in Cut}
    IN /\ Alive /\ irq = "off"
       /\ \/ due # {} /\ UNCHANGED disabled
          \/ "hang" \in Features /\ disabled = 0 /\ disabled' = 1
       /\ irq' = "done"
       /\ ints' = due
       /\ td_list' = InOrder(done_head)
       /\ done_head' = <<>>
       /\ halted' = [e \in Eds |-> IF \E t \in Bad : EdOf[t.urb] = e
                                   THEN 0 ELSE halted[e]]
       /\ queue' = [e \in Eds |-> Without(queue[e], Skipped)]
       /\ td_cnt' = [u \in Urbs |-> IF u \in Skipped
                        THEN td_cnt[u] + RestOf(CHOOSE t \in Cut : t.urb = u)
                        ELSE td_cnt[u]]
       /\ fault' = IF \E t \in Cut : RestOf(t) # Count(queue[EdOf[t.urb]], t.urb)
                   THEN "td_cnt" ELSE fault
       /\ UNCHANGED <<state, skip, linked, hot, ed_cnt, hcpriv, urb_del, lives, status,
                      use, ed_rm_list, frame, sf, sf_on, wdh, hc_done, cur,
                      spin, procVars, op_wakeup, freed>>

(* One TD of the done list.                                                *)
DoneStep ==
    /\ Alive /\ irq = "done" /\ td_list # <<>>
    /\ td_list' = Tail(td_list)
    /\ UNCHANGED <<urb_del, lives, ed_rm_list, disabled, hcVars, ints, spin,
                   procVars, op_wakeup, freed, fault>>

Live(u) == urb_del[u] = 0 /\ "DEL" \notin state[EdOf[u]] /\ state[EdOf[u]] # {}
DoneUrb == Head(td_list).urb

(* Not the last of its urb.                                                *)
DoneTd ==
    /\ DoneStep
    /\ hcpriv[DoneUrb] = 1
    /\ ~ LastTd(DoneUrb, td_cnt[DoneUrb] + 1)
    /\ td_cnt' = [td_cnt EXCEPT ![DoneUrb] = @ + 1]
    /\ UnlinkIdle(EdOf[DoneUrb])
    /\ UNCHANGED <<irq, cur, hcpriv, status, use>>

(* Mutant: the private part of an urb taken back is not freed.             *)
NotFreed(u) == UNCHANGED hcpriv
FreeDeleted(u) == RmPriv(u)

(* The last one of an urb that is being taken back.                        *)
DoneDeleted ==
    /\ DoneStep
    /\ hcpriv[DoneUrb] = 1
    /\ LastTd(DoneUrb, td_cnt[DoneUrb] + 1)
    /\ ~ Live(DoneUrb)
    /\ td_cnt' = [td_cnt EXCEPT ![DoneUrb] = @ + 1]
    /\ FreeDeleted(DoneUrb)
    /\ UnlinkIdle(EdOf[DoneUrb])
    /\ UNCHANGED <<irq, cur, status, use>>

(* The last one of a live urb: sohci_return_urb up to the call of the      *)
(* completion handler.  The private part of an urb that is not requeued    *)
(* goes first.                                                             *)
DoneLast ==
    /\ DoneStep
    /\ hcpriv[DoneUrb] = 1
    /\ LastTd(DoneUrb, td_cnt[DoneUrb] + 1)
    /\ Live(DoneUrb)
    /\ td_cnt' = [td_cnt EXCEPT ![DoneUrb] = @ + 1]
    /\ status' = [status EXCEPT ![DoneUrb] = IF Head(td_list).err = 1
                                             THEN "error" ELSE "ok"]
    /\ IF DoneUrb \in Requeued THEN UNCHANGED <<hcpriv, use>>
                               ELSE RmPriv(DoneUrb) /\ DecUse(DoneUrb)
    /\ irq' = "complete" /\ cur' = DoneUrb
    /\ UNCHANGED edVars

(* A TD whose urb has no private part any more: the code writes through    *)
(* NULL.                                                                   *)
DoneOrphan ==
    /\ Alive /\ irq = "done" /\ td_list # <<>>
    /\ hcpriv[DoneUrb] = 0
    /\ Fails("orphan TD")

(* Nobody is busy with urb u.                                              *)
Unowned(u) == \A p \in Procs : target[p] # u

(* The completion handler does nothing to urbs ...                         *)
CompleteOnly ==
    /\ Alive /\ irq = "complete"
    /\ irq' = "after"
    /\ UNCHANGED <<edVars, urbVars, ed_rm_list, disabled, hcVars, ints, td_list,
                   cur, spin, procVars, op_wakeup, freed, fault>>

(* ... or submits one: sohci_submit_urb in one go, nothing can sleep here. *)
CanSubmit(u) ==
    /\ freed = 0
    /\ hcpriv[u] = 0
    /\ Unowned(u)
    /\ lives[u] < MaxLives

CompleteSubmit ==
    /\ Alive /\ irq = "complete" /\ "callback" \in Features
    /\ \E u \in Urbs :
          LET e == EdOf[u] IN
          /\ CanSubmit(u)
          /\ disabled = 0 /\ ~ Pending(e)
          /\ use' = [use EXCEPT ![u] = @ + 1]
          /\ lives' = [lives EXCEPT ![u] = @ + 1]
          /\ hcpriv' = [hcpriv EXCEPT ![u] = 1]
          /\ td_cnt' = [td_cnt EXCEPT ![u] = 0]
          /\ urb_del' = [urb_del EXCEPT ![u] = 0]
          /\ LinkAndQueue(u, e)
          /\ skip' = [skip EXCEPT ![e] = 0]
          /\ halted' = [halted EXCEPT ![e] = IF state[e] = {} THEN 0 ELSE @]
          /\ ed_cnt' = IF state[e] = {} THEN ed_cnt + 1 ELSE ed_cnt
    /\ irq' = "after"
    /\ UNCHANGED <<hot, ed_rm_list, disabled, hcVars, ints, td_list, cur, spin,
                   procVars, op_wakeup, freed>>

(* That fails at an allocation, of a new ED's dummy TD or later.           *)
CompleteSubmitFails ==
    /\ Alive /\ irq = "complete"
    /\ "callback" \in Features /\ "fail" \in Features
    /\ disabled = 0
    /\ \E u \in Urbs :
          /\ CanSubmit(u) /\ ~ Pending(EdOf[u])
          /\ \/ EpAddEd(EdOf[u])
             \/ state[EdOf[u]] = {} /\ SkipNew(EdOf[u])
    /\ irq' = "after"
    /\ UNCHANGED <<urbVars, ed_rm_list, disabled, hcVars, ints, td_list, cur, spin,
                   procVars, op_wakeup, freed, fault>>

(* ... or unlinks one, itself or another: sohci_unlink_urb in the handler. *)
CanUnlink(u) == hcpriv[u] = 1 /\ urb_del[u] = 0 /\ Unowned(u)
Active(u) == status[u] = "pending" /\ disabled = 0

(* An urb that is not active loses its private part at once.               *)
DropInactive(u) ==
    /\ RmPriv(u)
    /\ DecUse(u)
    /\ status' = [status EXCEPT ![u] = IF u \in AsyncUnlink THEN "none" ELSE "unlinked"]
    /\ UNCHANGED <<td_cnt, urb_del, lives>>

CompleteDrop ==
    /\ Alive /\ irq = "complete"
    /\ "callback" \in Features /\ "unlink" \in Features
    /\ \E u \in Urbs : CanUnlink(u) /\ ~ Active(u) /\ DropInactive(u)
    /\ irq' = "after"
    /\ UNCHANGED <<edVars, ed_rm_list, disabled, hcVars, ints, td_list, cur, spin,
                   procVars, op_wakeup, freed, fault>>

(* The request for an ED: ep_rm_ed, then ED_URB_DEL.                       *)
RequestUrbDel(e) ==
    /\ EpRmEd({e})
    /\ state' = [state EXCEPT ![e] = @ \cup {"URB_DEL"}]
    /\ UNCHANGED <<linked, queue, halted, ed_cnt>>

(* For an active one the ED is put on the removal list; unless the urb is  *)
(* unlinked asynchronously the handler then waits for two new frames, and  *)
(* takes the part of the SF interrupt itself.                              *)
CompleteUnlink ==
    /\ Alive /\ irq = "complete"
    /\ "callback" \in Features /\ "unlink" \in Features
    /\ \E u \in Urbs :
          /\ CanUnlink(u) /\ Active(u)
          /\ urb_del' = [urb_del EXCEPT ![u] = 1]
          /\ RequestUrbDel(EdOf[u])
          /\ IF u \in AsyncUnlink
             THEN irq' = "after" /\ UNCHANGED spin
             ELSE irq' = "spin" /\ spin' = [NoSpin EXCEPT !.urb = u]
    /\ UNCHANGED <<hcpriv, td_cnt, lives, status, use, disabled, frame, wdh, hc_done,
                   done_head, ints, td_list, cur, procVars, op_wakeup, freed, fault>>

(* The SF interrupt is disabled while it waits.                            *)
SpinBegin ==
    /\ Alive /\ irq = "spin" /\ spin.off = 0
    /\ sf_on' = 0
    /\ spin' = [spin EXCEPT !.off = 1, !.prev = frame]
    /\ UNCHANGED <<edVars, urbVars, ed_rm_list, disabled, frame, sf, wdh, hc_done,
                   done_head, irq, ints, td_list, cur, procVars, op_wakeup, freed,
                   fault>>

SpinFrame ==
    /\ Alive /\ irq = "spin" /\ spin.off = 1
    /\ spin.count < 2 /\ spin.prev # frame
    /\ spin' = [spin EXCEPT !.prev = frame, !.count = @ + 1]
    /\ IF ed_rm_list[1 - frame] # {} THEN DlDelList(1 - frame) ELSE NothingDeleted
    /\ UNCHANGED <<disabled, hcVars, irq, ints, td_list, cur, procVars, freed>>

SpinEnd ==
    /\ Alive /\ irq = "spin" /\ spin.off = 1
    /\ spin.count = 2
    /\ irq' = "after"
    /\ spin' = NoSpin
    /\ sf_on' = 1
    /\ status' = [status EXCEPT ![spin.urb] = "unlinked"]
    /\ DecUse(spin.urb)
    /\ UNCHANGED <<edVars, hcpriv, td_cnt, urb_del, lives, ed_rm_list, disabled, frame,
                   sf, wdh, hc_done, done_head, ints, td_list, cur, procVars,
                   op_wakeup, freed, fault>>

CountAnew(u) == td_cnt' = [td_cnt EXCEPT ![u] = 0]

(* The rest of sohci_return_urb and of the loop: an interrupt urb is       *)
(* queued again unless it is being taken back, idle EDs leave the chain.   *)
AfterComplete ==
    /\ Alive /\ irq = "after"
    /\ IF cur \in Requeued
       THEN /\ hcpriv[cur] = 1
            /\ status' = [status EXCEPT ![cur] = "pending"]
            /\ IF urb_del[cur] = 0
               THEN /\ CountAnew(cur)
                    /\ queue' = [queue EXCEPT ![EdOf[cur]] = @ \o Tds(cur)]
                    /\ UNCHANGED <<state, skip, linked, halted, hot, ed_cnt>>
               ELSE UNCHANGED td_cnt /\ UnlinkIdle(EdOf[cur])
       ELSE UNCHANGED <<status, td_cnt>> /\ UnlinkIdle(EdOf[cur])
    /\ irq' = "done" /\ cur' = NoUrb
    /\ UNCHANGED <<hcpriv, urb_del, lives, use, ed_rm_list, disabled, hcVars, ints,
                   td_list, spin, procVars, op_wakeup, freed, fault>>

(* The handler unlinked the interrupt urb it was called for: urb_priv is   *)
(* read after it was freed.                                                *)
AfterDropped ==
    /\ Alive /\ irq = "after"
    /\ cur \in Requeued /\ hcpriv[cur] = 0
    /\ Fails("requeue")

DelFrame(f) == 1 - f

(* Mutant: the SF interrupt is not enabled again.                          *)
NoRearm(f) == sf_on' = 0
Rearm(f) == sf_on' = IF ed_rm_list[1 - f] # {} THEN 1 ELSE 0

(* The end of the handler: the removal list of the other parity, SF again  *)
(* if this parity's list waits, and the acknowledgement.                   *)
IrqEnd ==
    /\ Alive /\ irq = "done" /\ td_list = <<>>
    /\ irq' = "off"
    /\ ints' = {}
    /\ wdh' = IF "WDH" \in ints THEN 0 ELSE wdh
    /\ sf' = IF "SF" \in ints THEN 0 ELSE sf
    /\ IF "SF" \in ints
       THEN /\ Rearm(DelFrame(frame))
            /\ IF ed_rm_list[DelFrame(frame)] # {} THEN DlDelList(DelFrame(frame))
                                                   ELSE NothingDeleted
       ELSE UNCHANGED sf_on /\ NothingDeleted
    /\ UNCHANGED <<disabled, frame, hc_done, done_head, td_list, cur, spin,
                   procVars, freed>>

Irq == \/ IrqEnter \/ DoneTd \/ DoneDeleted \/ DoneLast \/ DoneOrphan
       \/ CompleteOnly \/ CompleteSubmit \/ CompleteSubmitFails
       \/ CompleteDrop \/ CompleteUnlink
       \/ SpinBegin \/ SpinFrame \/ SpinEnd \/ AfterComplete \/ AfterDropped \/ IrqEnd

-----------------------------------------------------------------------------
(* The processes.                                                          *)

(* A process gives up the processor only where it may sleep: allocating    *)
(* (add, alloc, link) or waiting (sleep, freewait).                        *)
Running == {"mark", "request", "async", "freeing"}
Runs(p) == /\ Alive /\ irq = "off"
           /\ \A q \in Procs \ {p} : pc[q] \notin Running

Goto(p, from, to) == /\ Runs(p)
                     /\ pc[p] = from
                     /\ pc' = [pc EXCEPT ![p] = to]

Take(p, u) == target' = [target EXCEPT ![p] = u]
Release(p) == Take(p, NoUrb)

(* sohci_submit_urb up to the first allocation, which may sleep: that of a *)
(* new ED's dummy TD, or else of the private part.  A hung controller      *)
(* refuses the urb, with the use count counted; an ED with a delete        *)
(* request refuses it too and changes nothing.                             *)
SubmitBegin(p) ==
    /\ disabled = 0
    /\ \E u \in Urbs :
          LET e == EdOf[u] IN
          /\ CanSubmit(u)
          /\ ~ Pending(e)
          /\ lives' = [lives EXCEPT ![u] = @ + 1]
          /\ use' = [use EXCEPT ![u] = @ + 1]
          /\ Take(p, u)
          /\ \/ state[e] = {} /\ Goto(p, "idle", "add") /\ SkipNew(e)
             \/ state[e] # {} /\ Goto(p, "idle", "alloc") /\ EpAddEd(e)
    /\ UNCHANGED <<hcpriv, td_cnt, urb_del, status, ed_rm_list, disabled, hcVars,
                   irqVars, seen, op_wakeup, freed, fault>>

(* The dummy TD is there.  Who else has set the ED up in the meantime is   *)
(* not looked at: head, tail and state are written.  That only loses a     *)
(* dummy TD and counts the ED twice as long as the ED is not used.         *)
InUse(e) == linked[e] > 0 \/ queue[e] # <<>> \/ Pending(e)

SubmitSetUp(p) ==
    LET e == EdOf[target[p]] IN
    /\ Goto(p, "add", "alloc")
    /\ ~ InUse(e)
    /\ SetUp(e)
    /\ UNCHANGED <<linked, queue, hot, urbVars, ed_rm_list, disabled, hcVars, irqVars,
                   target, seen, op_wakeup, freed, fault>>

SubmitTwice(p) ==
    /\ Runs(p) /\ pc[p] = "add"
    /\ InUse(EdOf[target[p]])
    /\ Fails("set up twice")

SubmitShutdown ==
    /\ \/ \E p \in Procs : Runs(p) /\ pc[p] = "idle"
       \/ Alive /\ irq = "complete" /\ "callback" \in Features
    /\ disabled = 1
    /\ \E u \in Urbs :
          /\ CanSubmit(u)
          /\ lives' = [lives EXCEPT ![u] = @ + 1]
          /\ use' = [use EXCEPT ![u] = @ + 1]
    /\ UNCHANGED <<edVars, hcpriv, td_cnt, urb_del, status, ed_rm_list, disabled,
                   hcVars, irqVars, procVars, op_wakeup, freed, fault>>

(* The private part and its TDs are there; SideDumper_OnSubmit may sleep.  *)
SubmitAlloc(p) ==
    /\ Goto(p, "alloc", "link")
    /\ hcpriv' = [hcpriv EXCEPT ![target[p]] = 1]
    /\ td_cnt' = [td_cnt EXCEPT ![target[p]] = 0]
    /\ urb_del' = [urb_del EXCEPT ![target[p]] = 0]
    /\ UNCHANGED <<edVars, lives, status, use, ed_rm_list, disabled, hcVars, irqVars,
                   target, seen, op_wakeup, freed, fault>>

(* Mutant: the failing submission keeps its private part.                  *)
UndoUseOnly(u) == DecUse(u) /\ UNCHANGED hcpriv
UndoSubmit(u) == DecUse(u) /\ RmPriv(u)

(* An allocation fails, of the dummy TD (there is no private part yet),    *)
(* the private part, a TD, or a bounce buffer.                             *)
SubmitFails(p) ==
    /\ "fail" \in Features
    /\ Goto(p, pc[p], "idle")
    /\ pc[p] \in {"add", "alloc", "link"}
    /\ UndoSubmit(target[p])
    /\ Release(p)
    /\ UNCHANGED <<edVars, td_cnt, urb_del, lives, status, ed_rm_list, disabled,
                   hcVars, irqVars, seen, op_wakeup, freed, fault>>

(* The section under usb_ed_lock: an ED that was deleted refuses the urb.  *)
SubmitLink(p) ==
    LET u == target[p] IN
    /\ Goto(p, "link", "idle")
    /\ IF state[EdOf[u]] = {} \/ "DEL" \in state[EdOf[u]]
       THEN UndoSubmit(u) /\ UNCHANGED <<edVars, status, fault>>
       ELSE LinkAndQueue(u, EdOf[u]) /\ UNCHANGED <<skip, halted, hot, ed_cnt, hcpriv, use>>
    /\ Release(p)
    /\ UNCHANGED <<td_cnt, urb_del, lives, ed_rm_list, disabled, hcVars, irqVars,
                   seen, op_wakeup, freed>>

(* sohci_unlink_urb: is the urb active?                                    *)
UnlinkBegin(p) ==
    /\ "unlink" \in Features
    /\ Goto(p, "idle", "mark")
    /\ \E u \in Urbs :
          /\ CanUnlink(u) /\ Active(u)
          /\ Take(p, u)
          /\ seen' = [seen EXCEPT ![p] = lives[u]]
    /\ UNCHANGED <<edVars, urbVars, ed_rm_list, disabled, hcVars, irqVars,
                   op_wakeup, freed, fault>>

UnlinkDrop ==
    /\ "unlink" \in Features
    /\ \E p \in Procs : Runs(p) /\ pc[p] = "idle"
    /\ \E u \in Urbs : CanUnlink(u) /\ ~ Active(u) /\ DropInactive(u)
    /\ UNCHANGED <<edVars, ed_rm_list, disabled, hcVars, irqVars, procVars,
                   op_wakeup, freed, fault>>

(* The urb_priv the process took the address of has been freed.            *)
Stale(p) == hcpriv[target[p]] = 0 \/ lives[target[p]] # seen[p]

UnlinkStale(p) ==
    /\ Runs(p) /\ pc[p] \in {"mark", "request"}
    /\ Stale(p)
    /\ Fails("stale urb_priv")

(* urb_priv->state = URB_DEL; one who will wait enters the wait queue.     *)
UnlinkMark(p) ==
    /\ Goto(p, "mark", "request")
    /\ ~ Stale(p)
    /\ urb_del' = [urb_del EXCEPT ![target[p]] = 1]
    /\ op_wakeup' = IF target[p] \in AsyncUnlink \/ disabled = 1
                    THEN op_wakeup ELSE op_wakeup \cup {p}
    /\ UNCHANGED <<edVars, hcpriv, td_cnt, lives, status, use, ed_rm_list, disabled,
                   hcVars, irqVars, target, seen, freed, fault>>

(* The ED is put on the removal list.  With the controller hung, one that  *)
(* should wait returns at once and leaves its wait queue entry behind.     *)
UnlinkRequest(p) ==
    LET u == target[p]
        hung == disabled = 1 /\ u \notin AsyncUnlink
    IN /\ pc[p] = "request" /\ ~ Stale(p)
       /\ Goto(p, "request", IF u \in AsyncUnlink THEN "async"
                             ELSE IF hung THEN "idle" ELSE "sleep")
       /\ RequestUrbDel(EdOf[u])
       /\ IF hung THEN Release(p) ELSE UNCHANGED target
       /\ fault' = IF hung /\ p \in op_wakeup THEN "wait queue entry" ELSE fault
       /\ UNCHANGED <<urbVars, disabled, frame, wdh, hc_done, done_head, irqVars,
                      seen, op_wakeup, freed>>

(* The asynchronous one sets the status it will have until dl_del_list.    *)
UnlinkAsync(p) ==
    /\ Goto(p, "async", "idle")
    /\ status' = [status EXCEPT ![target[p]] = "pending"]
    /\ Release(p)
    /\ UNCHANGED <<edVars, hcpriv, td_cnt, urb_del, lives, use, ed_rm_list, disabled,
                   hcVars, irqVars, seen, op_wakeup, freed, fault>>

(* The sleeper is woken; or HZ / 10 pass, far longer than a removal takes  *)
(* as long as the controller runs.                                         *)
Timeout(p) == disabled = 1 \/ ~ RmListed(EdOf[target[p]])

UnlinkEnd(p) ==
    /\ Goto(p, "sleep", "idle")
    /\ p \notin op_wakeup \/ Timeout(p)
    /\ op_wakeup' = op_wakeup \ {p}
    /\ status' = [status EXCEPT ![target[p]] = "unlinked"]
    /\ DecUse(target[p])
    /\ Release(p)
    /\ UNCHANGED <<edVars, hcpriv, td_cnt, urb_del, lives, ed_rm_list, disabled,
                   hcVars, irqVars, seen, freed, fault>>

(* sohci_free_dev, which the USB core calls when the use count is zero:    *)
(* EDs that are operational and nothing else leave their chain, and all    *)
(* get a delete request.                                                   *)
Used == {e \in Eds : state[e] # {}}
Operational == {e \in Eds : state[e] = {"OPER"}}

FreeDev(p) ==
    /\ "free" \in Features
    /\ Goto(p, "idle", "freeing")
    /\ freed = 0 /\ freed' = 1
    /\ Used # {}
    /\ \A q \in Procs : pc[q] = "idle"
    /\ \A u \in Urbs : use[u] = 0
    /\ EpRmEd(Used)
    /\ state' = [e \in Eds |-> IF e \in Used THEN {"DEL"} ELSE state[e]]
    /\ linked' = [e \in Eds |-> IF e \in Operational THEN linked[e] - 1 ELSE linked[e]]
    /\ UNCHANGED <<queue, halted, ed_cnt, urbVars, disabled, frame, wdh, hc_done,
                   done_head, irqVars, target, seen, op_wakeup, fault>>

FreeWait(p) ==
    /\ Goto(p, "freeing", "freewait")
    /\ op_wakeup' = op_wakeup \cup {p}
    /\ UNCHANGED <<edVars, urbVars, ed_rm_list, disabled, hcVars, irqVars, target,
                   seen, freed, fault>>

(* Woken, or HZ / 10 later, the device's memory is freed.                  *)
FreeEnd(p) ==
    /\ Goto(p, "freewait", "idle")
    /\ p \notin op_wakeup \/ disabled = 1 \/ \A e \in Eds : ~ RmListed(e)
    /\ op_wakeup' = op_wakeup \ {p}
    /\ fault' = IF \E e \in Eds : RmListed(e) \/ linked[e] > 0
                THEN "freed ED" ELSE fault
    /\ UNCHANGED <<edVars, urbVars, ed_rm_list, disabled, hcVars, irqVars, target,
                   seen, freed>>

Proc(p) == \/ SubmitBegin(p) \/ SubmitSetUp(p) \/ SubmitTwice(p)
           \/ SubmitAlloc(p) \/ SubmitFails(p) \/ SubmitLink(p)
           \/ UnlinkBegin(p) \/ UnlinkStale(p) \/ UnlinkMark(p) \/ UnlinkRequest(p)
           \/ UnlinkAsync(p) \/ UnlinkEnd(p)
           \/ FreeDev(p) \/ FreeWait(p) \/ FreeEnd(p)

-----------------------------------------------------------------------------
Next == \/ \E e \in Eds : HcRetire(e)
        \/ Frame
        \/ Irq
        \/ SubmitShutdown \/ UnlinkDrop
        \/ \E p \in Procs : Proc(p)

(* The controller keeps counting frames, the device answers, interrupts    *)
(* are served, and a process that has begun an operation gets to run.      *)
Works(p) == \/ SubmitSetUp(p) \/ SubmitTwice(p) \/ SubmitAlloc(p) \/ SubmitLink(p)
            \/ UnlinkStale(p) \/ UnlinkMark(p) \/ UnlinkRequest(p)
            \/ UnlinkAsync(p) \/ UnlinkEnd(p)
            \/ FreeWait(p) \/ FreeEnd(p)

(* A frame parity is not for ever the one at which the handler is not there.*)
Fairness == /\ WF_vars(Frame)
            /\ WF_vars(Irq) /\ SF_vars(SpinFrame)
            /\ \A f \in Frames : /\ SF_vars(IrqEnter /\ frame = f)
                                 /\ SF_vars(IrqEnd /\ frame = f)
            /\ \A e \in Eds : WF_vars(HcRetire(e))
            /\ \A p \in Procs : SF_vars(Works(p))

Spec == Init /\ [][Next]_vars
FairSpec == Spec /\ Fairness

-----------------------------------------------------------------------------
(* Types.                                                                  *)
TypeOK ==
    /\ state \in [Eds -> SUBSET Bits]
    /\ skip \in [Eds -> 0 .. 1]
    /\ linked \in [Eds -> 0 .. 2]
    /\ queue \in [Eds -> Seq(Td)]
    /\ halted \in [Eds -> 0 .. 1] /\ hot \in [Eds -> 0 .. 1]
    /\ ed_cnt \in Nat
    /\ hcpriv \in [Urbs -> 0 .. 1]
    /\ td_cnt \in [Urbs -> Nat]
    /\ urb_del \in [Urbs -> 0 .. 1]
    /\ lives \in [Urbs -> 0 .. MaxLives]
    /\ status \in [Urbs -> {"none", "pending", "ok", "error", "unlinked", "reset"}]
    /\ use \in [Urbs -> Int]
    /\ ed_rm_list \in [Frames -> SUBSET Eds]
    /\ disabled \in 0 .. 1
    /\ frame \in Frames /\ sf \in 0 .. 1 /\ sf_on \in 0 .. 1 /\ wdh \in 0 .. 1
    /\ hc_done \in Seq(Td) /\ done_head \in Seq(Td) /\ td_list \in Seq(Td)
    /\ irq \in {"off", "done", "complete", "spin", "after"}
    /\ ints \subseteq {"WDH", "SF"}
    /\ cur \in Urbs \cup {NoUrb}
    /\ spin \in [urb : Urbs \cup {NoUrb}, prev : Frames, count : 0 .. 2, off : 0 .. 1]
    /\ pc \in [Procs -> Places]
    /\ target \in [Procs -> Urbs \cup {NoUrb}]
    /\ seen \in [Procs -> 0 .. MaxLives]
    /\ op_wakeup \subseteq Procs
    /\ freed \in 0 .. 1
    /\ fault \in {"none", "request forgotten", "urb_priv", "td_cnt", "orphan TD",
                  "requeue", "stale urb_priv", "wait queue entry", "freed ED",
                  "set up twice"}

-----------------------------------------------------------------------------
(* Safety.  Each holds until the code runs into something undefined, and   *)
(* the statements at the end are about those cases.                        *)

(* TDs of urb u that are still to be serviced: queued, kept by the         *)
(* controller, handed over, or in the handler's list.                      *)
Outstanding(u) ==
    Count(queue[EdOf[u]], u) + Count(hc_done, u) + Count(done_head, u) + Count(td_list, u)
Queued(u) == hcpriv[u] = 1 /\ ~ \E p \in Procs : pc[p] = "link" /\ target[p] = u

(* td_cnt accounts for the TDs: those serviced, skipped after an error     *)
(* (dl_reverse_done_list), or deleted (dl_del_list) and those still out    *)
(* make up urb_priv->length, so urb_rm_priv is never called with a TD out  *)
(* and is not missed; without urb_priv no TD is out.                       *)
TdsAccounted ==
    Alive /\ disabled = 0 =>
        \A u \in Urbs : Outstanding(u) = IF Queued(u) THEN Length[u] - td_cnt[u] ELSE 0

(* ep_rm_ed, dl_del_list and their callers keep ed->state and the removal  *)
(* lists together: an ED has a delete request exactly while it is on one   *)
(* list, and is skipped then.                                              *)
RemovalMarked ==
    Alive => \A e \in Eds : /\ RmListed(e) <=> Pending(e)
                            /\ RmListed(e) => skip[e] = 1
                            /\ e \notin ed_rm_list[0] \cap ed_rm_list[1]

(* No removal is stranded: outside the handler the SF interrupt is enabled *)
(* as long as a list waits (ep_rm_ed, hc_interrupt's lines 1946-1954).     *)
RemovalArmed ==
    Alive /\ irq = "off" /\ (\E e \in Eds : RmListed(e)) => sf_on = 1

(* dl_del_list is only ever called for the list !frame: the controller is  *)
(* done with the EDs it changes.                                           *)
DeletedWhenIdle ==
    Alive => \A e \in ed_rm_list[1 - frame] : ~ Serves(e)

(* An urb that is under way and not being taken back holds a use of the    *)
(* device, so sohci_free_dev cannot come.                                  *)
UseHeld ==
    Alive => \A u \in Urbs : hcpriv[u] = 1 /\ urb_del[u] = 0 => use[u] >= 1

(* An ED is in a chain, once, exactly when its state says it is            *)
(* operational (ep_link, ep_unlink), until the device is freed.            *)
LinkedIsOper ==
    Alive => \A e \in Eds : "DEL" \notin state[e] =>
        linked[e] = IF "OPER" \in state[e] THEN 1 ELSE 0

(* The inductive strengthening of the removal properties: the SF interrupt *)
(* is enabled inside the handler too, except where it waits for frames     *)
(* with SF disabled (lines 629-641); what waits for this frame's list is   *)
(* no longer read by the controller, and who unlinks has an urb.           *)
RemovalType ==
    /\ state \in [Eds -> SUBSET Bits]
    /\ skip \in [Eds -> 0 .. 1] /\ hot \in [Eds -> 0 .. 1]
    /\ linked \in [Eds -> Nat]
    /\ ed_rm_list \in [Frames -> SUBSET Eds]
    /\ frame \in Frames /\ sf_on \in 0 .. 1
    /\ pc \in [Procs -> Places] /\ target \in [Procs -> Urbs \cup {NoUrb}]

Marked ==
    \A e \in Eds : /\ RmListed(e) <=> Pending(e)
                   /\ RmListed(e) => skip[e] = 1
                   /\ e \notin ed_rm_list[0] \cap ed_rm_list[1]
Spins == irq = "spin" /\ spin.off = 1
Armed == Spins \/ \A e \in Eds : RmListed(e) => sf_on = 1
Cold == \A e \in ed_rm_list[1 - frame] : hot[e] = 0
Chained ==
    \A e \in Eds : /\ "OPER" \in state[e] => "UNLINK" \notin state[e]
                   /\ "DEL" \notin state[e] =>
                         linked[e] = IF "OPER" \in state[e] THEN 1 ELSE 0
Aimed == \A p \in Procs : pc[p] \in {"mark", "request"} => target[p] \in Urbs

RemovalInv ==
    /\ RemovalType
    /\ Alive => Marked /\ Armed /\ Cold /\ Chained /\ Aimed

(* What the drivers see, read off the TDs that are out: the line of TDs    *)
(* an endpoint's urbs are served in, the next one first, the urbs that     *)
(* have a TD in it and are not being taken back, and which of them are     *)
(* before which.                                                           *)
Line(e) == td_list \o Reverse(done_head) \o Reverse(hc_done) \o queue[e]
Has(s, u) == \E i \in DOMAIN s : s[i].urb = u
Ahead(s, v, u) == \E i, j \in DOMAIN s : i < j /\ s[i].urb = v /\ s[j].urb = u

Waiting == {u \in Urbs : hcpriv[u] = 1 /\ urb_del[u] = 0 /\ Has(Line(EdOf[u]), u)}
Before == {p \in Waiting \X Waiting :
             /\ p[1] # p[2] /\ EdOf[p[1]] = EdOf[p[2]]
             /\ Ahead(Line(EdOf[p[1]]), p[1], p[2])}

Contract == INSTANCE UrbContract WITH
    EndpointOf <- EdOf, Periodic <- Requeued,
    waiting <- Waiting, before <- Before, handler <- cur

(* The driver keeps its promise: returned once, in order, or taken back.   *)
ImplementsContract == Contract!Spec

(* A requested removal is carried out (ep_rm_ed, hc_interrupt).            *)
RemovalsDone ==
    \A e \in Eds : RmListed(e) ~> (~ RmListed(e) \/ ~ Alive \/ disabled = 1)

(* The private part of an urb that is taken back is freed, by dl_del_list  *)
(* or by dl_done_list, whoever services its last TD.                       *)
UnlinkedFreed ==
    \A u \in Urbs : (hcpriv[u] = 1 /\ urb_del[u] = 1)
                      ~> (hcpriv[u] = 0 \/ ~ Alive \/ disabled = 1)

-----------------------------------------------------------------------------
(* A statement of the source that the code does not keep.                  *)

(* "usb_dec_dev_use done in dl_del_list()" (line 652): at the latest when  *)
(* the asynchronously unlinked urb is gone its use is, and only once.      *)
AsyncUseReleased ==
    \A u \in AsyncUnlink : /\ use[u] >= 0
                            /\ lives[u] > 0 /\ hcpriv[u] = 0 /\ urb_del[u] = 1
                               /\ Unowned(u) => use[u] = 0
=============================================================================
