------------------------------ MODULE EdLists -------------------------------
(***************************************************************************)
(* The lists of endpoint descriptors the controller walks                  *)
(* (portable-ohci-core.c:751-1073, 1303-1368): two chains for control and  *)
(* bulk EDs, and a tree for interrupt EDs, whose root is a table of heads, *)
(* one per frame modulo their number; isochronous EDs are its tail.  An ED *)
(* of interval n is served every n frames: it is on the path of every n-th *)
(* head, and paths share their tails.                                      *)
(*                                                                         *)
(* One step is one critical section of usb_ed_lock.  The urbs, their TDs   *)
(* and the SKIP bit are UrbLife's; here they are no part of the state.  An *)
(* ED may have lost its last TD, and an urb may be unlinked, at any time;  *)
(* and as a submission may sleep at any of its allocations, for long and   *)
(* while others submit to the same ED, there may be one behind every       *)
(* allocation at any time, unless the device is being freed, which takes   *)
(* its last user.  Where two of them, or one and a request to remove the   *)
(* ED, spoil what follows, `fault' says how and the behaviour ends there.  *)
(*                                                                         *)
(* All loads are 1 (line 481).  The links and the interval of an ED that   *)
(* is in no list are not read again before ep_link sets them, and are      *)
(* cleared here.                                                           *)
(***************************************************************************)
EXTENDS Integers, FiniteSetsExt, SequencesExt

CONSTANTS
    Eds,
    type,           \* CTRL, BULK, INT or ISO, of each ED
    NULL,
    Devices,        \* of each device, the sequence of its EDs
    Bits,           \* NUM_INTS is 2 ^ Bits: 5 in the code
    Periods,        \* int_period of the urbs of interrupt EDs
    Together        \* bound: the EDs in use are within one of these sets

ASSUME EdsAssumption ==
    /\ IsFiniteSet(Eds) /\ NULL \notin Eds
    /\ type \in [Eds -> {"CTRL", "BULK", "INT", "ISO"}]
    /\ \A d \in Devices : d \in Seq(Eds)
    /\ Bits \in Nat

Branches == 2 ^ Bits

(* Where a link may start: heads in the hcca, and those in registers.      *)
Heads == 0 .. Branches - 1
controlhead == -1
bulkhead == -2
Cells == Heads \cup {controlhead, bulkhead} \cup Eds

VARIABLES
    hwNextED,       \* link in each cell
    ed_prev,
    tail,           \* ed_controltail, ed_bulktail, ed_isotail
    state,          \* ED_NEW, ED_UNLINK or ED_OPER
    del,            \* ED_DEL, ED_URB_DEL or none
    int_interval, int_branch,
    ohci_int_load,
    ed_rm_list,     \* per parity of the frame
    enabled,        \* CLE and BLE in hc_control: the lists that run
    SF,             \* the start-of-frame interrupt is enabled
    frame,          \* parity of frame_no
    fresh,          \* EDs whose removal was requested in this frame
    fault           \* "none", or what went wrong with an ED

linkVars == <<hwNextED, ed_prev, tail, int_interval, int_branch, ohci_int_load>>
vars == <<linkVars, state, del, ed_rm_list, enabled, SF, frame, fresh, fault>>

-----------------------------------------------------------------------------
(* The arithmetic of the tree.                                             *)

(* Reverses the num_bits bits of word.                                     *)
ep_rev(num_bits, word) ==
    MapThenSumSet(LAMBDA i : ((word \div 2 ^ i) % 2) * 2 ^ (num_bits - i - 1),
                  0 .. num_bits - 1)

(* The loop stops at the first i that leaves 0 or 1, at Bits at most.      *)
ep_2_n_interval(inter) ==
    2 ^ Min({ i \in 0 .. Bits : inter \div 2 ^ i <= 1 \/ i = Bits })

(* Number of heads that share an ED of an interval: a power of two,        *)
(* reversed.                                                               *)
Sharing(interval) == ep_rev(Bits + 1, interval)

(* The first of the least loaded branches.                                 *)
LeastLoaded(load) ==
    CHOOSE b \in Heads : \A i \in Heads :
        load[b] <= load[i] /\ (load[b] = load[i] => b <= i)

(* The heads of a branch: every interval-th one.                           *)
Class(branch, interval) == { h \in Heads : h % interval = branch % interval }

Load(load, branch, interval) ==
    [h \in Heads |-> load[h] + (IF h \in Class(branch, interval) THEN 1 ELSE 0)]

(* The interrupt EDs among some that are on the path of a head.            *)
OnPath(h, eds) ==
    { e \in eds : type[e] = "INT" /\ h \in Class(int_branch[e], int_interval[e]) }

(* Mutant: the load is taken from the one branch only.                     *)
UnloadOne(eds) ==
    [h \in Heads |-> ohci_int_load[h]
                     - Cardinality({ e \in OnPath(h, eds) : int_branch[e] = h })]

(* Lines 945-946, for each of the EDs that are taken out.                  *)
Unload(eds) ==
    [h \in Heads |-> ohci_int_load[h] - Cardinality(OnPath(h, eds))]

-----------------------------------------------------------------------------
(* Paths.                                                                  *)

(* The cells on the path from a cell, in order, NULL behind its end.  The  *)
(* lists have no cycle (LinksExact), so a path is not longer than this.    *)
PathLen == Cardinality(Eds) + 1
Path(next, cell) ==
    LET at[k \in 0 .. PathLen] ==
            IF k = 0 THEN cell
            ELSE LET c == at[k - 1] IN IF c = NULL THEN NULL ELSE next[c]
    IN  at
Reached(next, cell) ==
    LET at == Path(next, cell) IN { at[k] : k \in 1 .. PathLen } \ {NULL}

(* Where a walk along at stops: before the first of some EDs, or the end.  *)
StopAt(at, eds) == Min({ k \in 0 .. PathLen - 1 : at[k + 1] \in eds \cup {NULL} })

(* An ED behind a head is shared by Sharing(interval) heads, and the loop  *)
(* goes on behind them; a head by none.                                    *)
Skip(at, k, interval) == IF k = 0 THEN 1 ELSE Sharing(interval[at[k]])

-----------------------------------------------------------------------------
(* ep_link.                                                                *)

(* The links when the loop of a function over i has ended: it goes on while *)
(* i is less than count.  Every turn makes i greater, and count is one of   *)
(* the heads at most, so that there are no more turns than heads.           *)
Loop(Turn(_), count, next) ==
    LET after[n \in 0 .. Branches] ==
            IF n = 0 THEN [next |-> next, i |-> 0]
            ELSE LET l == after[n - 1] IN IF l.i < count THEN Turn(l) ELSE l
    IN  after[Branches].next

(* Lines 846-855: put ed behind all EDs of the same or a longer interval,  *)
(* on every path of its branch.                                            *)
LinkInt(next, interval, ed, branch) ==
    LET Turn(l) ==
            LET at   == Path(l.next, ep_rev(Bits, l.i) + branch)
                k    == StopAt(at, { e \in Eds : interval[e] < interval[ed] })
                ed_p == at[k]
            IN  [next |-> [l.next EXCEPT ![ed] = l.next[ed_p], ![ed_p] = ed],
                 i    |-> l.i + Skip(at, k, interval)]
    IN  Loop(Turn, Sharing(interval[ed]), next)

(* Lines 867-874: behind the last ED of every path.                        *)
LinkIso(next, interval, ed) ==
    LET Turn(l) ==
            LET at == Path(l.next, ep_rev(Bits, l.i))
                k  == StopAt(at, {})
            IN  [next |-> [l.next EXCEPT ![at[k]] = ed],
                 i    |-> l.i + Skip(at, k, interval)]
    IN  Loop(Turn, Branches, next)

HeadOf == [CTRL |-> controlhead, BULK |-> bulkhead]

LinkList(ed) ==
    LET t == type[ed]
    IN  /\ hwNextED' = [hwNextED EXCEPT
                            ![ed] = NULL,
                            ![IF tail[t] = NULL THEN HeadOf[t] ELSE tail[t]] = ed]
        /\ ed_prev' = [ed_prev EXCEPT ![ed] = tail[t]]
        /\ tail' = [tail EXCEPT ![t] = ed]
        /\ UNCHANGED <<int_interval, int_branch, ohci_int_load, fault>>

(* p is the period an ep_add_ed stored last, of this submission or of      *)
(* another (line 1034).                                                    *)
LinkPeriodic(ed, p) ==
    LET interval == ep_2_n_interval(p)
        branch   == LeastLoaded(ohci_int_load) % interval
        ivals    == [int_interval EXCEPT ![ed] = interval]
    IN  /\ int_interval' = ivals
        /\ int_branch' = [int_branch EXCEPT ![ed] = branch]
        /\ ohci_int_load' = Load(ohci_int_load, branch, interval)
        /\ hwNextED' = LinkInt([hwNextED EXCEPT ![ed] = NULL], ivals, ed, branch)
        /\ UNCHANGED <<ed_prev, tail, fault>>

(* An interrupt ED of interval 1 may stand behind ed_isotail: line 864     *)
(* overwrites the link to it.                                              *)
LinkIsoEd(ed) ==
    LET last  == tail["ISO"]
        clear == [hwNextED EXCEPT ![ed] = NULL]
    IN  /\ int_interval' = [int_interval EXCEPT ![ed] = 1]
        /\ hwNextED' = IF last = NULL THEN LinkIso(clear, int_interval', ed)
                       ELSE [clear EXCEPT ![last] = ed]
        /\ ed_prev' = [ed_prev EXCEPT ![ed] = last]
        /\ tail' = [tail EXCEPT !["ISO"] = ed]
        /\ fault' = IF last # NULL /\ hwNextED[last] # NULL THEN "dropped" ELSE fault
        /\ UNCHANGED <<int_branch, ohci_int_load>>

ep_link(ed, p) ==
    \/ type[ed] \in {"CTRL", "BULK"} /\ LinkList(ed)
    \/ type[ed] = "INT" /\ LinkPeriodic(ed, p)
    \/ type[ed] = "ISO" /\ LinkIsoEd(ed)

-----------------------------------------------------------------------------
(* ep_unlink, as a step from the lists l to new ones: sohci_free_dev       *)
(* unlinks all EDs of a device at once.                                    *)

Lists == [next |-> hwNextED, prev |-> ed_prev, tail |-> tail]

(* Lines 934-944.  On a path the walk stops at the link to ed, which is    *)
(* taken past it, or at a link to what is behind ed.  The number of heads  *)
(* skipped is that of the ED behind the cell reached, which is ed itself,  *)
(* as the path of every head that is visited leads to ed.                  *)
UnlinkInt(next, ed) ==
    LET Turn(l) ==
            LET at == Path(l.next, ep_rev(Bits, l.i) + int_branch[ed])
                k  == StopAt(at, {ed, l.next[ed]})
            IN  [next |-> IF at[k + 1] = ed
                          THEN [l.next EXCEPT ![at[k]] = l.next[ed]] ELSE l.next,
                 i    |-> l.i + (IF k = 0 THEN 1 ELSE Sharing(int_interval[ed]))]
    IN  Loop(Turn, Sharing(int_interval[ed]), next)

(* Lines 961-978, as built with CONFIG_PS2: the first link to ed on the    *)
(* path of every head.                                                     *)
UnlinkIsoHeads(next, ed) ==
    [c \in Cells |->
        IF next[c] = ed /\ \E h \in Heads : c \in Reached(next, h) \cup {h}
        THEN next[ed] ELSE next[c]]

(* Mutant: the next ED keeps its link back to ed.                          *)
PrevKept(l, ed) == l.prev

(* Lines 910-914, 923-927, 953-956.                                        *)
PrevTaken(l, ed) ==
    IF l.next[ed] = NULL THEN l.prev ELSE [l.prev EXCEPT ![l.next[ed]] = l.prev[ed]]

TailTaken(l, ed) ==
    IF l.tail[type[ed]] = ed THEN [l.tail EXCEPT ![type[ed]] = l.prev[ed]] ELSE l.tail

Unlinked(l, ed) ==
    CASE type[ed] \in {"CTRL", "BULK"} ->
           [next |-> [l.next EXCEPT ![IF l.prev[ed] = NULL THEN HeadOf[type[ed]]
                                      ELSE l.prev[ed]] = l.next[ed]],
            prev |-> PrevTaken(l, ed),
            tail |-> TailTaken(l, ed)]
      [] type[ed] = "INT" ->
           [l EXCEPT !.next = UnlinkInt(l.next, ed)]
      [] type[ed] = "ISO" ->
           [next |-> IF l.prev[ed] # NULL THEN [l.next EXCEPT ![l.prev[ed]] = l.next[ed]]
                     ELSE UnlinkIsoHeads(l.next, ed),
            prev |-> PrevTaken(l, ed),
            tail |-> TailTaken(l, ed)]

StillLinked(next, ed) ==
    \E h \in Heads \cup {controlhead, bulkhead} : ed \in Reached(next, h)

Clear(f, eds, value) == [x \in DOMAIN f |-> IF x \in eds THEN value ELSE f[x]]

SetLists(l, eds) ==
    /\ hwNextED' = Clear(l.next, eds, NULL)
    /\ ed_prev' = Clear(l.prev, eds, NULL)
    /\ tail' = l.tail
    /\ int_interval' = Clear(int_interval, eds, 0)
    /\ int_branch' = Clear(int_branch, eds, 0)
    /\ ohci_int_load' = Unload(eds)

(* Lines 934-944 may miss the link to an ED.                               *)
LinksFault(l, eds) ==
    IF \E ed \in eds : StillLinked(l.next, ed) THEN "left" ELSE "none"

UnlinkAll(l, eds) == FoldLeft(Unlinked, l, eds)

-----------------------------------------------------------------------------
(* Requests to remove.                                                     *)

(* Mutant: the request goes to the list of the frame before.               *)
OtherList == 1 - frame
RmList == frame

Stopped(eds) == enabled \ { type[e] : e \in eds }

(* ep_rm_ed, for EDs of which no removal is pending.                       *)
ep_rm_ed(eds) ==
    /\ SF' = (SF \/ eds # {})
    /\ ed_rm_list' = [ed_rm_list EXCEPT ![RmList] = @ \cup eds]
    /\ enabled' = Stopped(eds)
    /\ fresh' = fresh \cup eds

-----------------------------------------------------------------------------
Init ==
    /\ hwNextED = [c \in Cells |-> NULL]
    /\ ed_prev = [e \in Eds |-> NULL]
    /\ tail = [t \in {"CTRL", "BULK", "ISO"} |-> NULL]
    /\ state = [e \in Eds |-> "ED_NEW"]
    /\ del = [e \in Eds |-> "none"]
    /\ int_interval = [e \in Eds |-> 0]
    /\ int_branch = [e \in Eds |-> 0]
    /\ ohci_int_load = [h \in Heads |-> 0]
    /\ ed_rm_list = [f \in 0 .. 1 |-> {}]
    /\ enabled = {"CTRL", "BULK"}
    /\ SF = FALSE /\ frame = 0 /\ fresh = {}
    /\ fault = "none"

(* A submission sets up an ED that it found new, and has slept since (lines *)
(* 1018-1027).  If another one did the same and it is in use, it loses its  *)
(* TDs, its state and a pending request.                                   *)
SetUp(ed) ==
    /\ fault = "none" /\ del[ed] # "ED_DEL"
    /\ \E S \in Together : { e \in Eds : state[e] # "ED_NEW" } \cup {ed} \subseteq S
    /\ state' = [state EXCEPT ![ed] = "ED_UNLINK"]
    /\ del' = [del EXCEPT ![ed] = "none"]
    /\ fault' = IF state[ed] = "ED_OPER" \/ del[ed] # "none" THEN "set up twice" ELSE fault
    /\ UNCHANGED <<linkVars, ed_rm_list, enabled, SF, frame, fresh>>

(* It comes to link the ED (lines 536-568): an operational one stays as it *)
(* is, one that is new or being deleted refuses the urb.                   *)
Link(ed, p) ==
    /\ fault = "none" /\ state[ed] = "ED_UNLINK" /\ del[ed] = "none"
    /\ ep_link(ed, p)
    /\ state' = [state EXCEPT ![ed] = "ED_OPER"]
    /\ UNCHANGED <<del, ed_rm_list, enabled, SF, frame, fresh>>

(* A request that came since line 1011 makes it not operational: ep_link   *)
(* overwrites the request, and links an ED that is still in its chain a    *)
(* second time.                                                            *)
Relink(ed) ==
    /\ fault = "none" /\ del[ed] = "ED_URB_DEL"
    /\ fault' = "request forgotten"
    /\ state' = [state EXCEPT ![ed] = "ED_OPER"]
    /\ del' = [del EXCEPT ![ed] = "none"]
    /\ UNCHANGED <<linkVars, ed_rm_list, enabled, SF, frame, fresh>>

(* dl_done_list finds an ED without TDs: if it is operational and nothing  *)
(* else it is unlinked (lines 1419-1420).                                  *)
LastDone(ed) ==
    /\ fault = "none" /\ state[ed] = "ED_OPER" /\ del[ed] = "none"
    /\ SetLists(Unlinked(Lists, ed), {ed})
    /\ fault' = LinksFault(Unlinked(Lists, ed), {ed})
    /\ state' = [state EXCEPT ![ed] = "ED_UNLINK"]
    /\ UNCHANGED <<del, ed_rm_list, enabled, SF, frame, fresh>>

(* Mutant: an ED of which a removal is pending is put on a list again.     *)
RequestedAgain(ed) == {ed}
Requested(ed) == IF del[ed] = "none" THEN {ed} ELSE {}

(* sohci_unlink_urb, lines 618-621; ep_rm_ed returns early (line 1054).    *)
(* The ED need not be operational: the urb's TDs may be done already and   *)
(* its ED unlinked when the handler of another urb unlinks it.             *)
UnlinkUrb(ed) ==
    /\ fault = "none"
    /\ state[ed] # "ED_NEW" /\ del[ed] # "ED_DEL"
    /\ ep_rm_ed(Requested(ed))
    /\ del' = [del EXCEPT ![ed] = "ED_URB_DEL"]
    /\ UNCHANGED <<linkVars, state, frame, fault>>

(* sohci_free_dev, lines 706-715, once nobody uses the device.  A request  *)
(* to remove an ED may still wait, as a process that unlinked an urb is    *)
(* woken by any deletion: that ED is not unlinked, nor requested again.    *)
FreeDev(d) ==
    LET eds  == { e \in ToSet(d) : state[e] # "ED_NEW" }
        ops  == { e \in eds : state[e] = "ED_OPER" /\ del[e] = "none" }
        kept == { e \in eds : state[e] = "ED_OPER" } \ ops
        gone == UnlinkAll(Lists, SelectSeq(d, LAMBDA e : e \in ops))
    IN  /\ fault = "none"
        /\ eds # {} /\ \A e \in eds : del[e] # "ED_DEL"
        /\ SetLists(gone, ops)
        /\ ep_rm_ed({ e \in eds : del[e] = "none" })
        /\ state' = [e \in Eds |-> IF e \in eds THEN "ED_UNLINK" ELSE state[e]]
        /\ del' = [e \in Eds |-> IF e \in eds THEN "ED_DEL" ELSE del[e]]
        /\ fault' = IF kept # {} THEN "kept" ELSE LinksFault(gone, ops)
        /\ UNCHANGED frame

(* The controller begins the next frame.                                   *)
Frame ==
    /\ fault = "none"
    /\ frame' = 1 - frame
    /\ fresh' = {}
    /\ UNCHANGED <<linkVars, state, del, ed_rm_list, enabled, SF, fault>>

(* Mutant: the lists are restarted though the other frame's EDs wait.      *)
RestartAlways(f) == enabled \cup {"CTRL", "BULK"}
Restarted(f) ==
    IF ed_rm_list[1 - f] = {} THEN enabled \cup {"CTRL", "BULK"} ELSE enabled

StateAfter(f) ==
    [e \in Eds |-> IF e \in ed_rm_list[f] /\ del[e] = "ED_DEL" THEN "ED_NEW" ELSE state[e]]

(* An ED whose urb is unlinked stays where it is.                          *)
dl_del_list(f) ==
    LET eds == ed_rm_list[f]
    IN  /\ state' = StateAfter(f)
        /\ del' = [e \in Eds |-> IF e \in eds THEN "none" ELSE del[e]]
        /\ enabled' = Restarted(f)
        /\ ed_rm_list' = [ed_rm_list EXCEPT ![f] = {}]

(* hc_interrupt, lines 1946-1954: the requests of the frame before.        *)
StartOfFrame ==
    /\ fault = "none"
    /\ SF
    /\ IF ed_rm_list[1 - frame] # {} THEN dl_del_list(1 - frame)
       ELSE UNCHANGED <<state, del, enabled, ed_rm_list>>
    /\ SF' = (ed_rm_list[frame] # {})
    /\ UNCHANGED <<linkVars, frame, fresh, fault>>

Next ==
    \/ \E ed \in Eds : \E p \in Periods : Link(ed, p)
    \/ \E ed \in Eds : SetUp(ed) \/ Relink(ed) \/ LastDone(ed) \/ UnlinkUrb(ed)
    \/ \E d \in Devices : FreeDev(d)
    \/ Frame \/ StartOfFrame

Spec == Init /\ [][Next]_vars

-----------------------------------------------------------------------------
(* Properties.                                                             *)

Operational(t) == { e \in Eds : type[e] = t /\ state[e] = "ED_OPER" }

(* The EDs a head must lead to.                                            *)
Expected(h) ==
    IF h = controlhead THEN Operational("CTRL")
    ELSE IF h = bulkhead THEN Operational("BULK")
    ELSE Operational("ISO")
         \cup { e \in Operational("INT") : h \in Class(int_branch[e], int_interval[e]) }

(* The links from the heads lead to exactly the expected EDs, and end.     *)
Forward ==
    \A h \in Heads \cup {controlhead, bulkhead} :
        /\ Reached(hwNextED, h) = Expected(h)
        /\ Path(hwNextED, h)[PathLen] = NULL

(* The tails and the links back, by which ep_link appends and ep_unlink    *)
(* finds the link to an ED, describe the same lists.                       *)
Backward ==
    \A t \in {"CTRL", "BULK", "ISO"} :
        /\ (tail[t] = NULL) <=> (Operational(t) = {})
        /\ tail[t] \in Operational(t) \cup {NULL}
        /\ \A e \in Operational(t) :
               ed_prev[e] # NULL => /\ ed_prev[e] \in Operational(t)
                                    /\ hwNextED[ed_prev[e]] = e

(* After any mixture of ep_link and ep_unlink the controller finds exactly *)
(* the operational EDs on every path, and every path ends: an interrupt ED *)
(* every int_interval frames, the others always.  (Until a fault: ep_unlink *)
(* leaves an ED in the tree, see UnlinkedGone, ep_link drops one, or one   *)
(* is set up or linked anew or freed while it is in use.)                  *)
LinksExact == fault = "none" => Forward /\ Backward

(* ohci_int_load counts the EDs on each path, so that ep_int_ballance goes *)
(* on choosing by the real load after EDs were unlinked.                   *)
LoadExact ==
    fault = "none" =>
        \A h \in Heads :
            ohci_int_load[h] = Cardinality({ e \in Expected(h) : type[e] = "INT" })

(* While the TDs of a control or bulk ED wait for removal the controller   *)
(* does not walk that list, and it walks both again when none wait, though *)
(* dl_del_list restarts them only if the other frame's list is empty.      *)
ListsStopped ==
    /\ \A f \in 0 .. 1 : \A e \in ed_rm_list[f] : type[e] \notin enabled
    /\ (\A f \in 0 .. 1 : ed_rm_list[f] = {}) => enabled = {"CTRL", "BULK"}

(* Until a fault an ED is on one removal list while a request is pending,  *)
(* and on none otherwise: the lists are linked through the EDs (line 1064). *)
OnOneList ==
    fault = "none" =>
        /\ ed_rm_list[0] \cap ed_rm_list[1] = {}
        /\ \A e \in Eds : del[e] # "none" <=> e \in ed_rm_list[0] \cup ed_rm_list[1]

(* The controller may still use an ED until the frame of the request has   *)
(* ended: its TDs are not taken before ("real removal is done at the next  *)
(* start of frame", line 1047), until a fault.                             *)
NotInSameFrame ==
    [][fault' = "none" => \A e \in fresh : del'[e] = "none" => del[e] = "none"]_vars

(* "unlink an ed from one of the HC chains" (line 888): when ep_unlink has *)
(* been called for an ED the controller no longer reaches it.              *)
UnlinkedGone ==
    fault \in {"none", "left"} =>
        \A e \in Eds : state[e] # "ED_OPER" => ~ StillLinked(hwNextED, e)
=============================================================================
