------------------------------ MODULE TdQueue ------------------------------
(***************************************************************************)
(* The transfer descriptors of one endpoint as they lie in memory: the     *)
(* chain of hwNextTD pointers from hwHeadP to hwTailP that the driver      *)
(* makes longer (td_fill, portable-ohci-core.c:1081-1113) while the        *)
(* controller serves it from the front, the done list it gives back, and   *)
(* what the driver makes of it: the number of TDs of an urb, where the     *)
(* endpoint goes on after an error (dl_reverse_done_list), and how many    *)
(* bytes were transferred (dl_transfer_length).                            *)
(*                                                                         *)
(* An address is a number and 0 is NULL; so is the address of a byte in    *)
(* the bounce buffer of an urb, which begins at Base.  UrbLife has the     *)
(* chains and the states of endpoints, requests to remove urbs, and more   *)
(* of what can come between; here the endpoint stays linked.  Isochronous  *)
(* urbs are left out.                                                      *)
(***************************************************************************)
EXTENDS Integers, Sequences, FiniteSets, FiniteSetsExt, SequencesExt

CONSTANTS
    Urbs, NoUrb,
    Addresses,      \* where TDs can be
    In,             \* the direction: only then can a packet be short
    Chunk,          \* bytes in a TD of a bulk urb: 4096
    Lengths         \* transfer_buffer_length of the urbs, for each type

ASSUME TdAssumption ==
    /\ NoUrb \notin Urbs
    /\ Addresses \subseteq Nat \ {0}
    /\ Addresses # {} /\ IsFiniteSet(Addresses)
    /\ In \in BOOLEAN /\ Chunk \in Nat \ {0}
    /\ Lengths \in [{"BULK", "CONTROL", "INTERRUPT"} -> [Urbs -> Nat]]

VARIABLES
    type, len,                  \* type of the endpoint, lengths
    td, allocated,              \* the memory
    hwHeadP, hwTailP, halted,   \* the endpoint descriptor
    hc_done, done_head,         \* the controller's done list, the one in hcca
    td_list,                    \* the rest of the reversed done list
    priv, td_cnt, urb_del,      \* urb_priv->td, or empty if there is none
    cnt, filling,               \* of td_submit_urb: TDs filled, its urb
    actual_length,
    moved,                      \* history: bytes the controller transferred
    returned                    \* history: the urb just returned, and both counts

setup == <<type, len>>
memory == <<td, allocated>>
ed == <<hwHeadP, hwTailP, halted>>
lists == <<hc_done, done_head, td_list>>
urbs == <<priv, td_cnt, urb_del>>
submission == <<cnt, filling>>
results == <<actual_length, moved>>
vars == <<setup, memory, ed, lists, urbs, submission, results, returned>>

Base == 1
NoTd == [urb |-> NoUrb, index |-> 0, R |-> FALSE, CBP |-> 0, BE |-> 0,
         NextTD |-> 0, next_dl |-> 0, CC |-> "none"]
Nothing == [urb |-> NoUrb, actual |-> 0, moved |-> 0]

NextTD == [a \in Addresses |-> td[a].NextTD]
next_dl == [a \in Addresses |-> td[a].next_dl]

(* The TDs from a on, up to but not including b, or the first n of them;   *)
(* no chain is longer than there are addresses.                            *)
Chain(a, b, link) ==
    LET from[n \in 0 .. Cardinality(Addresses)] ==
            [x \in Addresses \cup {0} |->
                IF n = 0 \/ x \in {b, 0} THEN <<>>
                ELSE <<x>> \o from[n - 1][link[x]]]
    IN  from[Cardinality(Addresses)][a]

Queue == Chain(hwHeadP, hwTailP, NextTD)
HcDone == Chain(hc_done, 0, NextTD)
HccaDone == Chain(done_head, 0, NextTD)
TdList == Chain(td_list, 0, next_dl)

(* A dummy TD ends the queue of the endpoint (ep_add_ed, line 1018).       *)
Init ==
    /\ type \in DOMAIN Lengths
    /\ len = Lengths[type]
    /\ td = [a \in Addresses |-> NoTd]
    /\ hwTailP = Min(Addresses) /\ hwHeadP = hwTailP /\ halted = FALSE
    /\ allocated = {hwTailP}
    /\ hc_done = 0 /\ done_head = 0 /\ td_list = 0
    /\ priv = [u \in Urbs |-> <<>>] /\ td_cnt = [u \in Urbs |-> 0]
    /\ urb_del = [u \in Urbs |-> FALSE]
    /\ cnt = 0 /\ filling = NoUrb
    /\ actual_length = [u \in Urbs |-> 0] /\ moved = [u \in Urbs |-> 0]
    /\ returned = Nothing

-----------------------------------------------------------------------------
(* Submission.                                                             *)

(* The number of TDs, lines 487-509.                                       *)
Pieces(n) == IF n = 0 THEN 0 ELSE (n - 1) \div Chunk + 1
Size(u) ==
    CASE type = "BULK"      -> IF len[u] = 0 THEN 1 ELSE Pieces(len[u])
      [] type = "CONTROL"   -> Pieces(len[u]) + 2
      [] type = "INTERRUPT" -> 1

(* What td_submit_urb puts into its TDs: where the bytes begin and end in  *)
(* the buffer, 0 for none, and whether a short packet is no error.         *)
NoBytes == [CBP |-> 0, BE |-> 0, R |-> FALSE]
Bytes(first, n, short) ==
    IF n = 0 THEN [NoBytes EXCEPT !.R = short]
    ELSE [CBP |-> Base + first, BE |-> Base + first + n - 1, R |-> short]

BulkTds(u) == IF len[u] = 0 THEN 1 ELSE Pieces(len[u])

Contents(u) ==
    CASE type = "BULK" ->
            [i \in 1 .. BulkTds(u) |->
                IF i < BulkTds(u) THEN Bytes((i - 1) * Chunk, Chunk, FALSE)
                ELSE Bytes((i - 1) * Chunk, len[u] - (i - 1) * Chunk, In)]
      [] type = "CONTROL" ->
            LET n == IF len[u] > 0 THEN 3 ELSE 2 IN
            [i \in 1 .. n |->
                IF i \in {1, n} THEN NoBytes ELSE Bytes(0, len[u], TRUE)]
      [] type = "INTERRUPT" -> [i \in 1 .. 1 |-> Bytes(0, len[u], In)]

(* n TDs that are free, in the order of a table.                           *)
New(n) == CHOOSE s \in [1 .. n -> Addresses \ allocated] : IsInjective(s)

(* Lines 512-534 and 541-564; any allocation may fail, urb_rm_priv gives   *)
(* back what there is, nothing has changed then.                           *)
Submit(u) ==
    /\ filling = NoUrb /\ td_list = 0 /\ priv[u] = <<>>
    /\ Cardinality(Addresses \ allocated) >= Size(u)
    /\ LET new == New(Size(u)) IN
       /\ priv' = [priv EXCEPT ![u] = new]
       /\ allocated' = allocated \cup Range(new)
    /\ filling' = u /\ cnt' = 0
    /\ returned' = Nothing
    /\ UNCHANGED <<setup, td, ed, lists, td_cnt, urb_del, results>>

(* Mutant: td[index] keeps the new TD.                                     *)
NotRotated(u, a) == priv
Rotated(u, a) == [priv EXCEPT ![u][cnt + 1] = a]

(* td_fill: the dummy TD is filled and the TD allocated for the urb becomes*)
(* the dummy; only when all is written is hwTailP moved on, then the       *)
(* controller may serve it while the next is filled.                       *)
td_fill ==
    /\ filling # NoUrb
    /\ cnt < Len(Contents(filling))
    /\ LET u == filling
           c == Contents(u)[cnt + 1]
           dummy == priv[u][cnt + 1]
       IN
       /\ td' = [td EXCEPT
            ![hwTailP] = [urb |-> u, index |-> cnt, R |-> c.R, CBP |-> c.CBP,
                          BE |-> c.BE, NextTD |-> dummy, next_dl |-> 0,
                          CC |-> "none"],
            ![dummy].NextTD = 0]
       /\ priv' = Rotated(u, hwTailP)
       /\ hwTailP' = dummy
    /\ cnt' = cnt + 1
    /\ returned' = Nothing
    /\ UNCHANGED <<setup, allocated, hwHeadP, halted, lists, td_cnt, urb_del,
                   filling, results>>

td_submit_urb_end ==
    /\ filling # NoUrb /\ cnt = Len(Contents(filling))
    /\ filling' = NoUrb /\ cnt' = 0
    /\ returned' = Nothing
    /\ UNCHANGED <<setup, memory, ed, lists, urbs, results>>

-----------------------------------------------------------------------------
(* The controller.                                                         *)

(* It ends the first TD after n bytes: all of them; fewer because the      *)
(* device sent a short packet, which is an error unless the TD allows it;  *)
(* or fewer because the device stalled.  An error halts the endpoint.      *)
Retire(n, stalled) ==
    LET a == hwHeadP
        size == IF td[a].BE = 0 THEN 0 ELSE td[a].BE - td[a].CBP + 1
        cc == IF stalled THEN "STALL"
              ELSE IF n < size /\ ~ td[a].R THEN "UNDERRUN" ELSE "NOERROR"
    IN
    /\ hwHeadP # hwTailP /\ ~ halted
    /\ n \in 0 .. size
    /\ stalled => n < size \/ size = 0
    /\ n < size => In \/ stalled
    /\ td' = [td EXCEPT ![a].CBP = IF n = size THEN 0 ELSE @ + n,
                        ![a].CC = cc, ![a].NextTD = hc_done]
    /\ hc_done' = a
    /\ hwHeadP' = td[a].NextTD
    /\ halted' = (cc # "NOERROR")
    /\ moved' = [moved EXCEPT ![td[a].urb] = @ + n]
    /\ returned' = Nothing
    /\ UNCHANGED <<setup, allocated, hwTailP, done_head, td_list, urbs,
                   submission, actual_length>>

(* At a frame it writes its done list to the hcca if that was taken.       *)
WriteBack ==
    /\ hc_done # 0 /\ done_head = 0
    /\ done_head' = hc_done /\ hc_done' = 0
    /\ returned' = Nothing
    /\ UNCHANGED <<setup, memory, ed, td_list, urbs, submission, results>>

Controller ==
    \/ \E n \in 0 .. Max(Range(len)), s \in BOOLEAN : Retire(n, s)
    \/ WriteBack

-----------------------------------------------------------------------------
(* The interrupt handler.                                                  *)

(* Mutant: it goes on with the TD after the failed one.                    *)
NextOfFailed(u, a) == hwHeadP
AfterUrb(u, a) == td[Last(priv[u])].NextTD

(* Mutant: the halt bit is cleared only when TDs are skipped.              *)
ClearedIfSkipped(rest) == rest > 0
Cleared(rest) == TRUE

(* The place of an address in a chain.                                     *)
Place(s, a) == CHOOSE i \in DOMAIN s : s[i] = a

(* Every TD of a chain leads back to the one before it.                    *)
Reversed(s) ==
    [a \in Addresses |->
        IF a \in Range(s)
        THEN [td[a] EXCEPT !.next_dl = IF a = s[1] THEN 0 ELSE s[Place(s, a) - 1]]
        ELSE td[a]]

(* dl_reverse_done_list: the list is reversed; if a TD failed, the rest of *)
(* its urb is skipped and the endpoint goes on.  There is one such TD at   *)
(* most, the endpoint was halted.                                          *)
dl_reverse_done_list ==
    /\ filling = NoUrb /\ td_list = 0 /\ done_head # 0
    /\ td_list' = Last(HccaDone)
    /\ done_head' = 0
    /\ td' = Reversed(HccaDone)
    /\ LET failed == { a \in Range(HccaDone) : td[a].CC # "NOERROR" } IN
       IF failed = {} \/ ~ halted THEN UNCHANGED <<hwHeadP, halted, td_cnt>>
       ELSE LET a == CHOOSE x \in failed : TRUE
                u == td[a].urb
                rest == Len(priv[u]) - td[a].index - 1
            IN
            /\ halted' = ~ Cleared(rest)
            /\ hwHeadP' = IF rest > 0 THEN AfterUrb(u, a) ELSE hwHeadP
            /\ td_cnt' = [td_cnt EXCEPT ![u] = @ + IF rest > 0 THEN rest ELSE 0]
    /\ returned' = Nothing
    /\ UNCHANGED <<setup, allocated, hwTailP, hc_done, priv, urb_del,
                   submission, results>>

(* dl_transfer_length: neither setup nor status of a control urb, nor a TD *)
(* without bytes.                                                          *)
(* Mutant: the bytes of a TD that was cut short do not count.              *)
WholeTdsOnly(u, t) ==
    IF t.BE = 0 \/ t.CBP # 0 \/ (type = "CONTROL" /\ t.index \in {0, Len(priv[u]) - 1})
    THEN actual_length[u] ELSE t.BE - Base + 1
dl_transfer_length(u, t) ==
    IF t.BE = 0 \/ (type = "CONTROL" /\ t.index \in {0, Len(priv[u]) - 1})
    THEN actual_length[u]
    ELSE IF t.CBP = 0 THEN t.BE - Base + 1 ELSE t.CBP - Base

(* urb_rm_priv, lines 128-140.                                             *)
RmPriv(u) ==
    /\ allocated' = allocated \ Range(priv[u])
    /\ priv' = [priv EXCEPT ![u] = <<>>]

(* What is in memory that was freed, or in a TD that nothing leads to any  *)
(* longer, is not looked at again: it is forgotten.                        *)
Forget(m, a) == [m EXCEPT ![a] = NoTd]

(* dl_done_list, one TD.  sohci_return_urb gives a bulk or control urb to  *)
(* its driver after urb_rm_priv; an interrupt urb is given to it, and      *)
(* filled again from its own TD.                                           *)
DoneTd ==
    /\ filling = NoUrb /\ td_list # 0
    /\ LET t == td[td_list]
           u == t.urb
           length == dl_transfer_length(u, t)
           last == td_cnt[u] + 1 = Len(priv[u])
           requeue == last /\ type = "INTERRUPT" /\ ~ urb_del[u]
       IN
       /\ td_list' = t.next_dl
       /\ IF requeue
          THEN /\ filling' = u /\ cnt' = 0
               /\ td_cnt' = [td_cnt EXCEPT ![u] = 0]
               /\ actual_length' = [actual_length EXCEPT ![u] = 0]
               /\ moved' = [moved EXCEPT ![u] = 0]
               /\ UNCHANGED <<allocated, priv>>
          ELSE /\ td_cnt' = [td_cnt EXCEPT ![u] = IF last THEN 0 ELSE @ + 1]
               /\ actual_length' = [actual_length EXCEPT ![u] = IF last THEN 0 ELSE length]
               /\ moved' = [moved EXCEPT ![u] = IF last THEN 0 ELSE @]
               /\ IF last THEN RmPriv(u) ELSE UNCHANGED <<allocated, priv>>
               /\ UNCHANGED submission
       /\ returned' = IF last /\ ~ urb_del[u]
                      THEN [urb |-> u, actual |-> length, moved |-> moved[u]]
                      ELSE Nothing
       /\ td' = Forget(td, td_list)
       /\ urb_del' = [urb_del EXCEPT ![u] = @ /\ ~ last]
    /\ UNCHANGED <<setup, ed, hc_done, done_head>>

-----------------------------------------------------------------------------
(* dl_del_list for an urb that is unlinked, lines 1318-1340.               *)

(* What a chain leads to from a place, past the TDs of an urb.             *)
PastUrb(s, u, i) ==
    LET later == { j \in i + 1 .. Len(s) : td[s[j]].urb # u } IN
    IF later = {} THEN hwTailP ELSE s[Min(later)]

(* The links of the TDs that stay skip those that go.                      *)
Relinked(s, u) ==
    [a \in Addresses |->
        IF a \notin Range(s) THEN td[a]
        ELSE IF td[a].urb = u THEN NoTd
        ELSE [td[a] EXCEPT !.NextTD = PastUrb(s, u, Place(s, a))]]

(* The endpoint has been skipped for a frame.  That u has a failed TD in a *)
(* done list, which counts the TDs behind it twice, is in UrbLife (fault). *)
dl_del_list(u) ==
    /\ filling = NoUrb /\ td_list = 0 /\ priv[u] # <<>> /\ ~ urb_del[u]
    /\ \A a \in Range(HcDone \o HccaDone) : td[a].urb = u => td[a].CC = "NOERROR"
    /\ LET gone == { a \in Range(Queue) : td[a].urb = u }
           counted == td_cnt[u] + Cardinality(gone)
           done == gone # {} /\ counted = Len(priv[u])
       IN
       /\ td' = Relinked(Queue, u)
       /\ hwHeadP' = PastUrb(Queue, u, 0)
       /\ IF done
          THEN /\ RmPriv(u)
               /\ td_cnt' = [td_cnt EXCEPT ![u] = 0]
               /\ actual_length' = [actual_length EXCEPT ![u] = 0]
               /\ moved' = [moved EXCEPT ![u] = 0]
          ELSE /\ td_cnt' = [td_cnt EXCEPT ![u] = counted]
               /\ UNCHANGED <<allocated, priv, actual_length, moved>>
       /\ urb_del' = [urb_del EXCEPT ![u] = ~ done]
    /\ returned' = Nothing
    /\ UNCHANGED <<setup, hwTailP, halted, lists, submission>>

-----------------------------------------------------------------------------
Driver ==
    \/ \E u \in Urbs : Submit(u) \/ dl_del_list(u)
    \/ td_fill \/ td_submit_urb_end
    \/ dl_reverse_done_list \/ DoneTd

Next == Controller \/ Driver

(* The controller serves what it is given and writes its done list back;   *)
(* a pending interrupt is taken when interrupts are enabled again; the     *)
(* handler and td_submit_urb, which are not interrupted, come to their end.*)
Fairness ==
    /\ WF_vars(\E n \in 0 .. Max(Range(len)), s \in BOOLEAN : Retire(n, s))
    /\ WF_vars(WriteBack)
    /\ WF_vars(td_fill \/ td_submit_urb_end \/ DoneTd)
    /\ SF_vars(dl_reverse_done_list)

Spec == Init /\ [][Next]_vars /\ Fairness

-----------------------------------------------------------------------------
(* Properties.                                                             *)

Successor(t, x) ==
    IF t.urb = x.urb THEN x.index = t.index + 1
    ELSE t.index = Len(Contents(t.urb)) - 1 /\ x.index = 0

(* Whatever the controller retires and the driver adds, takes out and      *)
(* skips meanwhile, the queue leads from hwHeadP to hwTailP through TDs of *)
(* urbs that are out, each urb's in order and to its last (or to the one   *)
(* td_submit_urb has come to); and only the first urb may have lost some.  *)
QueueInOrder ==
    LET q == Queue IN
    /\ {hwHeadP, hwTailP} \subseteq Addresses
    /\ \A i \in 1 .. Len(q) - 1 : Successor(td[q[i]], td[q[i + 1]])
    /\ q # <<>> =>
        LET t == td[Last(q)] IN
        /\ t.NextTD = hwTailP
        /\ t.index = IF t.urb = filling THEN cnt - 1
                     ELSE Len(Contents(t.urb)) - 1

(* The TDs allocated are the dummy and those in the urbs' tables, each in  *)
(* one place; the controller and the lists never lead to another: a TD is  *)
(* not freed while something can reach it, none is forgotten, although a   *)
(* filled TD is not the one that was allocated for the purpose, and td_cnt *)
(* counts no more TDs than the urb has.                                    *)
TdsOwned ==
    /\ allocated = {hwTailP} \cup UNION { Range(priv[u]) : u \in Urbs }
    /\ \A u, v \in Urbs : \A i \in DOMAIN priv[u], j \in DOMAIN priv[v] :
           priv[u][i] = priv[v][j] => u = v /\ i = j
    /\ \A u \in Urbs : /\ hwTailP \notin Range(priv[u])
                       /\ td_cnt[u] <= Len(priv[u])
    /\ Range(Queue \o HcDone \o HccaDone \o TdList) \subseteq allocated

(* An urb is returned with the number of bytes that were transferred for   *)
(* it, however many TDs it took and whichever of them was cut short by a   *)
(* short packet or an error.                                               *)
LengthExact == returned.actual = returned.moved

(* Every urb is returned (or taken back), after any errors of its own and  *)
(* of others: an error does not leave the endpoint halted.                 *)
UrbReturned ==
    \A u \in Urbs :
        priv[u] # <<>> ~> returned.urb = u \/ urb_del[u] \/ priv[u] = <<>>
=============================================================================
