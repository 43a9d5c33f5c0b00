---------------------------- MODULE EdListsProofs ---------------------------
(* The removal lists, the bits that stop the lists of the controller, and  *)
(* the load of the branches, for any EDs and any tree.                     *)
EXTENDS EdLists, FiniteSetTheorems, TLAPS

-----------------------------------------------------------------------------
(* The inductive invariant.                                                *)

Oper == { e \in Eds : state[e] = "ED_OPER" }

(* The links are left out: none of what follows depends on them.           *)
TypeOK ==
  /\ state \in [Eds -> {"ED_NEW", "ED_UNLINK", "ED_OPER"}]
  /\ del \in [Eds -> {"none", "ED_DEL", "ED_URB_DEL"}]
  /\ DOMAIN int_interval = Eds /\ DOMAIN int_branch = Eds
  /\ ohci_int_load \in [Heads -> Int]
  /\ ed_rm_list \in [0 .. 1 -> SUBSET Eds]
  /\ enabled \subseteq {"CTRL", "BULK"}
  /\ frame \in 0 .. 1

(* What was requested in this frame is on this frame's list.               *)
Fresh == fresh \subseteq ed_rm_list[frame]

(* An ED of a device that is freed is not operational: dl_del_list makes   *)
(* it ED_NEW without taking it out of a chain.                             *)
FreedOut == \A e \in Eds : del[e] = "ED_DEL" => state[e] # "ED_OPER"

(* The load, by the EDs that are linked, until a fault.                    *)
LoadOf == \A h \in Heads : ohci_int_load[h] = Cardinality(OnPath(h, Oper))
LoadKept == fault = "none" => LoadOf

RmInv == TypeOK /\ OnOneList /\ ListsStopped /\ Fresh /\ FreedOut
EdInv == RmInv /\ LoadKept

-----------------------------------------------------------------------------
(* The start of the program.                                               *)
LEMMA EdInit ==
  Init => EdInv
  <1> SUFFICES ASSUME Init PROVE EdInv
    OBVIOUS
  <1>1. RmInv
    BY DEF Init, RmInv, TypeOK, OnOneList, ListsStopped, Fresh, FreedOut
  <1>2. ASSUME NEW h \in Heads PROVE OnPath(h, Oper) = {}
    BY DEF OnPath, Oper, Init
  <1>3. LoadKept
    BY <1>2, FS_EmptySet DEF LoadKept, LoadOf, Init
  <1>4. QED BY <1>1, <1>3 DEF EdInv

-----------------------------------------------------------------------------
(* The removal lists, operation by operation.                              *)

(* A new ED is set up, or one that is in use.                              *)
LEMMA SetUpRm ==
  ASSUME RmInv, NEW ed \in Eds, SetUp(ed)
  PROVE  RmInv'
  <1>1. UNCHANGED <<linkVars, ed_rm_list, enabled, frame, fresh>>
    BY DEF SetUp
  <1>2. /\ state' = [state EXCEPT ![ed] = "ED_UNLINK"]
        /\ del' = [del EXCEPT ![ed] = "none"]
    BY DEF SetUp
  <1>3. TypeOK'
    BY <1>1, <1>2 DEF RmInv, TypeOK, linkVars
  <1>4. ListsStopped' /\ Fresh'
    BY <1>1 DEF RmInv, ListsStopped, Fresh
  <1>5. FreedOut'
    BY <1>2 DEF RmInv, TypeOK, FreedOut
  <1>6. OnOneList'
    <2>1. CASE del[ed] = "none"
      <3>1. del' = del /\ fault = "none"
        BY <1>2, <2>1 DEF SetUp, RmInv, TypeOK
      <3>2. QED BY <1>1, <3>1 DEF RmInv, OnOneList
    <2>2. CASE del[ed] # "none"
      BY <2>2 DEF SetUp, OnOneList
    <2>3. QED BY <2>1, <2>2
  <1>7. QED BY <1>3, <1>4, <1>5, <1>6 DEF RmInv

(* An ED is linked.                                                        *)
LEMMA LinkRm ==
  ASSUME RmInv, NEW ed \in Eds, NEW p, Link(ed, p)
  PROVE  TypeOK' => RmInv'
  <1>1. /\ del[ed] = "none" /\ fault = "none"
        /\ UNCHANGED <<del, ed_rm_list, enabled, frame, fresh>>
    BY DEF Link
  <1>2. state' = [state EXCEPT ![ed] = "ED_OPER"]
    BY DEF Link
  <1>3. OnOneList' /\ ListsStopped' /\ Fresh'
    BY <1>1 DEF RmInv, OnOneList, ListsStopped, Fresh
  <1>4. FreedOut'
    BY <1>1, <1>2 DEF RmInv, TypeOK, FreedOut
  <1>5. QED BY <1>3, <1>4 DEF RmInv

(* A request is forgotten, which ends all.                                 *)
LEMMA RelinkRm ==
  ASSUME RmInv, NEW ed \in Eds, Relink(ed)
  PROVE  RmInv'
  <1>1. /\ UNCHANGED <<linkVars, ed_rm_list, enabled, frame, fresh>>
        /\ fault' # "none"
    BY DEF Relink
  <1>2. /\ state' = [state EXCEPT ![ed] = "ED_OPER"]
        /\ del' = [del EXCEPT ![ed] = "none"]
    BY DEF Relink
  <1>3. TypeOK'
    BY <1>1, <1>2 DEF RmInv, TypeOK, linkVars
  <1>4. ListsStopped' /\ Fresh' /\ OnOneList'
    BY <1>1 DEF RmInv, ListsStopped, Fresh, OnOneList
  <1>5. FreedOut'
    BY <1>2 DEF RmInv, TypeOK, FreedOut
  <1>6. QED BY <1>3, <1>4, <1>5 DEF RmInv

(* The last TD of an ED is done: it may leave its chain.                   *)
LEMMA LastDoneRm ==
  ASSUME RmInv, NEW ed \in Eds, LastDone(ed)
  PROVE  TypeOK' => RmInv'
  <1>1. UNCHANGED <<del, ed_rm_list, enabled, frame, fresh>> /\ fault = "none"
    BY DEF LastDone
  <1>2. state' = [state EXCEPT ![ed] = "ED_UNLINK"]
    BY DEF LastDone
  <1>3. OnOneList' /\ ListsStopped' /\ Fresh'
    BY <1>1 DEF RmInv, OnOneList, ListsStopped, Fresh
  <1>4. FreedOut'
    BY <1>1, <1>2 DEF RmInv, TypeOK, FreedOut
  <1>5. QED BY <1>3, <1>4 DEF RmInv

(* ep_rm_ed: EDs without a request get one.                                *)
LEMMA RequestRm ==
  ASSUME RmInv, fault = "none", NEW eds \in SUBSET Eds, ep_rm_ed(eds), frame' = frame,
         \A e \in eds : del[e] = "none",
         \A e \in Eds : del'[e] # "none" <=> e \in eds \/ del[e] # "none"
  PROVE  OnOneList' /\ ListsStopped' /\ Fresh' /\ enabled' \subseteq enabled
         /\ ed_rm_list' \in [0 .. 1 -> SUBSET Eds]
  <1> USE DEF RmInv, TypeOK
  <1>1. /\ ed_rm_list' = [ed_rm_list EXCEPT ![frame] = @ \cup eds]
        /\ enabled' = Stopped(eds) /\ fresh' = fresh \cup eds
    BY DEF ep_rm_ed, RmList
  <1>2. ASSUME NEW f \in 0 .. 1
        PROVE  ed_rm_list'[f] = ed_rm_list[f] \cup (IF f = frame THEN eds ELSE {})
    BY <1>1
  <1>3. OnOneList'
    <2>1. \A e \in eds : e \notin ed_rm_list[0] /\ e \notin ed_rm_list[1]
      BY DEF OnOneList
    <2>2. (ed_rm_list[0] \cap ed_rm_list[1] = {})'
      <3>1. frame = 0 \/ frame = 1
        OBVIOUS
      <3>2. /\ 0 \in 0 .. 1 /\ 1 \in 0 .. 1
        OBVIOUS
      <3>3. QED BY <1>2, <2>1, <3>1, <3>2 DEF OnOneList
    <2>3. ASSUME NEW e \in Eds
          PROVE  (e \in ed_rm_list[0] \cup ed_rm_list[1])'
                 <=> e \in eds \/ e \in ed_rm_list[0] \cup ed_rm_list[1]
      <3>1. frame = 0 \/ frame = 1
        OBVIOUS
      <3>2. /\ 0 \in 0 .. 1 /\ 1 \in 0 .. 1
        OBVIOUS
      <3>3. QED BY <1>2, <3>1, <3>2
    <2>4. QED BY <2>2, <2>3 DEF OnOneList
  <1>4. ListsStopped'
    <2>1. ASSUME NEW f \in 0 .. 1, NEW e \in ed_rm_list'[f]
          PROVE  type[e] \notin enabled'
      BY <1>1, <1>2, <2>1 DEF ListsStopped, Stopped
    <2>2. ASSUME \A f \in 0 .. 1 : ed_rm_list'[f] = {}
          PROVE  enabled' = {"CTRL", "BULK"}
      <3>1. eds = {} /\ \A f \in 0 .. 1 : ed_rm_list[f] = {}
        BY <1>2, <2>2
      <3>2. QED BY <1>1, <3>1 DEF ListsStopped, Stopped
    <2>3. QED BY <2>1, <2>2 DEF ListsStopped
  <1>5. Fresh'
    BY <1>1, <1>2 DEF Fresh
  <1>6. QED BY <1>1, <1>3, <1>4, <1>5 DEF Stopped

(* An urb is unlinked.                                                     *)
LEMMA UnlinkUrbRm ==
  ASSUME RmInv, NEW ed \in Eds, UnlinkUrb(ed)
  PROVE  RmInv'
  <1> USE DEF RmInv, TypeOK
  <1>1. /\ ep_rm_ed(Requested(ed)) /\ frame' = frame /\ state' = state
        /\ del' = [del EXCEPT ![ed] = "ED_URB_DEL"] /\ UNCHANGED linkVars
        /\ fault = "none" /\ del[ed] # "ED_DEL"
    BY DEF UnlinkUrb
  <1>2. Requested(ed) \in SUBSET Eds /\ \A e \in Requested(ed) : del[e] = "none"
    BY DEF Requested
  <1>3. \A e \in Eds : del'[e] # "none" <=> e \in Requested(ed) \/ del[e] # "none"
    BY <1>1 DEF Requested
  <1>4. /\ OnOneList' /\ ListsStopped' /\ Fresh' /\ enabled' \subseteq enabled
        /\ ed_rm_list' \in [0 .. 1 -> SUBSET Eds]
    BY <1>1, <1>2, <1>3, RequestRm
  <1>5. FreedOut'
    BY <1>1 DEF FreedOut
  <1>6. TypeOK'
    BY <1>1, <1>4 DEF linkVars
  <1>7. QED BY <1>4, <1>5, <1>6

(* The EDs of a device, as sohci_free_dev finds them.                      *)
LEMMA DeviceEds ==
  ASSUME NEW d \in Devices
  PROVE  { e \in ToSet(d) : state[e] # "ED_NEW" } \in SUBSET Eds
  <1>1. d \in Seq(Eds)
    BY EdsAssumption
  <1>2. QED BY <1>1 DEF ToSet

(* A device is freed.                                                      *)
LEMMA FreeDevRm ==
  ASSUME RmInv, NEW d \in Devices, FreeDev(d)
  PROVE  TypeOK' => RmInv'
  <1> USE DEF RmInv, TypeOK
  <1> DEFINE eds == { e \in ToSet(d) : state[e] # "ED_NEW" }
             new == { e \in eds : del[e] = "none" }
  <1>1. /\ ep_rm_ed(new) /\ frame' = frame /\ fault = "none"
        /\ state' = [e \in Eds |-> IF e \in eds THEN "ED_UNLINK" ELSE state[e]]
        /\ del' = [e \in Eds |-> IF e \in eds THEN "ED_DEL" ELSE del[e]]
    BY DEF FreeDev
  <1>2. eds \in SUBSET Eds
    BY DeviceEds
  <1> HIDE DEF eds
  <1>7. new \in SUBSET Eds /\ \A e \in new : del[e] = "none"
    BY <1>2
  <1>3. \A e \in Eds : del'[e] # "none" <=> e \in new \/ del[e] # "none"
    BY <1>1
  <1> HIDE DEF new
  <1>4. OnOneList' /\ ListsStopped' /\ Fresh'
    BY <1>1, <1>7, <1>3, RequestRm
  <1>5. FreedOut'
    BY <1>1 DEF FreedOut
  <1>6. QED BY <1>4, <1>5

(* The controller begins a frame: the lists swap their meaning.            *)
LEMMA FrameRm ==
  ASSUME RmInv, Frame
  PROVE  RmInv'
  <1>1. /\ frame' = 1 - frame /\ fresh' = {}
        /\ UNCHANGED <<linkVars, state, del, ed_rm_list, enabled, fault>>
    BY DEF Frame
  <1>2. TypeOK'
    BY <1>1 DEF RmInv, TypeOK, linkVars
  <1>3. OnOneList' /\ ListsStopped' /\ FreedOut' /\ Fresh'
    BY <1>1 DEF RmInv, OnOneList, ListsStopped, FreedOut, Fresh
  <1>4. QED BY <1>2, <1>3 DEF RmInv

(* dl_del_list: the list of the frame before is emptied, the other one     *)
(* stays, and with it what it has stopped.                                 *)
LEMMA DelListRm ==
  ASSUME RmInv, StartOfFrame
  PROVE  /\ RmInv'
         /\ \A e \in ed_rm_list[frame] : del'[e] = del[e]
  <1> USE DEF RmInv, TypeOK
  <1>1. UNCHANGED <<linkVars, frame, fresh, fault>> /\ fault = "none"
    BY DEF StartOfFrame
  <1>2. CASE ed_rm_list[1 - frame] = {}
    <2>1. UNCHANGED <<state, del, enabled, ed_rm_list>>
      BY <1>2 DEF StartOfFrame
    <2>2. TypeOK' /\ OnOneList' /\ ListsStopped' /\ FreedOut' /\ Fresh'
      BY <1>1, <2>1 DEF linkVars, OnOneList, ListsStopped, FreedOut, Fresh
    <2>3. QED BY <2>1, <2>2
  <1>3. CASE ed_rm_list[1 - frame] # {}
    <2> DEFINE f == 1 - frame
    <2>1. f \in 0 .. 1 /\ frame = 1 - f /\ f # frame
      OBVIOUS
    <2>2. /\ state' = StateAfter(f) /\ enabled' = Restarted(f)
          /\ del' = [e \in Eds |-> IF e \in ed_rm_list[f] THEN "none" ELSE del[e]]
          /\ ed_rm_list' = [ed_rm_list EXCEPT ![f] = {}]
      BY <1>3 DEF StartOfFrame, dl_del_list
    <2> HIDE DEF f
    <2>3. /\ ed_rm_list'[f] = {} /\ ed_rm_list'[frame] = ed_rm_list[frame]
          /\ \A g \in 0 .. 1 : g = f \/ g = frame
      BY <2>1, <2>2
    <2>4. ed_rm_list[f] \cap ed_rm_list[frame] = {}
      <3>1. \/ f = 0 /\ frame = 1
            \/ f = 1 /\ frame = 0
        BY <2>1
      <3>2. QED BY <1>1, <3>1 DEF OnOneList
    <2>5. \A e \in ed_rm_list[frame] : del'[e] = del[e]
      BY <2>1, <2>2, <2>4
    <2>6. OnOneList'
      <3>1. \/ f = 0 /\ frame = 1
            \/ f = 1 /\ frame = 0
        BY <2>1
      <3>2. (ed_rm_list[0] \cup ed_rm_list[1])' = ed_rm_list[frame]
            /\ ed_rm_list[0] \cup ed_rm_list[1] = ed_rm_list[f] \cup ed_rm_list[frame]
        BY <2>3, <3>1
      <3>3. \A e \in Eds : del[e] # "none" <=> e \in ed_rm_list[f] \cup ed_rm_list[frame]
        BY <1>1, <3>2 DEF OnOneList
      <3>4. \A e \in Eds : del'[e] # "none" <=> e \in ed_rm_list[frame]
        BY <2>2, <2>4, <3>3
      <3>5. (ed_rm_list[0] \cap ed_rm_list[1])' = {}
        BY <2>3, <3>1
      <3>6. QED BY <3>2, <3>4, <3>5, <1>1 DEF OnOneList
    <2>7. ListsStopped'
      <3>1. CASE ed_rm_list[frame] = {}
        <4>1. enabled' = {"CTRL", "BULK"}
          BY <2>1, <2>2, <3>1 DEF Restarted
        <4>2. \A g \in 0 .. 1 : ed_rm_list'[g] = {}
          BY <2>3, <3>1
        <4>3. QED BY <4>1, <4>2 DEF ListsStopped
      <3>2. CASE ed_rm_list[frame] # {}
        <4>1. enabled' = enabled
          BY <2>1, <2>2, <3>2 DEF Restarted
        <4>2. \A g \in 0 .. 1 : ed_rm_list'[g] \subseteq ed_rm_list[g]
          BY <2>3, <2>1
        <4>3. ed_rm_list'[frame] # {}
          BY <2>3, <3>2
        <4>4. QED BY <4>1, <4>2, <4>3 DEF ListsStopped
      <3>3. QED BY <3>1, <3>2
    <2>8. Fresh'
      BY <1>1, <2>3 DEF Fresh
    <2>9. FreedOut'
      BY <2>2 DEF FreedOut, StateAfter
    <2>10. TypeOK'
      BY <1>1, <2>2, <2>3, <2>1 DEF linkVars, StateAfter, Restarted
    <2>11. QED BY <2>5, <2>6, <2>7, <2>8, <2>9, <2>10
  <1>4. QED BY <1>2, <1>3

-----------------------------------------------------------------------------
(* The load.                                                               *)

(* ep_link in the two kinds of chains and in the tree.                     *)
LEMMA LinkKinds ==
  ASSUME TypeOK, NEW ed \in Eds, NEW p, ep_link(ed, p)
  PROVE  \/ type[ed] # "INT" /\ UNCHANGED <<int_branch, ohci_int_load>>
            /\ \/ int_interval' = int_interval
               \/ int_interval' = [int_interval EXCEPT ![ed] = 1]
         \/ type[ed] = "INT" /\ \E branch, interval :
               /\ int_branch' = [int_branch EXCEPT ![ed] = branch]
               /\ int_interval' = [int_interval EXCEPT ![ed] = interval]
               /\ ohci_int_load' = Load(ohci_int_load, branch, interval)
  <1>1. CASE type[ed] \in {"CTRL", "BULK"} /\ LinkList(ed)
    BY <1>1 DEF LinkList
  <1>2. CASE type[ed] = "INT" /\ LinkPeriodic(ed, p)
    <2> DEFINE interval == ep_2_n_interval(p)
               branch   == LeastLoaded(ohci_int_load) % interval
    <2>1. /\ int_branch' = [int_branch EXCEPT ![ed] = branch]
          /\ int_interval' = [int_interval EXCEPT ![ed] = interval]
          /\ ohci_int_load' = Load(ohci_int_load, branch, interval)
      BY <1>2 DEF LinkPeriodic
    <2> HIDE DEF branch, interval
    <2>2. QED BY <1>2, <2>1
  <1>3. CASE type[ed] = "ISO" /\ LinkIsoEd(ed)
    BY <1>3 DEF LinkIsoEd
  <1>4. QED BY <1>1, <1>2, <1>3 DEF ep_link

(* The EDs on a path are finitely many.                                    *)
LEMMA PathFinite ==
  ASSUME NEW S \in SUBSET Eds, NEW h
  PROVE  IsFiniteSet(OnPath(h, S)) /\ Cardinality(OnPath(h, S)) \in Nat
  <1>1. OnPath(h, S) \in SUBSET Eds
    BY DEF OnPath
  <1>2. IsFiniteSet(OnPath(h, S))
    BY <1>1, EdsAssumption, FS_Subset
  <1>3. QED BY <1>2, FS_CardinalityType

(* An interrupt ED adds one to every head of its branch, another nothing.  *)
LEMMA LinkLoad ==
  ASSUME EdInv, NEW ed \in Eds, NEW p, Link(ed, p)
  PROVE  TypeOK' /\ LoadKept'
  <1> USE DEF EdInv, RmInv
  <1>1. /\ UNCHANGED <<del, ed_rm_list, enabled, frame, fresh>>
        /\ state' = [state EXCEPT ![ed] = "ED_OPER"] /\ fault = "none"
    BY DEF Link
  <1>3. state[ed] # "ED_OPER"
    BY DEF Link
  <1>4. TypeOK' /\ LoadOf'
    <2>1. ep_link(ed, p)
      BY <1>3 DEF Link
    <2>2. Oper' = Oper \cup {ed} /\ ed \notin Oper /\ Oper \in SUBSET Eds
      BY <1>1, <1>3 DEF Oper, TypeOK
    <2>3. CASE /\ type[ed] # "INT" /\ UNCHANGED <<int_branch, ohci_int_load>>
               /\ \/ int_interval' = int_interval
                  \/ int_interval' = [int_interval EXCEPT ![ed] = 1]
      <3>1. ASSUME NEW h \in Heads PROVE OnPath(h, Oper)' = OnPath(h, Oper)
        <4>1. \A e \in Oper : int_interval'[e] = int_interval[e]
          BY <2>2, <2>3 DEF TypeOK
        <4>2. QED BY <2>2, <2>3, <4>1 DEF OnPath
      <3>2. LoadOf'
        BY <1>1, <2>3, <3>1 DEF LoadKept, LoadOf
      <3>3. QED BY <1>1, <2>3, <3>2 DEF TypeOK
    <2>4. ASSUME type[ed] = "INT", NEW branch, NEW interval,
                 int_branch' = [int_branch EXCEPT ![ed] = branch],
                 int_interval' = [int_interval EXCEPT ![ed] = interval],
                 ohci_int_load' = Load(ohci_int_load, branch, interval)
          PROVE  TypeOK' /\ LoadOf'
      <3>1. \A e \in Oper : int_interval'[e] = int_interval[e]
                             /\ int_branch'[e] = int_branch[e]
        BY <2>2, <2>4 DEF TypeOK
      <3>2. int_interval'[ed] = interval /\ int_branch'[ed] = branch
        BY <2>4 DEF TypeOK
      <3>3. ASSUME NEW h \in Heads
            PROVE  OnPath(h, Oper)' = OnPath(h, Oper) \cup
                     (IF h \in Class(branch, interval) THEN {ed} ELSE {})
        BY <2>2, <2>4, <3>1, <3>2 DEF OnPath
      <3>4. ASSUME NEW h \in Heads
            PROVE  ohci_int_load'[h] = Cardinality(OnPath(h, Oper)')
        <4>1. IsFiniteSet(OnPath(h, Oper)) /\ ed \notin OnPath(h, Oper)
          BY <2>2, PathFinite DEF OnPath
        <4>2. Cardinality(OnPath(h, Oper) \cup {ed}) = Cardinality(OnPath(h, Oper)) + 1
          BY <4>1, FS_AddElement
        <4>3. ohci_int_load'[h] = ohci_int_load[h]
                + (IF h \in Class(branch, interval) THEN 1 ELSE 0)
          BY <2>4 DEF Load
        <4>4. ohci_int_load[h] = Cardinality(OnPath(h, Oper)) /\ ohci_int_load[h] \in Int
          BY <1>1 DEF LoadKept, LoadOf, TypeOK
        <4>5. CASE h \in Class(branch, interval)
          BY <3>3, <4>2, <4>3, <4>4, <4>5
        <4>6. CASE h \notin Class(branch, interval)
          <5>1. OnPath(h, Oper)' = OnPath(h, Oper)
            BY <3>3, <4>6
          <5>2. ohci_int_load'[h] = ohci_int_load[h]
            BY <4>3, <4>4, <4>6
          <5>3. QED BY <5>1, <5>2, <4>4
        <4>7. QED BY <4>5, <4>6
      <3>5. ohci_int_load' \in [Heads -> Int]
        BY <2>4 DEF Load, TypeOK
      <3>6. QED BY <1>1, <2>4, <3>4, <3>5 DEF TypeOK, LoadOf
    <2>5. QED BY <2>1, <2>3, <2>4, LinkKinds
  <1>5. QED BY <1>4 DEF LoadKept

(* EDs that are unlinked take their share of the load with them.           *)
LEMMA UnlinkLoad ==
  ASSUME EdInv, fault = "none", NEW l, NEW eds \in SUBSET Oper, SetLists(l, eds)
  PROVE  /\ DOMAIN int_interval' = Eds /\ DOMAIN int_branch' = Eds
         /\ ohci_int_load' \in [Heads -> Int]
         /\ Oper' = Oper \ eds => LoadOf'
  <1> USE DEF EdInv, RmInv
  <1>1. /\ int_interval' = Clear(int_interval, eds, 0)
        /\ int_branch' = Clear(int_branch, eds, 0)
        /\ ohci_int_load' = Unload(eds)
    BY DEF SetLists
  <1>2. /\ DOMAIN int_interval' = Eds /\ DOMAIN int_branch' = Eds
        /\ \A e \in Eds \ eds : int_interval'[e] = int_interval[e]
                                /\ int_branch'[e] = int_branch[e]
    BY <1>1 DEF Clear, TypeOK
  <1>3. Oper \in SUBSET Eds /\ eds \in SUBSET Eds
    BY DEF Oper
  <1>4. ASSUME NEW h \in Heads
        PROVE  /\ ohci_int_load[h] - Cardinality(OnPath(h, eds)) \in Int
               /\ Oper' = Oper \ eds =>
                    ohci_int_load[h] - Cardinality(OnPath(h, eds))
                      = Cardinality(OnPath(h, Oper)')
    <2>1. Oper' = Oper \ eds => OnPath(h, Oper)' = OnPath(h, Oper) \ OnPath(h, eds)
      BY <1>2, <1>3 DEF OnPath
    <2>2. OnPath(h, eds) \in SUBSET OnPath(h, Oper)
      BY DEF OnPath
    <2>3. IsFiniteSet(OnPath(h, Oper)) /\ IsFiniteSet(OnPath(h, eds))
          /\ Cardinality(OnPath(h, Oper)) \in Nat /\ Cardinality(OnPath(h, eds)) \in Nat
      BY <1>3, PathFinite
    <2>4. Cardinality(OnPath(h, Oper) \ OnPath(h, eds))
            = Cardinality(OnPath(h, Oper)) - Cardinality(OnPath(h, Oper) \cap OnPath(h, eds))
      BY <2>3, FS_Difference
    <2>5. OnPath(h, Oper) \cap OnPath(h, eds) = OnPath(h, eds)
      BY <2>2
    <2>6. Oper' = Oper \ eds =>
            Cardinality(OnPath(h, Oper)')
              = Cardinality(OnPath(h, Oper)) - Cardinality(OnPath(h, eds))
      BY <2>1, <2>4, <2>5
    <2>7. ohci_int_load[h] = Cardinality(OnPath(h, Oper))
      BY DEF LoadKept, LoadOf
    <2>8. QED BY <2>3, <2>6, <2>7
  <1>5. /\ Oper' = Oper \ eds => LoadOf'
        /\ ohci_int_load' \in [Heads -> Int]
    BY <1>1, <1>4 DEF LoadOf, Unload
  <1>6. QED BY <1>2, <1>5

(* An ED leaves its chain after its last TD.                               *)
LEMMA LastDoneLoad ==
  ASSUME EdInv, NEW ed \in Eds, LastDone(ed)
  PROVE  TypeOK' /\ LoadKept'
  <1> USE DEF EdInv, RmInv
  <1>1. UNCHANGED <<del, ed_rm_list, enabled, frame, fresh>> /\ fault = "none"
    BY DEF LastDone
  <1>2. /\ SetLists(Unlinked(Lists, ed), {ed})
        /\ state' = [state EXCEPT ![ed] = "ED_UNLINK"] /\ state[ed] = "ED_OPER"
    BY DEF LastDone
  <1>3. {ed} \in SUBSET Oper /\ Oper' = Oper \ {ed}
    BY <1>2 DEF Oper, TypeOK
  <1>4. /\ DOMAIN int_interval' = Eds /\ DOMAIN int_branch' = Eds
        /\ ohci_int_load' \in [Heads -> Int] /\ LoadOf'
    BY <1>1, <1>2, <1>3, UnlinkLoad
  <1>5. QED BY <1>1, <1>2, <1>4 DEF TypeOK, LoadKept

(* The EDs of a device leave their chains, unless their removal waits.     *)
LEMMA FreeDevLoad ==
  ASSUME EdInv, NEW d \in Devices, FreeDev(d)
  PROVE  TypeOK' /\ LoadKept'
  <1> USE DEF EdInv, RmInv
  <1> DEFINE eds  == { e \in ToSet(d) : state[e] # "ED_NEW" }
             ops  == { e \in eds : state[e] = "ED_OPER" /\ del[e] = "none" }
             kept == { e \in eds : state[e] = "ED_OPER" } \ ops
             new  == { e \in eds : del[e] = "none" }
             gone == UnlinkAll(Lists, SelectSeq(d, LAMBDA e : e \in ops))
  <1>1. /\ SetLists(gone, ops) /\ ep_rm_ed(new) /\ frame' = frame /\ fault = "none"
        /\ state' = [e \in Eds |-> IF e \in eds THEN "ED_UNLINK" ELSE state[e]]
        /\ del' = [e \in Eds |-> IF e \in eds THEN "ED_DEL" ELSE del[e]]
        /\ fault' = "none" => kept = {}
    BY DEF FreeDev
  <1> HIDE DEF gone
  <1>2. /\ eds \in SUBSET Eds /\ ops \in SUBSET Oper
        /\ new \in SUBSET Eds /\ \A e \in new : del[e] = "none"
    BY DeviceEds DEF Oper
  <1>3. kept = {} => Oper' = Oper \ ops
    BY <1>1, <1>2 DEF Oper, TypeOK
  <1>4. \A e \in Eds : del'[e] # "none" <=> e \in new \/ del[e] # "none"
    BY <1>1, <1>2 DEF TypeOK
  <1> HIDE DEF eds, ops, kept, new
  <1>5. /\ DOMAIN int_interval' = Eds /\ DOMAIN int_branch' = Eds
        /\ ohci_int_load' \in [Heads -> Int]
        /\ Oper' = Oper \ ops => LoadOf'
    BY <1>1, <1>2, UnlinkLoad
  <1>6. LoadKept'
    BY <1>1, <1>3, <1>5 DEF LoadKept
  <1>7. ed_rm_list' \in [0 .. 1 -> SUBSET Eds] /\ enabled' \subseteq enabled
    BY <1>1, <1>2, <1>4, RequestRm
  <1>8. state' \in [Eds -> {"ED_NEW", "ED_UNLINK", "ED_OPER"}]
        /\ del' \in [Eds -> {"none", "ED_DEL", "ED_URB_DEL"}]
    BY <1>1 DEF TypeOK
  <1>9. QED BY <1>1, <1>5, <1>6, <1>7, <1>8 DEF TypeOK

(* The start of a frame: only EDs that are in no chain become ED_NEW.      *)
LEMMA StartLoad ==
  ASSUME EdInv, StartOfFrame
  PROVE  LoadKept'
  <1> USE DEF EdInv, RmInv
  <1>1. UNCHANGED <<linkVars, fault>>
    BY DEF StartOfFrame
  <1>2. state' = StateAfter(1 - frame) \/ state' = state
    BY DEF StartOfFrame, dl_del_list
  <1>3. Oper' = Oper
    BY <1>2 DEF Oper, StateAfter, FreedOut, TypeOK
  <1>4. QED BY <1>1, <1>3 DEF linkVars, LoadKept, LoadOf, OnPath

-----------------------------------------------------------------------------
(* Every step preserves the invariant.                                     *)
LEMMA EdStep ==
  EdInv /\ [Next]_vars => EdInv'
  <1> SUFFICES ASSUME EdInv, [Next]_vars PROVE EdInv'
    OBVIOUS
  <1>1. CASE \E ed \in Eds : \E p \in Periods : Link(ed, p)
    BY <1>1, LinkRm, LinkLoad DEF EdInv
  <1>9. CASE \E ed \in Eds : SetUp(ed)
    <2>1. PICK ed \in Eds : SetUp(ed)
      BY <1>9
    <2>2. RmInv'
      BY <2>1, SetUpRm DEF EdInv
    <2>3. CASE state[ed] = "ED_OPER"
      BY <2>1, <2>2, <2>3 DEF SetUp, EdInv, LoadKept
    <2>4. CASE state[ed] # "ED_OPER"
      <3>1. Oper' = Oper /\ UNCHANGED linkVars /\ fault = "none"
        BY <2>1, <2>4 DEF SetUp, Oper, EdInv, RmInv, TypeOK
      <3>2. QED BY <2>2, <3>1 DEF linkVars, EdInv, LoadKept, LoadOf, OnPath
    <2>5. QED BY <2>3, <2>4
  <1>10. CASE \E ed \in Eds : Relink(ed)
    BY <1>10, RelinkRm DEF Relink, EdInv, LoadKept
  <1>2. CASE \E ed \in Eds : LastDone(ed)
    BY <1>2, LastDoneRm, LastDoneLoad DEF EdInv
  <1>3. CASE \E ed \in Eds : UnlinkUrb(ed)
    <2>1. RmInv'
      BY <1>3, UnlinkUrbRm DEF EdInv
    <2>2. LoadKept'
      BY <1>3 DEF UnlinkUrb, linkVars, EdInv, LoadKept, LoadOf, Oper, OnPath
    <2>3. QED BY <2>1, <2>2 DEF EdInv
  <1>4. CASE \E d \in Devices : FreeDev(d)
    BY <1>4, FreeDevRm, FreeDevLoad DEF EdInv
  <1>5. CASE Frame
    <2>1. RmInv'
      BY <1>5, FrameRm DEF EdInv
    <2>2. LoadKept'
      BY <1>5 DEF Frame, linkVars, EdInv, LoadKept, LoadOf, Oper, OnPath
    <2>3. QED BY <2>1, <2>2 DEF EdInv
  <1>6. CASE StartOfFrame
    BY <1>6, DelListRm, StartLoad DEF EdInv
  <1>7. CASE UNCHANGED vars
    BY <1>7 DEF vars, linkVars, EdInv, RmInv, TypeOK, OnOneList, ListsStopped,
                Fresh, FreedOut, LoadKept, LoadOf, Oper, OnPath
  <1>8. QED BY <1>1, <1>2, <1>3, <1>4, <1>5, <1>6, <1>7, <1>9, <1>10 DEF Next

(* The inductive invariant holds of the lists: their types always; the     *)
(* removal lists, what they stop and the load until a fault.               *)
THEOREM ListInvariance == Spec => []EdInv
  BY EdInit, EdStep, PTL DEF Spec

(* Until a fault an ED is on one removal list while a request is pending:  *)
(* ep_rm_ed never threads it on a second one (line 1064).                  *)
THEOREM OnOneListOnly == Spec => []OnOneList
  <1>1. EdInv => OnOneList
    BY DEF EdInv, RmInv
  <1>2. QED BY <1>1, ListInvariance, PTL

(* The controller does not walk the control or bulk list while one of its  *)
(* EDs waits for removal, and walks both when none waits, whichever frames *)
(* the requests and the interrupts fall into.                              *)
THEOREM ListsAreStopped == Spec => []ListsStopped
  <1>1. EdInv => ListsStopped
    BY DEF EdInv, RmInv
  <1>2. QED BY <1>1, ListInvariance, PTL

(* Until a fault the load the allocation of branches goes by is that of    *)
(* the EDs linked.                                                         *)
THEOREM LoadIsExact == Spec => []LoadExact
  <1>1. ASSUME NEW h \in Heads
        PROVE  OnPath(h, Oper) = { e \in Expected(h) : type[e] = "INT" }
    <2>1. h # controlhead /\ h # bulkhead
      BY EdsAssumption DEF Heads, controlhead, bulkhead
    <2>2. Expected(h) = Operational("ISO") \cup
            { e \in Operational("INT") : h \in Class(int_branch[e], int_interval[e]) }
      BY <2>1 DEF Expected
    <2>3. QED BY <2>2 DEF OnPath, Oper, Operational
  <1>2. EdInv => LoadExact
    BY <1>1 DEF EdInv, LoadKept, LoadOf, LoadExact
  <1>3. QED BY <1>2, ListInvariance, PTL

(* A request is never carried out in the frame it was made in, in which    *)
(* the controller may still be at the ED (line 1047), until a fault.       *)
THEOREM RemovedAFrameLater == Spec => NotInSameFrame
  <1> DEFINE Kept == fault' = "none" =>
                       \A e \in fresh : del'[e] = "none" => del[e] = "none"
  <1>1. ASSUME EdInv, [Next]_vars PROVE Kept
    <2> USE DEF EdInv, RmInv
    <2>1. CASE \E ed \in Eds : \E p \in Periods : Link(ed, p)
      BY <2>1 DEF Link
    <2>9. CASE \E ed \in Eds : SetUp(ed) \/ Relink(ed)
      <3>1. PICK ed \in Eds : SetUp(ed) \/ Relink(ed)
        BY <2>9
      <3>2. del[ed] # "none" => fault' # "none"
        BY <3>1 DEF SetUp, Relink
      <3>3. del' = [del EXCEPT ![ed] = "none"] /\ fresh \subseteq Eds
        BY <1>1, <3>1 DEF SetUp, Relink, Fresh, TypeOK
      <3>4. QED BY <1>1, <3>2, <3>3 DEF TypeOK
    <2>2. CASE \E ed \in Eds : LastDone(ed)
      BY <2>2 DEF LastDone
    <2>3. CASE \E ed \in Eds : UnlinkUrb(ed)
      BY <2>3 DEF UnlinkUrb, TypeOK
    <2>4. CASE \E d \in Devices : FreeDev(d)
      <3>1. PICK d \in Devices : FreeDev(d)
        BY <2>4
      <3> DEFINE eds == { e \in ToSet(d) : state[e] # "ED_NEW" }
      <3>2. del' = [e \in Eds |-> IF e \in eds THEN "ED_DEL" ELSE del[e]]
        BY <3>1 DEF FreeDev
      <3>3. fresh \subseteq Eds
        BY <1>1 DEF Fresh, TypeOK
      <3>4. QED BY <3>2, <3>3
    <2>5. CASE Frame
      BY <2>5 DEF Frame
    <2>6. CASE StartOfFrame
      <3>1. \A e \in ed_rm_list[frame] : del'[e] = del[e]
        BY <1>1, <2>6, DelListRm
      <3>2. QED BY <1>1, <3>1 DEF Fresh
    <2>7. CASE UNCHANGED vars
      BY <2>7 DEF vars
    <2>8. QED BY <1>1, <2>1, <2>2, <2>3, <2>4, <2>5, <2>6, <2>7, <2>9 DEF Next
  <1>2. QED BY <1>1, ListInvariance, PTL DEF Spec, NotInSameFrame
=============================================================================
