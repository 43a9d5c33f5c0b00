--------------------------- MODULE UrbLifeProofs ---------------------------
(* The removal of endpoint descriptors, for any number of processes, EDs   *)
(* and urbs: how ed->state, the SKIP bit, the two removal lists, the SF    *)
(* interrupt and the chains go together.                                   *)
EXTENDS UrbLife, TLAPS

-----------------------------------------------------------------------------
(* What a step has to establish, and the state it starts from.             *)
Removal == Marked /\ Armed /\ Cold /\ Chained
Kept == Alive' => Removal'

(* The parts of the state the removal depends on.                          *)
rmVars == <<state, skip, linked, hot, ed_rm_list, frame, sf_on>>
EdTypes == /\ state \in [Eds -> SUBSET Bits]
           /\ skip \in [Eds -> 0 .. 1] /\ hot \in [Eds -> 0 .. 1]
           /\ linked \in [Eds -> Nat]
           /\ ed_rm_list \in [Frames -> SUBSET Eds]
           /\ frame \in Frames /\ sf_on \in 0 .. 1

(* Membership in one of the two lists, and a pending request, without sets.*)
LEMMA ListMeaning ==
  \A e : RmListed(e) <=> e \in ed_rm_list[0] \/ e \in ed_rm_list[1]
  <1>1. \A f : f \in 0 .. 1 <=> f = 0 \/ f = 1
    OBVIOUS
  <1>2. QED BY <1>1 DEF RmListed, Frames

(* A pending request is one of two bits of the state.                      *)
LEMMA PendingMeaning ==
  \A e : Pending(e) <=> "DEL" \in state[e] \/ "URB_DEL" \in state[e]
  BY DEF Pending

-----------------------------------------------------------------------------
(* The pieces of the operations, each on its own.                          *)

(* A step that leaves the EDs alone.                                       *)
LEMMA IdleKeeps ==
  ASSUME EdTypes, Removal, UNCHANGED rmVars, Spins => Spins'
  PROVE EdTypes' /\ Kept
  BY DEF EdTypes, Removal, Kept, rmVars, Marked, Armed, Cold, Chained, RmListed, Pending

(* A frame: what waited for the frame that ends is cold now.               *)
LEMMA FrameKeeps ==
  ASSUME EdTypes, Removal,
         frame' = 1 - frame, hot' = [e \in Eds |-> 0],
         UNCHANGED <<state, skip, linked, ed_rm_list, sf_on>>, Spins => Spins'
  PROVE EdTypes' /\ Kept
  <1>1. frame' \in Frames /\ hot' \in [Eds -> 0 .. 1]
    BY DEF EdTypes, Frames
  <1>2. Marked' /\ Armed' /\ Chained'
    BY DEF Removal, Marked, Armed, Chained, RmListed, Pending
  <1>3. \A e \in ed_rm_list[1 - frame'] : e \in Eds
    BY <1>1 DEF EdTypes, Frames
  <1>4. Cold'
    BY <1>3 DEF Cold
  <1>5. QED BY <1>1, <1>2, <1>4 DEF EdTypes, Removal, Kept

(* ep_unlink of an ED that is idle and operational.                        *)
LEMMA UnlinkIdleKeeps ==
  ASSUME EdTypes, Removal, NEW e, UnlinkIdle(e),
         UNCHANGED <<ed_rm_list, frame, sf_on>>, Spins => Spins'
  PROVE EdTypes' /\ Kept
  <1>1. CASE ~ NotBusy(e) \/ e \notin Eds
    <2>1. UNCHANGED <<state, skip, linked, hot>>
      BY <1>1 DEF UnlinkIdle, EpUnlink, EdTypes
    <2>2. QED BY <2>1, IdleKeeps DEF rmVars
  <1>2. CASE NotBusy(e) /\ e \in Eds
    <2>1. /\ state[e] = {"OPER"} /\ linked[e] = 1
          /\ ~ RmListed(e)
      BY <1>2, PendingMeaning DEF NotBusy, Removal, Chained, Marked
    <2>2. EpUnlink(e)
      BY <1>2 DEF UnlinkIdle
    <2>3. EdTypes'
      BY <1>2, <2>1, <2>2 DEF EpUnlink, EdTypes, HotNow, Bits
    <2>4. Marked'
      BY <2>1, <2>2 DEF EpUnlink, EdTypes, Removal, Marked, RmListed, Pending
    <2>5. Armed'
      BY DEF Removal, Armed, RmListed
    <2>6. Cold'
      <3>1. e \notin ed_rm_list[1 - frame]
        BY <2>1 DEF RmListed, EdTypes, Frames
      <3>2. QED BY <2>2, <3>1 DEF EpUnlink, EdTypes, Removal, Cold, Frames
    <2>7. Chained'
      BY <2>1, <2>2 DEF EpUnlink, EdTypes, Removal, Chained
    <2>8. QED BY <2>3, <2>4, <2>5, <2>6, <2>7 DEF Removal, Kept
  <1>3. QED BY <1>1, <1>2

(* ep_rm_ed on a set of EDs that all have a request afterwards: those that *)
(* had none join the list of this frame, where nothing is cold yet.        *)
LEMMA EpRmEdKeeps ==
  ASSUME EdTypes, Removal, NEW S \in SUBSET Eds, EpRmEd(S), frame' = frame,
         Spins => Spins',
         \A e \in S : Pending(e)',
         \A e \in Eds \ S : state'[e] = state[e]
  PROVE /\ skip' \in [Eds -> 0 .. 1] /\ hot' \in [Eds -> 0 .. 1]
        /\ ed_rm_list' \in [Frames -> SUBSET Eds] /\ sf_on' \in 0 .. 1
        /\ Marked' /\ Armed' /\ Cold'
  <1> DEFINE New == {e \in S : ~ Pending(e)}
  <1>1. /\ skip' = [e \in Eds |-> IF e \in New THEN 1 ELSE skip[e]]
        /\ hot' = [e \in Eds |-> IF e \in New THEN HotNow(e) ELSE hot[e]]
        /\ ed_rm_list' = [ed_rm_list EXCEPT ![frame] = @ \cup New]
        /\ Arm(New)
    BY DEF EpRmEd, RmFrame
  <1>2. New \subseteq Eds
    OBVIOUS
  <1> HIDE DEF New
  <1>3. ed_rm_list' \in [Frames -> SUBSET Eds]
    BY <1>1, <1>2 DEF EdTypes
  <1>4. /\ ed_rm_list'[frame] = ed_rm_list[frame] \cup New
        /\ ed_rm_list'[1 - frame] = ed_rm_list[1 - frame]
        /\ frame \in 0 .. 1
    BY <1>1 DEF EdTypes, Frames
  <1>5. skip' \in [Eds -> 0 .. 1] /\ hot' \in [Eds -> 0 .. 1]
    BY <1>1 DEF EdTypes, HotNow
  <1>6. sf_on' \in 0 .. 1
    BY <1>1 DEF Arm, EdTypes
  <1>7. \A e \in Eds : RmListed(e)' <=> RmListed(e) \/ e \in New
    <2>1. \A e : RmListed(e)' <=> e \in ed_rm_list'[0] \/ e \in ed_rm_list'[1]
      <3>1. \A f : f \in 0 .. 1 <=> f = 0 \/ f = 1
        OBVIOUS
      <3>2. QED BY <3>1 DEF RmListed, Frames
    <2>2. \A e : RmListed(e) <=> e \in ed_rm_list[0] \/ e \in ed_rm_list[1]
      BY ListMeaning
    <2>3. QED BY <2>1, <2>2, <1>4
  <1>8. \A e \in New : e \in S /\ ~ Pending(e) /\ ~ RmListed(e)
    BY <1>2 DEF New, Removal, Marked
  <1>9. \A e \in Eds : Pending(e)' <=> Pending(e) \/ e \in New
    <2>1. \A e \in Eds \ S : Pending(e)' <=> Pending(e)
      BY DEF Pending
    <2>2. \A e \in S : e \in New <=> ~ Pending(e)
      BY DEF New
    <2>3. QED BY <2>1, <2>2, <1>8
  <1>10. Marked'
    <2> SUFFICES ASSUME NEW e \in Eds
                 PROVE /\ RmListed(e)' <=> Pending(e)'
                       /\ RmListed(e)' => skip'[e] = 1
                       /\ e \notin ed_rm_list'[0] \cap ed_rm_list'[1]
      BY DEF Marked
    <2>1. /\ RmListed(e) <=> Pending(e)
          /\ RmListed(e) => skip[e] = 1
          /\ e \notin ed_rm_list[0] \cap ed_rm_list[1]
      BY DEF Removal, Marked
    <2>2. RmListed(e)' <=> Pending(e)'
      BY <1>7, <1>9, <2>1
    <2>3. RmListed(e)' => skip'[e] = 1
      BY <1>1, <1>7, <2>1
    <2>4. e \in New => e \notin ed_rm_list[0] /\ e \notin ed_rm_list[1]
      BY <1>8, ListMeaning
    <2>5. e \notin ed_rm_list'[0] \cap ed_rm_list'[1]
      BY <1>4, <2>1, <2>4
    <2>6. QED BY <2>2, <2>3, <2>5
  <1>11. Armed'
    <2>1. CASE New = {}
      <3>1. sf_on' = sf_on
        BY <1>1, <2>1 DEF Arm
      <3>2. QED BY <3>1, <1>7, <2>1 DEF Removal, Armed
    <2>2. CASE New # {}
      BY <1>1, <2>2 DEF Arm, Armed
    <2>3. QED BY <2>1, <2>2
  <1>12. Cold'
    <2>1. \A e \in ed_rm_list[1 - frame] : e \in Eds /\ hot[e] = 0 /\ e \notin New
      <3>1. \A e \in ed_rm_list[1 - frame] : RmListed(e) /\ e \in Eds
        BY <1>4 DEF RmListed, Frames, EdTypes
      <3>2. QED BY <3>1, <1>8 DEF Removal, Cold
    <2>2. QED BY <1>1, <1>4, <2>1 DEF Cold
  <1>13. QED BY <1>3, <1>5, <1>6, <1>10, <1>11, <1>12

(* The request of an unlink.                                               *)
LEMMA RequestKeeps ==
  ASSUME EdTypes, Removal, NEW e \in Eds, RequestUrbDel(e), frame' = frame, Spins => Spins'
  PROVE EdTypes' /\ Kept
  <1>1. /\ EpRmEd({e})
        /\ state' = [state EXCEPT ![e] = @ \cup {"URB_DEL"}]
        /\ linked' = linked
    BY DEF RequestUrbDel
  <1>2. state' \in [Eds -> SUBSET Bits]
    BY <1>1 DEF EdTypes, Bits
  <1>3. Pending(e)' /\ \A x \in Eds \ {e} : state'[x] = state[x]
    BY <1>1 DEF EdTypes, Pending
  <1>4. /\ skip' \in [Eds -> 0 .. 1] /\ hot' \in [Eds -> 0 .. 1]
        /\ ed_rm_list' \in [Frames -> SUBSET Eds] /\ sf_on' \in 0 .. 1
        /\ Marked' /\ Armed' /\ Cold'
    <2>1. {e} \in SUBSET Eds /\ \A x \in {e} : Pending(x)'
      BY <1>3
    <2>2. QED BY <1>1, <1>3, <2>1, EpRmEdKeeps
  <1>5. \A x \in Eds : "DEL" \in state'[x] <=> "DEL" \in state[x]
    BY <1>1 DEF EdTypes
  <1>6. \A x \in Eds : "OPER" \in state'[x] <=> "OPER" \in state[x]
    BY <1>1 DEF EdTypes
  <1>7. Chained'
    BY <1>1, <1>5, <1>6 DEF Removal, Chained
  <1>8. QED BY <1>1, <1>2, <1>4, <1>7 DEF EdTypes, Removal, Kept

(* sohci_free_dev: every ED that is used gets its request.                 *)
LEMMA FreeKeeps ==
  ASSUME EdTypes, Removal, EpRmEd(Used), frame' = frame, Spins => Spins',
         state' = [e \in Eds |-> IF e \in Used THEN {"DEL"} ELSE state[e]],
         linked' = [e \in Eds |-> IF e \in Operational THEN linked[e] - 1 ELSE linked[e]]
  PROVE EdTypes' /\ Kept
  <1>1. Used \in SUBSET Eds
    BY DEF Used
  <1>2. state' \in [Eds -> SUBSET Bits]
    BY DEF EdTypes, Bits
  <1>3. \A e \in Operational : e \in Used /\ linked[e] = 1
    BY DEF Operational, Used, Removal, Chained
  <1>4. linked' \in [Eds -> Nat]
    BY <1>3 DEF EdTypes
  <1>5. /\ \A e \in Used : Pending(e)'
        /\ \A e \in Eds \ Used : state'[e] = state[e]
    BY <1>1 DEF Pending
  <1>6. /\ skip' \in [Eds -> 0 .. 1] /\ hot' \in [Eds -> 0 .. 1]
        /\ ed_rm_list' \in [Frames -> SUBSET Eds] /\ sf_on' \in 0 .. 1
        /\ Marked' /\ Armed' /\ Cold'
    BY <1>1, <1>5, EpRmEdKeeps
  <1>7. Chained'
    BY <1>3 DEF Removal, Chained
  <1>8. QED BY <1>2, <1>4, <1>6, <1>7 DEF EdTypes, Removal, Kept

(* ep_add_ed leaves an ED that has no request ready, without SKIP.         *)
LEMMA AddKeeps ==
  ASSUME EdTypes, Removal, NEW e, ~ Pending(e), EpAddEd(e),
         UNCHANGED <<ed_rm_list, frame, sf_on>>, Spins => Spins'
  PROVE EdTypes' /\ Kept
  <1>1. /\ state' = [state EXCEPT ![e] = IF @ = {} THEN {"UNLINK"} ELSE @]
        /\ skip' = [skip EXCEPT ![e] = 0]
        /\ linked' = linked /\ hot' = hot
    BY DEF EpAddEd, SetUp, Refresh, EdTypes
  <1>2. EdTypes'
    <2>1. state' \in [Eds -> SUBSET Bits]
      BY <1>1 DEF EdTypes, Bits
    <2>2. skip' \in [Eds -> 0 .. 1]
      <3>1. skip' = [skip EXCEPT ![e] = 0] /\ skip \in [Eds -> 0 .. 1]
        BY <1>1 DEF EdTypes
      <3>2. \A x \in Eds : skip'[x] \in 0 .. 1
        BY <3>1
      <3>3. QED BY <3>1, <3>2
    <2>3. QED BY <1>1, <2>1, <2>2 DEF EdTypes
  <1>3. \A x \in Eds : state'[x] = state[x] \/ (state[x] = {} /\ state'[x] = {"UNLINK"})
    BY <1>1 DEF EdTypes
  <1>4. \A x \in Eds : RmListed(x)' <=> RmListed(x)
    BY DEF RmListed
  <1>5. \A x \in Eds : Pending(x)' <=> Pending(x)
    BY <1>3 DEF Pending
  <1>6. \A x \in Eds : RmListed(x) => skip'[x] = 1
    <2>1. \A x \in Eds : RmListed(x) => x # e /\ skip[x] = 1
      BY DEF Removal, Marked
    <2>2. QED BY <1>1, <2>1 DEF EdTypes
  <1>7. Marked'
    BY <1>4, <1>5, <1>6 DEF Removal, Marked
  <1>8. Armed' /\ Cold'
    BY <1>1, <1>4 DEF Removal, Armed, Cold
  <1>9. Chained'
    BY <1>1, <1>3 DEF Removal, Chained
  <1>10. QED BY <1>2, <1>7, <1>8, <1>9 DEF Removal, Kept

(* It writes a new ED with SKIP before it sleeps ...                       *)
LEMMA SkipKeeps ==
  ASSUME EdTypes, Removal, NEW e, SkipNew(e),
         UNCHANGED <<ed_rm_list, frame, sf_on>>, Spins => Spins'
  PROVE EdTypes' /\ Kept
  <1>1. /\ skip' = [skip EXCEPT ![e] = 1]
        /\ UNCHANGED <<state, linked, hot>>
    BY DEF SkipNew
  <1>2. /\ skip' \in [Eds -> 0 .. 1]
        /\ \A x \in Eds : skip'[x] = IF x = e THEN 1 ELSE skip[x]
    <2>1. skip' = [skip EXCEPT ![e] = 1] /\ skip \in [Eds -> 0 .. 1]
      BY <1>1 DEF EdTypes
    <2>2. \A x \in Eds : skip'[x] = IF x = e THEN 1 ELSE skip[x]
      BY <2>1
    <2>3. \A x \in Eds : skip'[x] \in 0 .. 1
      BY <2>1, <2>2
    <2>4. QED BY <2>1, <2>2, <2>3
  <1>3. EdTypes'
    BY <1>1, <1>2 DEF EdTypes
  <1>4. /\ \A x \in Eds : RmListed(x)' <=> RmListed(x)
        /\ \A x \in Eds : Pending(x)' <=> Pending(x)
    BY <1>1 DEF RmListed, Pending
  <1>5. Marked'
    BY <1>2, <1>4 DEF Removal, Marked
  <1>6. Armed'
    BY <1>4 DEF Removal, Armed
  <1>7. Cold' /\ Chained'
    BY <1>1 DEF Removal, Cold, Chained
  <1>8. QED BY <1>3, <1>5, <1>6, <1>7 DEF Removal, Kept

(* ... and sets up an ED that nothing uses, whoever did so before.         *)
LEMMA SetUpKeeps ==
  ASSUME EdTypes, Removal, NEW e, ~ InUse(e), SetUp(e),
         UNCHANGED <<linked, hot, ed_rm_list, frame, sf_on>>, Spins => Spins'
  PROVE EdTypes' /\ Kept
  <1>1. /\ state' = [state EXCEPT ![e] = {"UNLINK"}]
        /\ skip' = [skip EXCEPT ![e] = 0]
    BY DEF SetUp
  <1>2. ~ Pending(e) /\ ~ (linked[e] > 0)
    BY DEF InUse
  <1>3. EdTypes'
    <2>1. state' \in [Eds -> SUBSET Bits]
      BY <1>1 DEF EdTypes, Bits
    <2>2. skip' \in [Eds -> 0 .. 1]
      <3>1. skip' = [skip EXCEPT ![e] = 0] /\ skip \in [Eds -> 0 .. 1]
        BY <1>1 DEF EdTypes
      <3>2. \A x \in Eds : skip'[x] \in 0 .. 1
        BY <3>1
      <3>3. QED BY <3>1, <3>2
    <2>3. QED BY <2>1, <2>2 DEF EdTypes
  <1>4. \A x \in Eds : RmListed(x)' <=> RmListed(x)
    BY DEF RmListed
  <1>5. \A x \in Eds : Pending(x)' <=> Pending(x)
    <2>1. \A x \in Eds \ {e} : state'[x] = state[x]
      BY <1>1 DEF EdTypes
    <2>2. e \in Eds => ~ Pending(e)'
      BY <1>1 DEF EdTypes, Pending
    <2>3. QED BY <1>2, <2>1, <2>2 DEF Pending
  <1>6. \A x \in Eds : RmListed(x) => skip'[x] = 1
    <2>1. \A x \in Eds : RmListed(x) => x # e /\ skip[x] = 1
      BY <1>2 DEF Removal, Marked
    <2>2. QED BY <1>1, <2>1 DEF EdTypes
  <1>7. Marked'
    BY <1>4, <1>5, <1>6 DEF Removal, Marked
  <1>8. Armed' /\ Cold'
    BY <1>4 DEF Removal, Armed, Cold
  <1>9. Chained'
    <2>1. e \in Eds => linked[e] = 0
      BY <1>2 DEF EdTypes
    <2>2. QED BY <1>1, <2>1 DEF EdTypes, Removal, Chained
  <1>10. QED BY <1>3, <1>7, <1>8, <1>9 DEF Removal, Kept

(* ep_link at the end of a submission; one that forgets a request is a     *)
(* fault.  The skip bit may have been cleared just before, by ep_add_ed of *)
(* an ED without a request.                                                *)
LEMMA LinkKeeps ==
  ASSUME EdTypes, Removal, NEW e, "DEL" \notin state[e], EpLink(e),
         skip' = skip \/ (~ Pending(e) /\ skip' = [skip EXCEPT ![e] = 0]),
         UNCHANGED <<hot, ed_rm_list, frame, sf_on>>, Spins => Spins'
  PROVE EdTypes' /\ Kept
  <1>1. /\ state' = [state EXCEPT ![e] = {"OPER"}]
        /\ linked' = [linked EXCEPT ![e] = @ + NewLinks(e)]
        /\ fault' = IF "URB_DEL" \in state[e] THEN "request forgotten" ELSE fault
    BY DEF EpLink
  <1>2. NewLinks(e) \in 0 .. 1
    BY DEF NewLinks
  <1>3. EdTypes'
    <2>1. state' \in [Eds -> SUBSET Bits]
      BY <1>1 DEF EdTypes, Bits
    <2>2. linked' \in [Eds -> Nat]
      <3>1. \A n \in Nat : n + NewLinks(e) \in Nat
        BY <1>2
      <3>2. CASE e \in Eds
        BY <1>1, <3>1, <3>2 DEF EdTypes
      <3>3. CASE e \notin Eds
        BY <1>1, <3>3 DEF EdTypes
      <3>4. QED BY <3>2, <3>3
    <2>3. skip' \in [Eds -> 0 .. 1]
      BY DEF EdTypes
    <2>4. QED BY <2>1, <2>2, <2>3 DEF EdTypes
  <1>4. SUFFICES ASSUME Alive' PROVE Removal'
    BY <1>3 DEF Kept
  <1>5. "URB_DEL" \notin state[e]
    BY <1>1, <1>4 DEF Alive
  <1>6. ~ Pending(e)
    BY <1>5, PendingMeaning
  <1>7. \A x \in Eds : RmListed(x)' <=> RmListed(x)
    BY DEF RmListed
  <1>8. \A x \in Eds : Pending(x)' <=> Pending(x)
    <2>1. \A x \in Eds \ {e} : state'[x] = state[x]
      BY <1>1 DEF EdTypes
    <2>2. e \in Eds => ~ Pending(e)'
      BY <1>1 DEF EdTypes, Pending
    <2>3. QED BY <1>6, <2>1, <2>2 DEF Pending
  <1>9. \A x \in Eds : RmListed(x) => x # e /\ skip[x] = 1
    BY <1>6 DEF Removal, Marked
  <1>10. \A x \in Eds : RmListed(x) => skip'[x] = 1
    BY <1>9 DEF EdTypes
  <1>11. Marked'
    BY <1>7, <1>8, <1>10 DEF Removal, Marked
  <1>12. Armed' /\ Cold'
    BY <1>7 DEF Removal, Armed, Cold
  <1>13. Chained'
    <2>1. e \in Eds => state[e] \subseteq {"UNLINK", "OPER"}
      BY <1>5 DEF EdTypes, Bits
    <2>2. e \in Eds => linked[e] + NewLinks(e) = 1
      <3>1. CASE e \in Eds /\ "OPER" \in state[e]
        <4>1. state[e] = {"OPER"} /\ linked[e] = 1
          BY <2>1, <3>1 DEF Removal, Chained
        <4>2. QED BY <4>1 DEF NewLinks
      <3>2. CASE e \in Eds /\ "OPER" \notin state[e]
        BY <3>2 DEF Removal, Chained, NewLinks
      <3>3. QED BY <3>1, <3>2
    <2>3. QED BY <1>1, <2>2 DEF EdTypes, Removal, Chained
  <1>14. QED BY <1>11, <1>12, <1>13 DEF Removal

(* dl_del_list for the list the controller is done with: requests are      *)
(* carried out, an ED of a freed device is forgotten, another one runs     *)
(* again.  A chained ED that is forgotten is a fault.                      *)
LEMMA DeleteKeeps ==
  ASSUME EdTypes, Removal, NEW f \in Frames, DlDelList(f),
         f = 1 - frame, frame' = frame,
         sf_on' \in 0 .. 1, Spins' \/ (ed_rm_list[frame] # {} => sf_on' = 1)
  PROVE EdTypes' /\ Kept
  <1> DEFINE S == ed_rm_list[f]
             Freed == {e \in S : "DEL" \in state[e]}
  <1>1. /\ state' = [e \in Eds |-> IF e \in S THEN RequestDone(e) ELSE state[e]]
        /\ skip' = [e \in Eds |-> IF e \in S
                                  THEN IF e \in Freed THEN 1 ELSE 0 ELSE skip[e]]
        /\ ed_rm_list' = [ed_rm_list EXCEPT ![f] = {}]
        /\ linked' = linked /\ hot' = hot
    BY DEF DlDelList
  <1>2. (\E e \in Freed : linked[e] > 0) => ~ Alive'
    BY DEF DlDelList, Alive
  <1>3. S \subseteq Eds
    BY DEF EdTypes
  <1>4. ed_rm_list' \in [Frames -> SUBSET Eds]
    BY <1>1 DEF EdTypes
  <1>5. \A x \in Eds : RequestDone(x) \in SUBSET Bits
    BY DEF EdTypes, RequestDone
  <1>6. state' \in [Eds -> SUBSET Bits] /\ skip' \in [Eds -> 0 .. 1]
    BY <1>1, <1>5 DEF EdTypes
  <1>7. EdTypes'
    BY <1>1, <1>4, <1>6 DEF EdTypes
  <1>8. SUFFICES ASSUME Alive' PROVE Removal'
    BY <1>7 DEF Kept
  <1>9. \A x \in Freed : linked[x] = 0
    BY <1>2, <1>3, <1>8 DEF EdTypes
  <1>10. \A x \in Eds : RmListed(x)' <=> RmListed(x) /\ x \notin S
    <2>1. \A x \in Eds : x \in S => RmListed(x)
      BY DEF RmListed
    <2>2. \A x \in Eds : x \in S => ~ RmListed(x)'
      <3> SUFFICES ASSUME NEW x \in Eds, x \in S, NEW g \in Frames, x \in ed_rm_list'[g]
                   PROVE FALSE
        BY DEF RmListed
      <3>1. g # f /\ x \in ed_rm_list[g]
        BY <1>1 DEF EdTypes
      <3>2. \/ f = 0 /\ g = 1
            \/ f = 1 /\ g = 0
        BY <3>1 DEF Frames
      <3>3. x \in ed_rm_list[0] \cap ed_rm_list[1]
        BY <3>1, <3>2
      <3>4. QED BY <3>3 DEF Removal, Marked
    <2>3. \A x \in Eds : x \notin S => (RmListed(x)' <=> RmListed(x))
      BY <1>1 DEF RmListed, EdTypes
    <2>4. QED BY <2>1, <2>2, <2>3
  <1>11. \A x \in Eds : Pending(x)' <=> Pending(x) /\ x \notin S
    <2>1. \A x \in S : RequestDone(x) \cap {"DEL", "URB_DEL"} = {}
      BY DEF RequestDone
    <2>2. QED BY <1>1, <1>3, <2>1 DEF Pending
  <1>12. Marked'
    <2> SUFFICES ASSUME NEW x \in Eds
                 PROVE /\ RmListed(x)' <=> Pending(x)'
                       /\ RmListed(x)' => skip'[x] = 1
                       /\ x \notin ed_rm_list'[0] \cap ed_rm_list'[1]
      BY DEF Marked
    <2>1. RmListed(x)' <=> Pending(x)'
      BY <1>10, <1>11 DEF Removal, Marked
    <2>2. RmListed(x)' => skip'[x] = 1
      BY <1>1, <1>10 DEF Removal, Marked
    <2>3. ed_rm_list'[0] \cap ed_rm_list'[1] = {}
      BY <1>1 DEF EdTypes, Frames
    <2>4. QED BY <2>1, <2>2, <2>3
  <1>13. Armed'
    <2>1. \A g \in Frames : g = f \/ g = frame
      BY DEF Frames, EdTypes
    <2>2. \A x \in Eds : RmListed(x)' => ed_rm_list[frame] # {}
      BY <1>10, <2>1 DEF RmListed
    <2>3. QED BY <2>2 DEF Armed
  <1>14. Cold'
    <2>1. ed_rm_list'[1 - frame] \subseteq ed_rm_list[1 - frame]
      BY <1>1 DEF EdTypes, Frames
    <2>2. QED BY <1>1, <2>1 DEF Removal, Cold
  <1>15. Chained'
    <2> SUFFICES ASSUME NEW x \in Eds
                 PROVE /\ "OPER" \in state'[x] => "UNLINK" \notin state'[x]
                       /\ "DEL" \notin state'[x] =>
                             linked'[x] = IF "OPER" \in state'[x] THEN 1 ELSE 0
      BY DEF Chained
    <2>1. CASE x \notin S
      BY <1>1, <2>1 DEF Removal, Chained
    <2>2. CASE x \in Freed
      <3>1. state'[x] = {} /\ linked'[x] = 0
        BY <1>1, <1>9, <2>2 DEF RequestDone
      <3>2. QED BY <3>1
    <2>3. CASE x \in S \ Freed
      <3>1. state'[x] = state[x] \ {"URB_DEL"} /\ "DEL" \notin state[x]
        BY <1>1, <2>3 DEF RequestDone
      <3>2. QED BY <1>1, <3>1 DEF Removal, Chained
    <2>4. QED BY <2>1, <2>2, <2>3
  <1>16. QED BY <1>12, <1>13, <1>14, <1>15 DEF Removal

(* A step that only sets whether the SF interrupt is enabled.              *)
LEMMA SfKeeps ==
  ASSUME EdTypes, Removal, sf_on' \in 0 .. 1,
         Spins' \/ \A e \in Eds : RmListed(e) => sf_on' = 1,
         UNCHANGED <<state, skip, linked, hot, ed_rm_list, frame>>
  PROVE EdTypes' /\ Kept
  BY DEF EdTypes, Removal, Kept, Marked, Armed, Cold, Chained, RmListed, Pending

-----------------------------------------------------------------------------
(* The steps.                                                              *)

(* Only a waiting handler has the SF interrupt off.                        *)
LEMMA OnlySpinSpins ==
  /\ Spins /\ Irq => SpinFrame \/ SpinEnd
  /\ \A p : Proc(p) => ~ Spins
  /\ UNCHANGED irqVars => (Spins' <=> Spins)
  <1>1. Spins /\ Irq => SpinFrame \/ SpinEnd
    BY DEF Spins, Irq, IrqEnter, DoneTd, DoneDeleted, DoneLast, DoneStep, DoneOrphan,
       CompleteOnly, CompleteSubmit, CompleteSubmitFails, CompleteDrop,
       CompleteUnlink, SpinBegin, AfterComplete, AfterDropped, IrqEnd
  <1>2. ASSUME NEW p, Proc(p) PROVE ~ Spins
    <2>1. Runs(p)
      BY <1>2 DEF Proc, SubmitBegin, SubmitSetUp, SubmitTwice, SubmitAlloc,
         SubmitFails, SubmitLink, UnlinkBegin, UnlinkStale, UnlinkMark, UnlinkRequest,
         UnlinkAsync, UnlinkEnd, FreeDev, FreeWait, FreeEnd, Goto
    <2>2. QED BY <2>1 DEF Runs, Spins
  <1>3. UNCHANGED irqVars => (Spins' <=> Spins)
    BY DEF irqVars, Spins
  <1>4. QED BY <1>1, <1>2, <1>3

(* The controller.                                                         *)
LEMMA ControllerKeeps ==
  ASSUME EdTypes, Removal, Frame \/ \E e \in Eds : HcRetire(e)
  PROVE EdTypes' /\ Kept
  <1>0. Spins => Spins'
    BY OnlySpinSpins DEF Frame, HcRetire
  <1>1. CASE Frame
    <2>1. /\ frame' = 1 - frame /\ hot' = [e \in Eds |-> 0]
          /\ UNCHANGED <<state, skip, linked, ed_rm_list, sf_on>>
      BY <1>1 DEF Frame
    <2>2. QED BY <1>0, <2>1, FrameKeeps
  <1>2. ASSUME NEW e \in Eds, HcRetire(e) PROVE EdTypes' /\ Kept
    <2>1. UNCHANGED rmVars
      BY <1>2 DEF HcRetire, rmVars
    <2>2. QED BY <1>0, <2>1, IdleKeeps
  <1>3. QED BY <1>1, <1>2

(* The interrupt handler.                                                  *)
LEMMA IrqKeeps ==
  ASSUME EdTypes, Removal, Irq
  PROVE EdTypes' /\ Kept
  <1>0. /\ IrqEnter \/ DoneTd \/ DoneDeleted \/ DoneLast \/ DoneOrphan => ~ Spins
        /\ CompleteOnly \/ CompleteSubmit \/ CompleteSubmitFails => ~ Spins
        /\ CompleteDrop \/ CompleteUnlink \/ AfterComplete => ~ Spins
        /\ AfterDropped \/ IrqEnd => ~ Spins
    BY DEF Spins, IrqEnter, DoneTd, DoneDeleted, DoneLast, DoneStep, DoneOrphan,
       CompleteOnly, CompleteSubmit, CompleteSubmitFails, CompleteDrop,
       CompleteUnlink, AfterComplete, AfterDropped, IrqEnd
  <1>1. CASE IrqEnter
    <2>1. UNCHANGED rmVars
      BY <1>1 DEF IrqEnter, rmVars
    <2>2. QED BY <1>0, <1>1, <2>1, IdleKeeps
  <1>2. CASE DoneTd \/ DoneDeleted
    <2>1. UnlinkIdle(EdOf[DoneUrb]) /\ UNCHANGED <<ed_rm_list, frame, sf_on>>
      BY <1>2 DEF DoneTd, DoneDeleted, DoneStep, hcVars
    <2>2. QED BY <1>0, <1>2, <2>1, UnlinkIdleKeeps
  <1>3. CASE DoneLast
    <2>1. UNCHANGED rmVars
      BY <1>3 DEF DoneLast, DoneStep, hcVars, edVars, rmVars
    <2>2. QED BY <1>0, <1>3, <2>1, IdleKeeps
  <1>4. CASE DoneOrphan \/ AfterDropped
    <2>1. UNCHANGED rmVars
      BY <1>4 DEF DoneOrphan, AfterDropped, Fails, hcVars, edVars, rmVars
    <2>2. QED BY <1>0, <1>4, <2>1, IdleKeeps
  <1>5. CASE CompleteOnly \/ CompleteDrop
    <2>1. UNCHANGED rmVars
      BY <1>5 DEF CompleteOnly, CompleteDrop, hcVars, edVars, rmVars
    <2>2. QED BY <1>0, <1>5, <2>1, IdleKeeps
  <1>6. CASE CompleteSubmit
    <2>1. PICK u \in Urbs :
            /\ ~ Pending(EdOf[u])
            /\ EpLink(EdOf[u])
            /\ skip' = [skip EXCEPT ![EdOf[u]] = 0]
      BY <1>6 DEF CompleteSubmit, LinkAndQueue
    <2>2. UNCHANGED <<hot, ed_rm_list, frame, sf_on>>
      BY <1>6 DEF CompleteSubmit, hcVars
    <2>3. "DEL" \notin state[EdOf[u]]
      BY <2>1, PendingMeaning
    <2>4. QED BY <1>0, <1>6, <2>1, <2>2, <2>3, LinkKeeps
  <1>7. CASE CompleteSubmitFails
    <2>1. PICK u \in Urbs : /\ ~ Pending(EdOf[u])
                            /\ EpAddEd(EdOf[u]) \/ SkipNew(EdOf[u])
      BY <1>7 DEF CompleteSubmitFails
    <2>2. UNCHANGED <<ed_rm_list, frame, sf_on>>
      BY <1>7 DEF CompleteSubmitFails, hcVars
    <2>3. QED BY <1>0, <1>7, <2>1, <2>2, AddKeeps, SkipKeeps
  <1>8. CASE CompleteUnlink
    <2>1. PICK u \in Urbs : RequestUrbDel(EdOf[u])
      BY <1>8 DEF CompleteUnlink
    <2>2. frame' = frame
      BY <1>8 DEF CompleteUnlink
    <2>3. EdOf[u] \in Eds
      BY ConfigAssumption
    <2>4. QED BY <1>0, <1>8, <2>1, <2>2, <2>3, RequestKeeps
  <1>9. CASE SpinFrame
    <2>0. Spins /\ Spins'
      <3>1. /\ irq = "spin" /\ spin.off = 1 /\ irq' = irq
            /\ spin' = [spin EXCEPT !.prev = frame, !.count = @ + 1]
        BY <1>9 DEF SpinFrame
      <3>2. spin'.off = spin.off
        BY <3>1
      <3>3. QED BY <3>1, <3>2 DEF Spins
    <2>1. frame' = frame /\ sf_on' = sf_on /\ sf_on' \in 0 .. 1 /\ 1 - frame \in Frames
      BY <1>9 DEF SpinFrame, hcVars, EdTypes, Frames
    <2>2. CASE DlDelList(1 - frame)
      BY <2>0, <2>1, <2>2, DeleteKeeps
    <2>3. CASE NothingDeleted
      <3>1. UNCHANGED rmVars
        BY <2>1, <2>3 DEF NothingDeleted, edVars, rmVars
      <3>2. QED BY <2>0, <3>1, IdleKeeps
    <2>4. DlDelList(1 - frame) \/ NothingDeleted
      BY <1>9 DEF SpinFrame
    <2>5. QED BY <2>2, <2>3, <2>4
  <1>10. CASE SpinEnd
    <2>1. UNCHANGED <<state, skip, linked, hot, ed_rm_list, frame>> /\ sf_on' = 1
      BY <1>10 DEF SpinEnd, edVars
    <2>2. QED BY <2>1, SfKeeps
  <1>11. CASE AfterComplete
    <2>1. UNCHANGED <<ed_rm_list, frame, sf_on>>
      BY <1>11 DEF AfterComplete, hcVars
    <2>2. CASE UnlinkIdle(EdOf[cur])
      BY <1>0, <1>11, <2>1, <2>2, UnlinkIdleKeeps
    <2>3. CASE UNCHANGED <<state, skip, linked, hot>>
      <3>1. UNCHANGED rmVars
        BY <2>1, <2>3 DEF rmVars
      <3>2. QED BY <1>0, <1>11, <3>1, IdleKeeps
    <2>4. UnlinkIdle(EdOf[cur]) \/ UNCHANGED <<state, skip, linked, hot>>
      BY <1>11 DEF AfterComplete
    <2>5. QED BY <2>2, <2>3, <2>4
  <1>12. CASE IrqEnd
    <2>1. frame' = frame /\ 1 - frame \in Frames /\ frame \in Frames
          /\ 1 - (1 - frame) = frame
      BY <1>12 DEF IrqEnd, EdTypes, Frames
    <2>2. CASE "SF" \in ints
      <3>1. sf_on' = IF ed_rm_list[frame] # {} THEN 1 ELSE 0
        BY <1>12, <2>1, <2>2 DEF IrqEnd, Rearm, DelFrame
      <3>2. CASE ed_rm_list[1 - frame] # {}
        <4>1. DlDelList(1 - frame)
          BY <1>12, <2>2, <3>2 DEF IrqEnd, DelFrame
        <4>2. QED BY <1>0, <1>12, <2>1, <3>1, <4>1, DeleteKeeps
      <3>3. CASE ed_rm_list[1 - frame] = {}
        <4>1. UNCHANGED <<state, skip, linked, hot, ed_rm_list, frame>>
          BY <1>12, <2>1, <2>2, <3>3 DEF IrqEnd, DelFrame, NothingDeleted, edVars
        <4>2. \A g \in Frames : g = frame \/ g = 1 - frame
          BY <2>1 DEF Frames
        <4>3. \A e \in Eds : RmListed(e) => ed_rm_list[frame] # {}
          BY <3>3, <4>2 DEF RmListed
        <4>4. QED BY <1>0, <1>12, <3>1, <4>1, <4>3, SfKeeps
      <3>4. QED BY <3>2, <3>3
    <2>3. CASE "SF" \notin ints
      <3>1. UNCHANGED rmVars
        BY <1>12, <2>1, <2>3 DEF IrqEnd, NothingDeleted, edVars, rmVars
      <3>2. QED BY <1>0, <1>12, <3>1, IdleKeeps
    <2>4. QED BY <2>2, <2>3
  <1>13. CASE SpinBegin
    <2>1. UNCHANGED <<state, skip, linked, hot, ed_rm_list, frame>> /\ sf_on' = 0
      BY <1>13 DEF SpinBegin, edVars
    <2>2. Spins'
      <3>1. irq' = "spin" /\ spin' = [spin EXCEPT !.off = 1, !.prev = frame]
        BY <1>13 DEF SpinBegin
      <3>2. QED BY <3>1 DEF Spins
    <2>3. QED BY <2>1, <2>2, SfKeeps
  <1>14. QED
    BY <1>1, <1>2, <1>3, <1>4, <1>5, <1>6, <1>7, <1>8, <1>9, <1>10, <1>11, <1>12, <1>13
    DEF Irq

(* The processes; one that unlinks has an urb in its hands.                *)
LEMMA ProcKeeps ==
  ASSUME EdTypes, Removal, NEW p \in Procs,
         pc[p] = "request" => target[p] \in Urbs,
         Proc(p)
  PROVE EdTypes' /\ Kept
  <1>0. ~ Spins
    BY OnlySpinSpins
  <1>1. CASE SubmitBegin(p)
    <2>1. PICK u \in Urbs : /\ ~ Pending(EdOf[u])
                            /\ EpAddEd(EdOf[u]) \/ SkipNew(EdOf[u])
      BY <1>1 DEF SubmitBegin
    <2>2. UNCHANGED <<ed_rm_list, frame, sf_on>>
      BY <1>1 DEF SubmitBegin, hcVars
    <2>3. QED BY <1>0, <2>1, <2>2, AddKeeps, SkipKeeps
  <1>2. CASE SubmitLink(p)
    <2>1. UNCHANGED <<ed_rm_list, frame, sf_on>>
      BY <1>2 DEF SubmitLink, hcVars
    <2>2. CASE UNCHANGED edVars
      <3>1. UNCHANGED rmVars
        BY <2>1, <2>2 DEF edVars, rmVars
      <3>2. QED BY <1>0, <3>1, IdleKeeps
    <2>3. CASE /\ "DEL" \notin state[EdOf[target[p]]]
               /\ EpLink(EdOf[target[p]])
               /\ UNCHANGED <<skip, hot>>
      BY <1>0, <2>1, <2>3, LinkKeeps
    <2>4. \/ UNCHANGED edVars
          \/ /\ "DEL" \notin state[EdOf[target[p]]]
             /\ EpLink(EdOf[target[p]])
             /\ UNCHANGED <<skip, hot>>
      BY <1>2 DEF SubmitLink, LinkAndQueue
    <2>5. QED BY <2>2, <2>3, <2>4
  <1>3. CASE UnlinkRequest(p)
    <2>1. RequestUrbDel(EdOf[target[p]]) /\ frame' = frame /\ pc[p] = "request"
      BY <1>3 DEF UnlinkRequest
    <2>2. EdOf[target[p]] \in Eds
      BY <2>1, ConfigAssumption
    <2>3. QED BY <1>0, <2>1, <2>2, RequestKeeps
  <1>4. CASE FreeDev(p)
    <2>1. /\ EpRmEd(Used) /\ frame' = frame
          /\ state' = [e \in Eds |-> IF e \in Used THEN {"DEL"} ELSE state[e]]
          /\ linked' = [e \in Eds |-> IF e \in Operational THEN linked[e] - 1
                                                           ELSE linked[e]]
      BY <1>4 DEF FreeDev
    <2>2. QED BY <1>0, <2>1, FreeKeeps
  <1>5. CASE SubmitAlloc(p) \/ SubmitFails(p)
    <2>1. UNCHANGED rmVars
      BY <1>5 DEF SubmitAlloc, SubmitFails, hcVars, edVars, rmVars
    <2>2. QED BY <1>0, <2>1, IdleKeeps
  <1>6. CASE UnlinkBegin(p) \/ UnlinkStale(p) \/ UnlinkMark(p)
    <2>1. UNCHANGED rmVars
      BY <1>6 DEF UnlinkBegin, UnlinkStale, UnlinkMark, Fails, hcVars, edVars, rmVars
    <2>2. QED BY <1>0, <2>1, IdleKeeps
  <1>7. CASE UnlinkAsync(p) \/ UnlinkEnd(p)
    <2>1. UNCHANGED rmVars
      BY <1>7 DEF UnlinkAsync, UnlinkEnd, hcVars, edVars, rmVars
    <2>2. QED BY <1>0, <2>1, IdleKeeps
  <1>8. CASE FreeWait(p) \/ FreeEnd(p)
    <2>1. UNCHANGED rmVars
      BY <1>8 DEF FreeWait, FreeEnd, hcVars, edVars, rmVars
    <2>2. QED BY <1>0, <2>1, IdleKeeps
  <1>9. CASE SubmitSetUp(p)
    <2>1. /\ ~ InUse(EdOf[target[p]]) /\ SetUp(EdOf[target[p]])
          /\ UNCHANGED <<linked, hot, ed_rm_list, frame, sf_on>>
      BY <1>9 DEF SubmitSetUp, hcVars
    <2>2. QED BY <1>0, <2>1, SetUpKeeps
  <1>10. CASE SubmitTwice(p)
    <2>1. UNCHANGED rmVars
      BY <1>10 DEF SubmitTwice, Fails, hcVars, edVars, rmVars
    <2>2. QED BY <1>0, <2>1, IdleKeeps
  <1>11. QED
    BY <1>1, <1>2, <1>3, <1>4, <1>5, <1>6, <1>7, <1>8, <1>9, <1>10 DEF Proc

(* Where the processes are and whose urb they hold.                        *)
AimTypes == pc \in [Procs -> Places] /\ target \in [Procs -> Urbs \cup {NoUrb}]

(* A process moves on and takes, keeps or releases an urb.                 *)
LEMMA AimMove ==
  ASSUME AimTypes, Aimed, NEW p \in Procs,
         NEW to \in Places, pc' = [pc EXCEPT ![p] = to],
         NEW u \in Urbs \cup {NoUrb}, target' = [target EXCEPT ![p] = u],
         to \in {"mark", "request"} => u \in Urbs
  PROVE AimTypes' /\ Aimed'
  BY DEF AimTypes, Aimed

(* A process moves on with the urb it has.                                 *)
LEMMA AimStay ==
  ASSUME AimTypes, Aimed, NEW p \in Procs,
         NEW to \in Places, pc' = [pc EXCEPT ![p] = to], target' = target,
         to \in {"mark", "request"} => pc[p] = "mark"
  PROVE AimTypes' /\ Aimed'
  BY DEF AimTypes, Aimed

(* Whoever marks or requests holds an urb, whatever the step.              *)
LEMMA AimKeeps ==
  ASSUME AimTypes, Aimed, NEW p \in Procs, Proc(p)
  PROVE AimTypes' /\ Aimed'
  <1> USE DEF Goto, Take, Release
  <1>1. /\ "idle" \in Places /\ "add" \in Places /\ "alloc" \in Places /\ "link" \in Places
        /\ "mark" \in Places /\ "request" \in Places /\ "async" \in Places
        /\ "sleep" \in Places /\ "freeing" \in Places /\ "freewait" \in Places
    BY DEF Places
  <1>2. CASE SubmitBegin(p)
    <2>1. /\ \E to \in {"add", "alloc"} : pc' = [pc EXCEPT ![p] = to]
          /\ \E u \in Urbs : target' = [target EXCEPT ![p] = u]
      BY <1>2 DEF SubmitBegin
    <2>2. QED BY <1>1, <2>1, AimMove
  <1>3. CASE UnlinkBegin(p)
    <2>1. pc' = [pc EXCEPT ![p] = "mark"]
          /\ \E u \in Urbs : target' = [target EXCEPT ![p] = u]
      BY <1>3 DEF UnlinkBegin
    <2>2. QED BY <1>1, <2>1, AimMove
  <1>4. CASE SubmitFails(p) \/ SubmitLink(p) \/ UnlinkAsync(p) \/ UnlinkEnd(p)
    <2>1. pc' = [pc EXCEPT ![p] = "idle"] /\ target' = [target EXCEPT ![p] = NoUrb]
      BY <1>4 DEF SubmitFails, SubmitLink, UnlinkAsync, UnlinkEnd
    <2>2. QED BY <1>1, <2>1, AimMove
  <1>5. CASE SubmitSetUp(p) \/ SubmitAlloc(p)
    <2>1. (\E to \in {"alloc", "link"} : pc' = [pc EXCEPT ![p] = to]) /\ target' = target
      BY <1>5 DEF SubmitSetUp, SubmitAlloc
    <2>2. QED BY <1>1, <2>1, AimStay
  <1>6. CASE UnlinkMark(p)
    <2>1. pc' = [pc EXCEPT ![p] = "request"] /\ target' = target /\ pc[p] = "mark"
      BY <1>6 DEF UnlinkMark
    <2>2. QED BY <1>1, <2>1, AimStay
  <1>7. CASE UnlinkRequest(p)
    <2>1. \E to \in {"async", "idle", "sleep"} : pc' = [pc EXCEPT ![p] = to]
      BY <1>7 DEF UnlinkRequest
    <2>2. target' = [target EXCEPT ![p] = NoUrb] \/ target' = target
      BY <1>7 DEF UnlinkRequest
    <2>3. QED BY <1>1, <2>1, <2>2, AimMove, AimStay
  <1>8. CASE FreeDev(p) \/ FreeWait(p) \/ FreeEnd(p)
    <2>1. \E to \in {"freeing", "freewait", "idle"} : pc' = [pc EXCEPT ![p] = to]
      BY <1>8 DEF FreeDev, FreeWait, FreeEnd
    <2>2. target' = target
      BY <1>8 DEF FreeDev, FreeWait, FreeEnd
    <2>3. QED BY <1>1, <2>1, <2>2, AimStay
  <1>9. CASE UnlinkStale(p) \/ SubmitTwice(p)
    <2>1. pc' = pc /\ target' = target
      BY <1>9 DEF UnlinkStale, SubmitTwice, Fails, procVars
    <2>2. QED BY <2>1 DEF AimTypes, Aimed
  <1>10. QED
    BY <1>2, <1>3, <1>4, <1>5, <1>6, <1>7, <1>8, <1>9 DEF Proc

(* Nobody else moves a process.                                            *)
LEMMA OthersKeepAim ==
  ASSUME Irq \/ Frame \/ (\E e \in Eds : HcRetire(e)) \/ SubmitShutdown \/ UnlinkDrop
  PROVE UNCHANGED procVars
  <1>1. CASE Frame \/ (\E e \in Eds : HcRetire(e)) \/ SubmitShutdown \/ UnlinkDrop
    BY <1>1 DEF Frame, HcRetire, SubmitShutdown, UnlinkDrop
  <1>2. CASE IrqEnter \/ IrqEnd \/ SpinBegin \/ SpinFrame \/ SpinEnd
    BY <1>2 DEF IrqEnter, IrqEnd, SpinBegin, SpinFrame, SpinEnd
  <1>3. CASE DoneTd \/ DoneDeleted \/ DoneLast \/ DoneOrphan
    BY <1>3 DEF DoneTd, DoneDeleted, DoneLast, DoneOrphan, DoneStep, Fails
  <1>4. CASE CompleteOnly \/ CompleteSubmit \/ CompleteSubmitFails
    BY <1>4 DEF CompleteOnly, CompleteSubmit, CompleteSubmitFails
  <1>5. CASE CompleteDrop \/ CompleteUnlink \/ AfterComplete \/ AfterDropped
    BY <1>5 DEF CompleteDrop, CompleteUnlink, AfterComplete, AfterDropped, Fails
  <1>6. QED BY <1>1, <1>2, <1>3, <1>4, <1>5 DEF Irq

(* Nothing happens after a fault.                                          *)
LEMMA StepAlive == Next => Alive
  <1>1. (\E e \in Eds : HcRetire(e)) \/ Frame => Alive
    BY DEF HcRetire, Frame
  <1>2. Irq => Alive
    BY DEF Irq, IrqEnter, DoneTd, DoneDeleted, DoneLast, DoneStep, DoneOrphan,
       CompleteOnly, CompleteSubmit, CompleteSubmitFails, CompleteDrop,
       CompleteUnlink, SpinBegin, SpinFrame, SpinEnd, AfterComplete, AfterDropped,
       IrqEnd
  <1>3. SubmitShutdown \/ UnlinkDrop => Alive
    BY DEF SubmitShutdown, UnlinkDrop, Runs
  <1>4. (\E p \in Procs : Proc(p)) => Alive
    BY DEF Proc, SubmitBegin, SubmitSetUp, SubmitTwice, SubmitAlloc, SubmitFails,
       SubmitLink, UnlinkBegin, UnlinkStale, UnlinkMark, UnlinkRequest, UnlinkAsync,
       UnlinkEnd, FreeDev,
       FreeWait, FreeEnd, Goto, Runs
  <1>5. QED BY <1>1, <1>2, <1>3, <1>4 DEF Next

-----------------------------------------------------------------------------
(* The theorems.                                                           *)

(* The invariant holds at first ...                                        *)
LEMMA RemovalInit == Init => RemovalInv
  <1> SUFFICES ASSUME Init PROVE RemovalInv
    OBVIOUS
  <1> USE DEF Init
  <1>1. RemovalType
    BY DEF RemovalType, Bits, Frames, Places
  <1>2. Marked /\ Armed /\ Cold
    BY DEF Marked, Armed, Cold, RmListed, Pending, Frames
  <1>3. Chained /\ Aimed
    BY DEF Chained, Aimed
  <1>4. QED BY <1>1, <1>2, <1>3 DEF RemovalInv

(* ... and every step keeps it.                                            *)
LEMMA RemovalStep == RemovalInv /\ [Next]_vars => RemovalInv'
  <1> SUFFICES ASSUME RemovalInv, [Next]_vars PROVE RemovalInv'
    OBVIOUS
  <1>1. EdTypes /\ AimTypes
    BY DEF RemovalInv, RemovalType, EdTypes, AimTypes
  <1>2. CASE UNCHANGED vars
    <2>1. UNCHANGED <<state, skip, linked, hot, ed_rm_list, frame, sf_on, irq, spin,
                      pc, target, fault>>
      BY <1>2 DEF vars, edVars, hcVars, irqVars, procVars
    <2>2. RemovalType'
      BY <2>1 DEF RemovalInv, RemovalType
    <2>3. Alive' => Marked' /\ Armed' /\ Cold' /\ Chained' /\ Aimed'
      BY <2>1 DEF RemovalInv, Alive, Marked, Armed, Spins, Cold, Chained, Aimed,
         RmListed, Pending
    <2>4. QED BY <2>2, <2>3 DEF RemovalInv
  <1>3. CASE Next
    <2>1. Removal /\ Aimed
      BY <1>3, StepAlive DEF RemovalInv, Removal
    <2>2. EdTypes' /\ Kept /\ AimTypes' /\ Aimed'
      <3>1. CASE Irq \/ Frame \/ (\E e \in Eds : HcRetire(e))
        <4>1. EdTypes' /\ Kept
          BY <1>1, <2>1, <3>1, IrqKeeps, ControllerKeeps
        <4>2. UNCHANGED procVars
          BY <3>1, OthersKeepAim
        <4>3. QED BY <1>1, <2>1, <4>1, <4>2 DEF procVars, AimTypes, Aimed
      <3>2. CASE SubmitShutdown \/ UnlinkDrop
        <4>1. UNCHANGED rmVars
          BY <3>2 DEF SubmitShutdown, UnlinkDrop, edVars, hcVars, rmVars
        <4>2. UNCHANGED procVars
          BY <3>2, OthersKeepAim
        <4>3. UNCHANGED irqVars
          BY <3>2 DEF SubmitShutdown, UnlinkDrop
        <4>4. EdTypes' /\ Kept
          BY <1>1, <2>1, <4>1, <4>3, IdleKeeps, OnlySpinSpins
        <4>5. QED BY <1>1, <2>1, <4>2, <4>4 DEF procVars, AimTypes, Aimed
      <3>3. ASSUME NEW p \in Procs, Proc(p)
            PROVE EdTypes' /\ Kept /\ AimTypes' /\ Aimed'
        <4>1. pc[p] = "request" => target[p] \in Urbs
          BY <2>1 DEF Aimed
        <4>2. QED BY <1>1, <2>1, <3>3, <4>1, ProcKeeps, AimKeeps
      <3>4. QED BY <1>3, <3>1, <3>2, <3>3 DEF Next
    <2>3. RemovalType'
      BY <2>2 DEF RemovalType, EdTypes, AimTypes
    <2>4. QED BY <2>2, <2>3 DEF RemovalInv, Kept, Removal
  <1>4. QED BY <1>2, <1>3

(* The EDs, the removal lists, the SF interrupt and the chains stay        *)
(* together under every interleaving of processes, handler and controller. *)
THEOREM RemovalInvariance == Spec => []RemovalInv
  BY RemovalInit, RemovalStep, PTL DEF Spec

(* An ED has a delete request exactly while it is on one removal list, and *)
(* is skipped then (ep_rm_ed, dl_del_list).                                *)
THEOREM RemovalsAreMarked == Spec => []RemovalMarked
  <1>1. RemovalInv => RemovalMarked
    BY DEF RemovalInv, RemovalMarked, Marked
  <1>2. QED BY <1>1, RemovalInvariance, PTL

(* As long as a list waits the SF interrupt is enabled (hc_interrupt).     *)
THEOREM RemovalsAreArmed == Spec => []RemovalArmed
  <1>1. RemovalInv => RemovalArmed
    BY DEF RemovalInv, RemovalArmed, Armed, Spins
  <1>2. QED BY <1>1, RemovalInvariance, PTL

(* What dl_del_list may delete the controller does not work on.            *)
THEOREM DeletionFindsIdle == Spec => []DeletedWhenIdle
  <1>1. RemovalInv => DeletedWhenIdle
    <2> SUFFICES ASSUME RemovalInv, Alive, NEW e \in ed_rm_list[1 - frame]
                 PROVE ~ Serves(e)
      BY DEF DeletedWhenIdle
    <2>1. 1 - frame \in Frames
      BY DEF RemovalInv, RemovalType, Frames
    <2>2. e \in Eds /\ RmListed(e)
      BY <2>1 DEF RemovalInv, RemovalType, RmListed
    <2>3. skip[e] = 1 /\ hot[e] = 0
      BY <2>2 DEF RemovalInv, Marked, Cold
    <2>4. QED BY <2>3 DEF Serves
  <1>2. QED BY <1>1, RemovalInvariance, PTL

(* An ED is in a chain, once, exactly when it is operational (ep_link,     *)
(* ep_unlink), until the device is freed.                                  *)
THEOREM ChainedWhenOperational == Spec => []LinkedIsOper
  <1>1. RemovalInv => LinkedIsOper
    BY DEF RemovalInv, LinkedIsOper, Chained
  <1>2. QED BY <1>1, RemovalInvariance, PTL
=============================================================================
