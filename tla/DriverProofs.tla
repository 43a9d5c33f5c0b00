---------------------------- MODULE DriverProofs ----------------------------
(* Safety of the controller's life, for any number of ports, and of that   *)
(* together with the /proc interface, for any number of devices, settings  *)
(* and writing processes as well.                                          *)
EXTENDS Driver, FiniteSetTheorems, TLAPS

-----------------------------------------------------------------------------
(* The inductive invariant of the life of the controller.                  *)

(* Which steps each of the three functions goes through.                   *)
Paths ==
  /\ job = "none" <=> pc = "none"
  /\ pc \in {"free", "hangs"} => job = "release"
  /\ pc = "register" => job = "found"
  /\ pc \in {"start", "new_device"} => job \in {"found", "resume"}

(* What is held on the way: power events come only to a controller that    *)
(* was started, and a start runs only with its interrupt handler.          *)
Holding ==
  /\ pc \notin {"none", "hangs"} => mem
  /\ registered \/ irq \/ dumper => mem
  /\ pm => irq
  /\ job \in {"found", "release"} => ~ pm
  /\ job = "found" => ~ dumper
  /\ job = "resume" => pm
  /\ pc \in {"start", "new_device"} => irq

(* The hub driver uses a root hub that is there, and is gone before the    *)
(* controller is reset.                                                    *)
HubInv ==
  /\ send \/ timer => bound
  /\ bound => root_hub = "live" /\ pc \in {"none", "disconnect"}
  /\ root_hub # "NULL" => mem
  /\ pc \in {"reset", "register", "start", "free"} => root_hub = "NULL"
  /\ pc = "new_device" => root_hub = "live"

(* Interrupts are enabled by hc_start alone, when the controller is the    *)
(* driver's; so the firmware cannot take it back in a later reset, which   *)
(* disables them.                                                          *)
MasterInv ==
  /\ MIE => irq /\ ~ IR
  /\ pc \in {"register", "start", "free"} => ~ MIE
  /\ pc \in {"register", "start", "new_device"} => ~ IR

(* The driver knows that the controller runs.                              *)
OperInv ==
  /\ control = "OPER" => hc_control = "OPER"
  /\ pc = "new_device" => control = "OPER" /\ MIE

(* Between power events, while no ED is removed from a suspended           *)
(* controller: only a loss of power disables interrupts, and a controller  *)
(* that is to be on runs.                                                  *)
PowerInv ==
  ~ AsleepRemoval /\ pm /\ pc = "none" /\ ~ disabled =>
      /\ control # "RESET" => MIE
      /\ asked = "on" => control = "OPER"

HcInv == /\ Paths /\ Holding /\ HubInv /\ PollKept /\ MasterInv /\ OperInv
         /\ PowerInv

-----------------------------------------------------------------------------
(* Type correctness.                                                       *)

(* Every step keeps the types.                                             *)
LEMMA TypeStep == TypeOK /\ [Next]_vars => TypeOK'
  <1> SUFFICES ASSUME RunType, ChipType, HubType, [Next]_vars
               PROVE  RunType' /\ ChipType' /\ HubType'
    BY DEF TypeOK
  <1> USE DEF RunType, ChipType, HubType, States, resources, hub, chip, Goto,
       Done
  <1>1. CASE Found
    <2>1. CASE hc_alloc_ohci
      <3>1. RunType' /\ ChipType'
        BY <2>1 DEF hc_alloc_ohci
      <3>2. HubType'
        BY <2>1 DEF hc_alloc_ohci
      <3>3. QED
        BY <3>1, <3>2
    <2>2. CASE \E ok \in BOOLEAN : RequestIrq(ok)
      BY <2>2 DEF RequestIrq
    <2>3. QED
      BY <1>1, <2>1, <2>2 DEF Found
  <1>2. CASE Start
    <2> USE DEF Operate, Started, SubmitInt
    <2>1. CASE StartNoDevice
      <3>1. RunType' /\ ChipType'
        BY <2>1 DEF StartNoDevice
      <3>2. HubType'
        BY <2>1 DEF StartNoDevice
      <3>3. QED
        BY <3>1, <3>2
    <2>2. CASE StartDevice
      BY <2>2 DEF StartDevice
    <2>3. CASE NewDevice
      <3>1. RunType' /\ ChipType'
        BY <2>3 DEF NewDevice
      <3>2. HubType'
        BY <2>3 DEF NewDevice
      <3>3. QED
        BY <3>1, <3>2
    <2>4. CASE NewDeviceFails
      <3>1. RunType'
        BY <2>4 DEF NewDeviceFails
      <3>2. ChipType'
        BY <2>4 DEF NewDeviceFails
      <3>3. HubType'
        BY <2>4 DEF NewDeviceFails
      <3>4. QED
        BY <3>1, <3>2, <3>3
    <2>5. QED
      BY <1>2, <2>1, <2>2, <2>3, <2>4 DEF Start
  <1>3. CASE Power
    <2> USE DEF Resumable
    <2>1. CASE Suspend
      BY <2>1 DEF Suspend
    <2>2. CASE ResumeOper
      BY <2>2 DEF ResumeOper
    <2>3. CASE ResumeOdd
      BY <2>3 DEF ResumeOdd
    <2>4. CASE ResumeLost
      BY <2>4 DEF ResumeLost
    <2>5. QED
      BY <1>3, <2>1, <2>2, <2>3, <2>4 DEF Power
  <1>4. CASE Reset
    <2> USE DEF hc_reset, Results, MasterEnabled
    <2>1. PICK r \in Results : FoundReset(r) \/ ResumeReset(r) \/
         ReleaseReset(r)
      BY <1>4 DEF Reset
    <2>2. CASE FoundReset(r)
      BY <2>2 DEF FoundReset
    <2>3. CASE ResumeReset(r)
      BY <2>3 DEF ResumeReset
    <2>4. CASE ReleaseReset(r)
      BY <2>4 DEF ReleaseReset
    <2>5. QED
      BY <2>1, <2>2, <2>3, <2>4
  <1>5. CASE End
    <2> USE DEF PmUnregistered
    <2>1. CASE ohci_hcd_cleanup
      <3>1. RunType' /\ ChipType'
        BY <2>1 DEF ohci_hcd_cleanup
      <3>2. HubType'
        BY <2>1 DEF ohci_hcd_cleanup
      <3>3. QED
        BY <3>1, <3>2
    <2>2. CASE Disconnect
      BY <2>2 DEF Disconnect
    <2>3. CASE Release
      <3>1. RunType' /\ ChipType'
        BY <2>3 DEF Release
      <3>2. HubType'
        BY <2>3 DEF Release
      <3>3. QED
        BY <3>1, <3>2
    <2>4. QED
      BY <1>5, <2>1, <2>2, <2>3 DEF End
  <1>6. CASE Environment
    <2> USE DEF SubmitInt, UnlinkSend, UnlinkTimer, TimerDeleted,
         rh_submit_urb
    <2>1. CASE HubProbe
      BY <2>1 DEF HubProbe
    <2>2. CASE HubRemove
      <3>1. RunType' /\ ChipType'
        BY <2>2 DEF HubRemove
      <3>2. HubType'
        BY <2>2 DEF HubRemove
      <3>3. QED
        BY <3>1, <3>2
    <2>3. CASE HubThread
      <3>1. RunType' /\ ChipType'
        BY <2>3 DEF HubThread
      <3>2. HubType'
        BY <2>3 DEF HubThread
      <3>3. QED
        BY <3>1, <3>2
    <2>4. CASE \E p \in Ports \cup {0} : PortChange(p)
      BY <2>4 DEF PortChange
    <2>5. CASE UnrecoverableError
      BY <2>5 DEF UnrecoverableError
    <2>6. CASE RemoteWakeup
      BY <2>6 DEF RemoteWakeup
    <2>7. CASE PowerLost
      <3>1. RunType' /\ ChipType'
        BY <2>7, ZenonT(30) DEF PowerLost
      <3>2. HubType'
        BY <2>7 DEF PowerLost
      <3>3. QED
        BY <3>1, <3>2
    <2>8. CASE ep_rm_ed
      BY <2>8 DEF ep_rm_ed
    <2>9. QED
      BY <1>6, <2>1, <2>2, <2>3, <2>4, <2>5, <2>6, <2>7, <2>8 DEF Environment
  <1>7. CASE rh_int_timer_do
    BY <1>7 DEF rh_int_timer_do, Rearmed, Sound
  <1>8. CASE UNCHANGED vars
    BY <1>8 DEF vars
  <1>9. QED
    BY <1>1, <1>2, <1>3, <1>4, <1>5, <1>6, <1>7, <1>8 DEF Next

(* The state is well typed, whatever power events, failures and steps of   *)
(* the hub driver come in what order.                                      *)
THEOREM HcTypes == Spec => []TypeOK
  <1>1. Init => TypeOK
    BY DEF Init, TypeOK, RunType, ChipType, HubType, States
  <1>2. QED
    BY <1>1, TypeStep, PTL DEF Spec

-----------------------------------------------------------------------------
(* The invariant is kept.                                                  *)

(* It holds when the module is loaded.                                     *)
LEMMA HcInit == Init => HcInv
  BY DEF Init, HcInv, Paths, Holding, HubInv, PollKept, MasterInv, OperInv,
       PowerInv

(* A step of hc_found_ohci up to request_irq keeps it.                     *)
LEMMA HcFound == TypeOK /\ HcInv /\ Found => HcInv'
  <1> SUFFICES ASSUME TypeOK, HcInv, Found PROVE HcInv'
    OBVIOUS
  <1> USE DEF TypeOK, RunType, ChipType, HubType, States, HcInv, Paths, Holding,
       HubInv, PollKept, MasterInv, OperInv, PowerInv, resources, hub, chip,
       Goto
  <1>1. CASE hc_alloc_ohci
    BY <1>1 DEF hc_alloc_ohci
  <1>2. CASE \E ok \in BOOLEAN : RequestIrq(ok)
    BY <1>2 DEF RequestIrq
  <1>3. QED
    BY <1>1, <1>2 DEF Found

(* A step of hc_start keeps it.                                            *)
LEMMA HcStart == TypeOK /\ HcInv /\ Start => HcInv'
  <1> SUFFICES ASSUME TypeOK, HcInv, Start PROVE HcInv'
    OBVIOUS
  <1> USE DEF TypeOK, RunType, ChipType, HubType, States, HcInv, Paths, Holding,
       HubInv, PollKept, MasterInv, OperInv, PowerInv, resources, hub, chip,
       Operate, Started, SubmitInt, Done, Goto
  <1>1. CASE StartNoDevice
    BY <1>1 DEF StartNoDevice
  <1>2. CASE StartDevice
    BY <1>2 DEF StartDevice
  <1>3. CASE NewDevice
    BY <1>3 DEF NewDevice
  <1>4. CASE NewDeviceFails
    BY <1>4 DEF NewDeviceFails
  <1>5. QED
    BY <1>1, <1>2, <1>3, <1>4 DEF Start

(* A power event keeps it.                                                 *)
LEMMA HcPower == TypeOK /\ HcInv /\ Power => HcInv'
  <1> SUFFICES ASSUME TypeOK, HcInv, Power PROVE HcInv'
    OBVIOUS
  <1> USE DEF TypeOK, RunType, ChipType, HubType, States, HcInv, Paths, Holding,
       HubInv, PollKept, MasterInv, OperInv, PowerInv, resources, hub, chip,
       Goto, Resumable
  <1>1. CASE Suspend
    BY <1>1 DEF Suspend
  <1>2. CASE ResumeOper
    BY <1>2 DEF ResumeOper
  <1>3. CASE ResumeOdd
    BY <1>3 DEF ResumeOdd
  <1>4. CASE ResumeLost
    BY <1>4 DEF ResumeLost
  <1>5. QED
    BY <1>1, <1>2, <1>3, <1>4 DEF Power

(* A reset of the controller keeps it.                                     *)
LEMMA HcReset == TypeOK /\ HcInv /\ Reset => HcInv'
  <1> SUFFICES ASSUME TypeOK, HcInv, Reset PROVE HcInv'
    OBVIOUS
  <1> USE DEF TypeOK, RunType, ChipType, HubType, States, HcInv, Paths, Holding,
       HubInv, PollKept, MasterInv, OperInv, PowerInv, resources, hub, chip,
       hc_reset, Results, MasterEnabled, Done, Goto
  <1>1. PICK r \in Results : FoundReset(r) \/ ResumeReset(r) \/ ReleaseReset(r)
    BY DEF Reset
  <1>2. CASE FoundReset(r)
    BY <1>2 DEF FoundReset
  <1>3. CASE ResumeReset(r)
    BY <1>3 DEF ResumeReset
  <1>4. CASE ReleaseReset(r)
    BY <1>4 DEF ReleaseReset
  <1>5. QED
    BY <1>1, <1>2, <1>3, <1>4

(* A step of the release keeps it.                                         *)
LEMMA HcEnd == TypeOK /\ HcInv /\ End => HcInv'
  <1> SUFFICES ASSUME TypeOK, HcInv, End PROVE HcInv'
    OBVIOUS
  <1> USE DEF TypeOK, RunType, ChipType, HubType, States, HcInv, Paths, Holding,
       HubInv, PollKept, MasterInv, OperInv, PowerInv, resources, hub, chip,
       PmUnregistered, Done, Goto
  <1>1. CASE ohci_hcd_cleanup
    BY <1>1 DEF ohci_hcd_cleanup
  <1>2. CASE Disconnect
    BY <1>2 DEF Disconnect
  <1>3. CASE Release
    BY <1>3 DEF Release
  <1>4. QED
    BY <1>1, <1>2, <1>3 DEF End

(* A step of the hub driver or the hardware keeps it.                      *)
LEMMA HcEnvironment == TypeOK /\ HcInv /\ Environment => HcInv'
  <1> SUFFICES ASSUME TypeOK, HcInv, Environment PROVE HcInv'
    OBVIOUS
  <1> USE DEF TypeOK, RunType, ChipType, HubType, States, HcInv, Paths, Holding,
       HubInv, PollKept, MasterInv, OperInv, PowerInv, resources, hub, chip,
       SubmitInt, UnlinkSend, UnlinkTimer, TimerDeleted, rh_submit_urb, Sound
  <1>1. CASE HubProbe
    BY <1>1 DEF HubProbe
  <1>2. CASE HubRemove
    BY <1>2 DEF HubRemove
  <1>3. CASE HubThread
    BY <1>3 DEF HubThread
  <1>4. CASE \E p \in Ports \cup {0} : PortChange(p)
    BY <1>4 DEF PortChange
  <1>5. CASE UnrecoverableError
    BY <1>5 DEF UnrecoverableError
  <1>6. CASE RemoteWakeup
    BY <1>6 DEF RemoteWakeup
  <1>7. CASE PowerLost
    BY <1>7 DEF PowerLost
  <1>8. CASE ep_rm_ed
    BY <1>8 DEF ep_rm_ed
  <1>9. QED
    BY <1>1, <1>2, <1>3, <1>4, <1>5, <1>6, <1>7, <1>8 DEF Environment

(* The timer keeps it.                                                     *)
LEMMA HcTimer == TypeOK /\ HcInv /\ rh_int_timer_do => HcInv'
  BY DEF TypeOK, RunType, ChipType, HubType, HcInv, Paths, Holding, HubInv,
       PollKept, MasterInv, OperInv, PowerInv, rh_int_timer_do, Rearmed,
       Sound, resources, chip

(* Every step keeps it.                                                    *)
LEMMA HcStep == TypeOK /\ HcInv /\ [Next]_vars => HcInv'
  <1>1. TypeOK /\ HcInv /\ UNCHANGED vars => HcInv'
    BY DEF HcInv, Paths, Holding, HubInv, PollKept, MasterInv, OperInv, PowerInv,
         vars, resources, hub, chip
  <1>2. QED
    BY <1>1, HcFound, HcStart, HcPower, HcReset, HcEnd, HcEnvironment, HcTimer
         DEF Next

(* The invariant holds of every behaviour.                                 *)
THEOREM HcInvariance == Spec => []HcInv
  BY HcTypes, HcInit, HcStep, PTL DEF Spec

-----------------------------------------------------------------------------
(* What follows from it.                                                   *)

(* The timer runs only with the urb of a hub driver that is bound to a     *)
(* root hub that lives, though the core never stops it itself.             *)
THEOREM TimerIsOwned == Spec => []TimerOwned
  <1>1. HcInv => TimerOwned
    BY DEF HcInv, HubInv, Holding, TimerOwned
  <1>2. QED
    BY <1>1, HcInvariance, PTL

(* A controller that is enabled again after a reset is polled: none is     *)
(* reset while the hub driver has its urb.                                 *)
THEOREM PollIsKept == Spec => []PollKept
  <1>1. HcInv => PollKept
    BY DEF HcInv
  <1>2. QED
    BY <1>1, HcInvariance, PTL

(* If no ED is removed while the controller is suspended, a controller     *)
(* that is to be on and is not disabled runs.                              *)
THEOREM ResumedControllerRuns ==
  ASSUME ~ AsleepRemoval
  PROVE  Spec => []ResumedRuns
  <1>1. HcInv => ResumedRuns
    BY ~ AsleepRemoval DEF HcInv, PowerInv, ResumedRuns
  <1>2. QED
    BY <1>1, HcInvariance, PTL

(* Whatever step of the start fails, all that HcLife follows is given back *)
(* in the end, and without its handler the controller does not interrupt.  *)
THEOREM NothingIsHeld == Spec => []NothingHeld
  <1>1. HcInv => NothingHeld
    BY DEF HcInv, HubInv, Holding, MasterInv, NothingHeld
  <1>2. QED
    BY <1>1, HcInvariance, PTL

-----------------------------------------------------------------------------
(* The life of the controller goes on as if the files were not there.      *)

(* Every behaviour of the driver is one of HcLife, so what is proved of    *)
(* that holds here too.                                                    *)
THEOREM DriverIsHcLife == DriverSpec => Spec
  <1>1. DriverInit => Init
    BY DEF DriverInit
  <1>2. [DriverNext]_<<vars, procVars>> => [Next]_vars
    BY DEF DriverNext
  <1>3. QED
    BY <1>1, <1>2, PTL DEF DriverSpec, Spec

-----------------------------------------------------------------------------
(* The settings of the devices.                                            *)

SettingsType ==
  /\ settings \in [Devices -> [Fields -> Values]]
  /\ intended \in [Devices -> [Fields -> Values]]
  /\ writer \in [Writers -> {Idle} \cup
                   [dev : Devices, s : [Fields -> Values]]]

(* The copy a process holds while it sleeps is out of date only in the     *)
(* settings that were written meanwhile.                                   *)
CopiesKept ==
  \A w \in Writers : writer[w] # Idle =>
      \A f \in Fields :
          <<writer[w].dev, f>> \notin raced =>
              writer[w].s[f] = intended[writer[w].dev][f]

SettingsInv == SettingsType /\ SettingsKept /\ CopiesKept

(* Changes written over settings are settings.                             *)
LEMMA OverFacts ==
  ASSUME NEW F \in SUBSET Fields, NEW changes \in [F -> Values],
         NEW s \in [Fields -> Values]
  PROVE  /\ DOMAIN changes = F
         /\ Over(changes, s) \in [Fields -> Values]
         /\ \A f \in Fields :
                Over(changes, s)[f] = IF f \in F THEN changes[f] ELSE s[f]
  BY DEF Over

(* A process that sleeps holds the settings of a device; -1 is none.       *)
LEMMA WriterFacts ==
  ASSUME SettingsType, NEW w \in Writers, writer[w] # Idle
  PROVE  writer[w].dev \in Devices /\ writer[w].s \in [Fields -> Values]
  BY DEF SettingsType

(* Settings as they are when the module is loaded satisfy the invariant.   *)
LEMMA LoadedSettings ==
  /\ ProcInit => SettingsInv
  /\ Loaded => SettingsInv'
  <1>1. Default \in [Devices -> [Fields -> Values]]
    BY DEF Default, Values
  <1>2. ProcInit => SettingsInv
    BY <1>1 DEF ProcInit, SettingsInv, SettingsType, SettingsKept, CopiesKept
  <1>3. Loaded => SettingsInv'
    BY <1>1 DEF Loaded, SettingsInv, SettingsType, SettingsKept, CopiesKept
  <1>4. QED
    BY <1>2, <1>3

(* What a write assigns.                                                   *)
LEMMA WrittenParts ==
  ASSUME NEW d, NEW changes, NEW s, NEW others, Written(d, s, changes, others)
  PROVE  /\ settings' = [settings EXCEPT ![d] = Over(changes, s)]
         /\ intended' = [intended EXCEPT ![d] = Over(changes, intended[d])]
         /\ raced' = IF Held(d, others) THEN raced \cup Named(d, changes)
                     ELSE raced \ Named(d, changes)
  BY DEF Written

(* A write leaves settings where there were settings.                      *)
LEMMA WrittenTypes ==
  ASSUME SettingsType,
         NEW d \in Devices, NEW F \in SUBSET Fields,
         NEW changes \in [F -> Values], NEW s \in [Fields -> Values],
         NEW others, Written(d, s, changes, others)
  PROVE  /\ settings' \in [Devices -> [Fields -> Values]]
         /\ intended' \in [Devices -> [Fields -> Values]]
  <1>1. intended[d] \in [Fields -> Values]
    BY DEF SettingsType
  <1>2. /\ Over(changes, s) \in [Fields -> Values]
        /\ Over(changes, intended[d]) \in [Fields -> Values]
    BY <1>1, OverFacts
  <1>3. QED
    BY <1>2 DEF Written, SettingsType

(* A write keeps the invariant, if what it stores under the settings it    *)
(* does not name is a copy that agrees with the values last written and    *)
(* the others still hold theirs: a setting it names is either raced        *)
(* afterwards or in nobody's copy.                                         *)
LEMMA WrittenKeeps ==
  ASSUME SettingsInv,
         NEW d \in Devices, NEW F \in SUBSET Fields,
         NEW changes \in [F -> Values], NEW s \in [Fields -> Values],
         NEW others \in SUBSET Writers,
         Written(d, s, changes, others),
         \A f \in Fields : <<d, f>> \notin raced => s[f] = intended[d][f],
         SettingsType',
         \A v \in Writers :
             writer'[v] # Idle => v \in others /\ writer'[v] = writer[v]
  PROVE  SettingsInv'
  <1> DEFINE named == Named(d, changes)
  <1>1. /\ settings' = [settings EXCEPT ![d] = Over(changes, s)]
        /\ intended' = [intended EXCEPT ![d] = Over(changes, intended[d])]
        /\ raced' = IF Held(d, others) THEN raced \cup named ELSE raced \ named
    BY WrittenParts
  <1>0. ASSUME NEW e, NEW f
        PROVE  <<e, f>> \in named <=> e = d /\ f \in F
    BY DEF Named
  <1> HIDE DEF named
  <1>2. /\ settings \in [Devices -> [Fields -> Values]]
        /\ intended \in [Devices -> [Fields -> Values]]
    BY DEF SettingsInv, SettingsType
  <1>3. ASSUME NEW f \in Fields
        PROVE  /\ settings'[d][f] = IF f \in F THEN changes[f] ELSE s[f]
               /\ intended'[d][f] = IF f \in F THEN changes[f] ELSE intended[d][f]
    <2>1. intended[d] \in [Fields -> Values]
      BY <1>2
    <2>2. /\ Over(changes, s)[f] = IF f \in F THEN changes[f] ELSE s[f]
          /\ Over(changes, intended[d])[f] =
                 IF f \in F THEN changes[f] ELSE intended[d][f]
      BY <2>1, OverFacts
    <2>3. QED
      BY <1>1, <1>2, <2>2
  <1>4. ASSUME NEW e \in Devices, NEW f \in Fields, e # d \/ f \notin F,
               <<e, f>> \notin raced'
        PROVE  <<e, f>> \notin raced /\ intended'[e][f] = intended[e][f]
    <2>1. <<e, f>> \notin named
      BY <1>0, <1>4
    <2>2. <<e, f>> \notin raced
      BY <1>1, <1>4, <2>1
    <2>3. CASE e = d
      BY <1>3, <1>4, <2>2, <2>3
    <2>4. CASE e # d
      BY <1>1, <1>2, <2>2, <2>4
    <2>5. QED
      BY <2>3, <2>4
  <1>5. SettingsKept'
    <2> SUFFICES ASSUME NEW e \in Devices, NEW f \in Fields,
                        <<e, f>> \notin raced'
                 PROVE  settings'[e][f] = intended'[e][f]
      BY DEF SettingsKept
    <2>1. CASE e # d
      BY <1>1, <1>2, <1>4, <2>1 DEF SettingsInv, SettingsKept
    <2>2. CASE e = d /\ f \notin F
      BY <1>3, <1>4, <2>2
    <2>3. CASE e = d /\ f \in F
      BY <1>3, <2>3
    <2>4. QED
      BY <2>1, <2>2, <2>3
  <1>6. CopiesKept'
    <2> SUFFICES ASSUME NEW v \in Writers, writer'[v] # Idle,
                        NEW f \in Fields,
                        <<writer'[v].dev, f>> \notin raced'
                 PROVE  writer'[v].s[f] = intended'[writer'[v].dev][f]
      BY DEF CopiesKept
    <2>1. v \in others /\ writer'[v] = writer[v] /\ writer[v] # Idle
      OBVIOUS
    <2>2. writer[v].dev \in Devices
      BY <2>1, WriterFacts DEF SettingsInv
    <2>3. writer[v].dev # d \/ f \notin F
      <3>1. CASE writer[v].dev = d
        <4>1. Held(d, others)
          BY <2>1, <3>1 DEF Held
        <4>2. QED
          BY <1>0, <1>1, <2>1, <3>1, <4>1
      <3>2. QED
        BY <3>1
    <2>4. /\ <<writer[v].dev, f>> \notin raced
          /\ intended'[writer[v].dev][f] = intended[writer[v].dev][f]
      BY <1>4, <2>1, <2>2, <2>3
    <2>5. QED
      BY <2>1, <2>4 DEF SettingsInv, CopiesKept
  <1>7. QED
    BY <1>5, <1>6 DEF SettingsInv

(* Every write of a process keeps it.                                      *)
LEMMA WriteKeeps == SettingsInv /\ Write => SettingsInv'
  <1> SUFFICES ASSUME SettingsInv, Write PROVE SettingsInv'
    OBVIOUS
  <1>0. /\ settings \in [Devices -> [Fields -> Values]]
        /\ intended \in [Devices -> [Fields -> Values]]
        /\ SettingsType
    BY DEF SettingsInv, SettingsType
  <1>1. ASSUME NEW d \in Devices, NEW on \in Values, WriteEnabled(d, on)
        PROVE  SettingsInv'
    <2> DEFINE changes == [f \in {"oEnabled"} |-> on]
    <2>1. changes \in [{"oEnabled"} -> Values] /\ {"oEnabled"} \subseteq Fields
      BY DEF Fields
    <2>2. Written(d, settings[d], changes, Writers) /\ UNCHANGED writer
      BY <1>1 DEF WriteEnabled
    <2>3. settings[d] \in [Fields -> Values] /\ {"oEnabled"} \in SUBSET Fields
      BY <1>0, <2>1
    <2>4. SettingsType'
      BY <1>0, <2>1, <2>2, <2>3, WrittenTypes DEF SettingsType
    <2>5. \A f \in Fields :
              <<d, f>> \notin raced => settings[d][f] = intended[d][f]
      BY DEF SettingsInv, SettingsKept
    <2>6. \A v \in Writers :
              writer'[v] # Idle => v \in Writers /\ writer'[v] = writer[v]
      BY <2>2
    <2> HIDE DEF changes
    <2>7. QED
      BY <2>1, <2>2, <2>3, <2>4, <2>5, <2>6, WrittenKeeps
  <1>2. ASSUME NEW w \in Writers, NEW d \in Devices, WriterCopies(w, d)
        PROVE  SettingsInv'
    <2>1. /\ writer' = [writer EXCEPT ![w] = [dev |-> d, s |-> settings[d]]]
          /\ UNCHANGED <<settings, intended, raced>>
      BY <1>2 DEF WriterCopies, SettingsOf
    <2>2. SettingsType'
      BY <1>0, <2>1 DEF SettingsType
    <2>3. SettingsKept'
      BY <2>1 DEF SettingsInv, SettingsKept
    <2>4. \A v \in Writers :
              writer'[v] = IF v = w THEN [dev |-> d, s |-> settings[d]]
                           ELSE writer[v]
      BY <1>0, <2>1 DEF SettingsType
    <2>5. CopiesKept'
      BY <2>1, <2>4 DEF SettingsInv, SettingsKept, CopiesKept
    <2>6. QED
      BY <2>2, <2>3, <2>5 DEF SettingsInv
  <1>3. ASSUME NEW w \in Writers, NEW F \in SUBSET Fields,
               NEW changes \in [F -> Values], WriterStores(w, changes)
        PROVE  SettingsInv'
    <2>1. writer' = [writer EXCEPT ![w] = Idle] /\ writer[w] # Idle
      BY <1>3 DEF WriterStores
    <2>2. \A v \in Writers :
              writer'[v] # Idle => v \in Writers \ {w} /\ writer'[v] = writer[v]
      <3>1. \A v \in Writers :
                writer'[v] = IF v = w THEN Idle ELSE writer[v]
        BY <1>0, <2>1 DEF SettingsType
      <3>2. QED
        BY <3>1
    <2>3. writer[w].dev \in Devices /\ writer[w].s \in [Fields -> Values]
      BY <1>0, <2>1, WriterFacts
    <2>4. CASE UNCHANGED <<settings, intended, raced>>
      <3>1. SettingsType'
        BY <1>0, <2>1, <2>4 DEF SettingsType
      <3>2. QED
        BY <2>2, <2>4, <3>1
           DEF SettingsInv, SettingsKept, CopiesKept
    <2>5. CASE Written(writer[w].dev, writer[w].s, changes, Writers \ {w})
      <3>1. SettingsType'
        BY <1>0, <2>1, <2>3, <2>5, WrittenTypes DEF SettingsType
      <3>2. \A f \in Fields :
                <<writer[w].dev, f>> \notin raced =>
                    writer[w].s[f] = intended[writer[w].dev][f]
        BY <2>1 DEF SettingsInv, CopiesKept
      <3>3. QED
        BY <2>2, <2>3, <2>5, <3>1, <3>2, WrittenKeeps
    <2>6. QED
      BY <1>3, <2>4, <2>5 DEF WriterStores
  <1>4. QED
    BY <1>1, <1>2, <1>3 DEF Write

(* Every step of the driver keeps it: the others load the module, remove   *)
(* it or do not touch the settings.                                        *)
LEMMA SettingsStep ==
  SettingsInv /\ [DriverNext]_<<vars, procVars>> => SettingsInv'
  <1> SUFFICES ASSUME SettingsInv, [DriverNext]_<<vars, procVars>>
               PROVE  SettingsInv'
    OBVIOUS
  <1>1. CASE UNCHANGED <<settings, writer, intended, raced>>
    BY <1>1 DEF SettingsInv, SettingsType, SettingsKept, CopiesKept
  <1>2. CASE RemoveProcFs
    BY <1>2, LoadedSettings DEF RemoveProcFs
  <1>3. CASE Write
    BY <1>3, WriteKeeps
  <1>4. QED
    BY <1>1, <1>2, <1>3 DEF DriverNext, ProcStep, Created, NotCreated,
       InstallProcFs, procVars

(* The invariant holds of every behaviour.                                 *)
THEOREM SettingsInvariance == DriverSpec => []SettingsInv
  <1>1. DriverInit => SettingsInv
    BY LoadedSettings DEF DriverInit
  <1>2. QED
    BY <1>1, SettingsStep, PTL DEF DriverSpec

(* A setting has the value last written to it, unless it was written while *)
(* another process slept in Write_DeviceSettings for the same device.      *)
THEOREM SettingsAreKept == DriverSpec => []SettingsKept
  BY SettingsInvariance, PTL DEF SettingsInv
-----------------------------------------------------------------------------
(* The files.                                                              *)

RootFiles == { Global(n) : n \in {"side_dumper", "enabled", "disabled"} }
SettingsFiles == { Device(d) : d \in Numbered } \cup {Global("all")}
Names == RootFiles \cup SettingsFiles \cup {Global("device_settings")}

(* An entry that comes before the i-th of those not yet tried.             *)
Before(a, i) == \E j \in DOMAIN todo : j < i /\ todo[j] = a

(* What is in /proc is what the removal will take away, but for            *)
(* device_settings.  A directory that is not there yet is still to be      *)
(* made, before everything that goes after it.                             *)
TreeInv ==
  /\ todo \in Seq(Names)
  /\ pRootDir \in BOOLEAN /\ pSettingsDir \in BOOLEAN
  /\ ~ dumper => todo = <<>> /\ ~ pRootDir /\ ~ pSettingsDir
  /\ pSettingsDir => pRootDir
  /\ entries \subseteq Removed \cup {Global("device_settings")}
  /\ ~ pRootDir => \A i \in DOMAIN todo :
                      todo[i] = Global("side_dumper") \/ Before(Global("side_dumper"), i)
  /\ ~ pSettingsDir => \A i \in DOMAIN todo :
                      todo[i] \in SettingsFiles => Before(Global("device_settings"), i)

(* The names of the files are different.                                   *)
LEMMA NamesDiffer ==
  /\ Global("side_dumper") # Global("device_settings")
  /\ Global("side_dumper") \notin SettingsFiles
  /\ Global("device_settings") \notin SettingsFiles \cup RootFiles
  /\ Removed = (IF pSettingsDir THEN SettingsFiles ELSE {})
               \cup (IF pRootDir THEN RootFiles ELSE {})
  BY DEF SettingsFiles, RootFiles, Global, Device, Removed

(* The entries of the devices make a sequence.                             *)
LEMMA DeviceSequence ==
  SetToSeq({ Device(d) : d \in Numbered }) \in Seq({ Device(d) : d \in Numbered })
  <1> DEFINE D == { Device(d) : d \in Numbered }
  <1>1. IsFiniteSet(Numbered)
    <2>1. IsFiniteSet(1 .. 99)
      <3>1. 1 \in Int /\ 99 \in Int
        OBVIOUS
      <3>2. QED BY ONLY <3>1, FS_Interval
    <2>2. Numbered \subseteq 1 .. 99
      BY DEF Numbered
    <2>3. QED BY <2>1, <2>2, FS_Subset
  <1>2. IsFiniteSet(D)
    <2> DEFINE f == [d \in Numbered |-> Device(d)]
    <2>1. f \in Surjection(Numbered, D)
      BY DEF Surjection
    <2>2. QED BY <1>1, <2>1, FS_Surjection
  <1> HIDE DEF D
  <1>3. Cardinality(D) \in Nat /\ ExistsBijection(1 .. Cardinality(D), D)
    BY <1>2, FS_CardinalityType
  <1>4. \E f \in [1 .. Cardinality(D) -> D] : IsInjective(f)
    BY <1>3 DEF ExistsBijection, Bijection, Injection
  <1>5. SetToSeq(D) \in [1 .. Cardinality(D) -> D]
    BY <1>4, Zenon DEF SetToSeq
  <1>6. SetToSeq(D) \in Seq(D)
    BY <1>3, <1>5
  <1>7. QED BY <1>6 DEF D

(* InstallProcFs lists the entries in an order in which every directory    *)
(* comes before what goes into it.                                         *)
LEMMA InstallTree == ~ dumper /\ dumper' /\ TreeInv /\ InstallProcFs => TreeInv'
  <1> SUFFICES ASSUME ~ dumper, dumper', TreeInv, InstallProcFs PROVE TreeInv'
    OBVIOUS
  <1> DEFINE first == <<Global("side_dumper"), Global("enabled"), Global("disabled"),
                        Global("device_settings"), Global("all")>>
             rest == SetToSeq({ Device(d) : d \in Numbered })
  <1>1. /\ todo' = first \o rest
        /\ UNCHANGED <<entries, pRootDir, pSettingsDir>>
        /\ ~ pRootDir /\ ~ pSettingsDir
    BY DEF InstallProcFs, TreeInv
  <1>2. rest \in Seq(SettingsFiles) /\ rest \in Seq(Names)
    BY DeviceSequence DEF SettingsFiles, Names
  <1>3. first \in Seq(Names) /\ Len(first) = 5
    BY DEF Names, RootFiles, SettingsFiles
  <1>4. /\ todo' \in Seq(Names) /\ DOMAIN todo' = 1 .. 5 + Len(rest) /\ Len(rest) \in Nat
        /\ \A i \in 1 .. 5 : todo'[i] = first[i]
    BY <1>1, <1>2, <1>3
  <1>5. /\ todo'[1] = Global("side_dumper") /\ todo'[2] = Global("enabled")
        /\ todo'[3] = Global("disabled") /\ todo'[4] = Global("device_settings")
    BY <1>4
  <1> HIDE DEF first, rest
  <1>6. \A i \in DOMAIN todo' : i > 4 => Before(Global("device_settings"), i)'
    BY <1>4, <1>5 DEF Before
  <1>7. \A i \in DOMAIN todo' : i > 1 => Before(Global("side_dumper"), i)'
    BY <1>4, <1>5 DEF Before
  <1>8. \A i \in 1 .. 4 : todo'[i] \notin SettingsFiles
    BY <1>5 DEF SettingsFiles, Global, Device
  <1>9. QED
    BY <1>1, <1>4, <1>5, <1>6, <1>7, <1>8, SMTT(30) DEF TreeInv, Removed
(* An entry is tried: it is made, or it is left out, and a failure before  *)
(* device_settings ends the installation.                                  *)
LEMMA TryTree == TreeInv /\ dumper' = dumper /\ (Created \/ NotCreated) => TreeInv'
  <1> SUFFICES ASSUME TreeInv, dumper' = dumper, Created \/ NotCreated PROVE TreeInv'
    OBVIOUS
  <1>1. /\ todo \in Seq(Names) /\ todo # <<>> /\ dumper
        /\ pRootDir \in BOOLEAN /\ pSettingsDir \in BOOLEAN
    BY DEF TreeInv, Created, NotCreated
  <1>2. /\ Head(todo) = todo[1] /\ 1 \in DOMAIN todo /\ Head(todo) \in Names
        /\ Tail(todo) \in Seq(Names)
        /\ \A i \in DOMAIN Tail(todo) : i + 1 \in DOMAIN todo /\ Tail(todo)[i] = todo[i + 1]
        /\ \A i \in DOMAIN todo : i \in Nat /\ i # 0
        /\ \A i \in DOMAIN todo : i # 1 => i - 1 \in DOMAIN Tail(todo) /\ Tail(todo)[i - 1] = todo[i]
    BY <1>1
  <1>3. ~ Before(Global("side_dumper"), 1) /\ ~ Before(Global("device_settings"), 1)
    BY <1>2 DEF Before
  <1>4. ASSUME NEW a, a # Head(todo), todo' = Tail(todo),
               NEW i \in DOMAIN todo', Before(a, i + 1)
        PROVE  Before(a, i)'
    <2>1. PICK j \in DOMAIN todo : j < i + 1 /\ todo[j] = a
      BY <1>4 DEF Before
    <2>2. j - 1 \in DOMAIN todo' /\ todo'[j - 1] = a /\ j - 1 < i
      BY <1>2, <1>4, <2>1
    <2>3. QED BY <2>2 DEF Before
  <1>5. CASE Created
    <2>1. /\ entries' = entries \cup {Head(todo)}
          /\ pRootDir' = (pRootDir \/ Head(todo) = Global("side_dumper"))
          /\ pSettingsDir' = (pSettingsDir \/ Head(todo) = Global("device_settings"))
          /\ todo' = Tail(todo)
      BY <1>5 DEF Created
    <2>2. pRootDir'
      BY <1>2, <1>3, <2>1 DEF TreeInv
    <2>3. Head(todo) \in SettingsFiles => pSettingsDir'
      BY <1>2, <1>3, <2>1 DEF TreeInv
    <2>4. entries' \subseteq Removed' \cup {Global("device_settings")}
      <3>1. Head(todo) \in Removed' \cup {Global("device_settings")}
        BY <1>2, <2>2, <2>3 DEF Names, Removed, RootFiles, SettingsFiles
      <3>2. Removed \subseteq Removed'
        BY <2>1, <2>2 DEF Removed
      <3>3. QED BY <2>1, <3>1, <3>2 DEF TreeInv
    <2>5. ~ pSettingsDir' => \A i \in DOMAIN todo' :
                      todo'[i] \in SettingsFiles => Before(Global("device_settings"), i)'
      BY <1>2, <1>4, <2>1 DEF TreeInv
    <2>6. pRootDir' \in BOOLEAN /\ pSettingsDir' \in BOOLEAN
      BY <2>1
    <2>7. QED
      BY <1>1, <1>2, <2>1, <2>2, <2>4, <2>5, <2>6 DEF TreeInv
  <1>6. CASE NotCreated
    <2>1. /\ todo' = IF pSettingsDir THEN Tail(todo) ELSE <<>>
          /\ UNCHANGED <<entries, pRootDir, pSettingsDir>>
      BY <1>6 DEF NotCreated
    <2>2. CASE pSettingsDir
      BY <1>1, <1>2, <2>1, <2>2 DEF TreeInv, Removed
    <2>3. CASE ~ pSettingsDir
      BY <1>1, <2>1, <2>3 DEF TreeInv, Removed
    <2>4. QED BY <2>2, <2>3
  <1>7. QED BY <1>5, <1>6

(* Every step of the driver keeps it.                                      *)
LEMMA TreeStep ==
  TreeInv /\ [DriverNext]_<<vars, procVars>> => TreeInv'
  <1> SUFFICES ASSUME TreeInv, [DriverNext]_<<vars, procVars>>
               PROVE  TreeInv'
    OBVIOUS
  <1>1. CASE UNCHANGED tree /\ dumper' = dumper
    BY <1>1 DEF TreeInv, Before, Removed, tree
  <1>2. CASE dumper' = dumper /\ (Created \/ NotCreated)
    BY <1>2, TryTree
  <1>3. CASE ~ dumper /\ dumper' /\ InstallProcFs
    BY <1>3, InstallTree
  <1>4. CASE dumper /\ ~ dumper' /\ RemoveProcFs
    <2>1. /\ entries' = entries \ Removed /\ todo' = <<>>
          /\ pRootDir' = FALSE /\ pSettingsDir' = FALSE
      BY <1>4 DEF RemoveProcFs
    <2>2. entries' \subseteq {Global("device_settings")}
      BY <2>1 DEF TreeInv
    <2>3. todo' \in Seq(Names) /\ DOMAIN todo' = {}
      BY <2>1
    <2>4. QED BY <1>4, <2>1, <2>2, <2>3 DEF TreeInv
  <1>5. CASE UNCHANGED vars /\ Write
    <2>1. UNCHANGED tree
      BY <1>5, Zenon DEF Write, WriteEnabled, WriterCopies, WriterStores
    <2>2. QED BY <1>1, <1>5, <2>1 DEF vars, resources
  <1>6. CASE UNCHANGED vars /\ (Created \/ NotCreated)
    BY <1>2, <1>6 DEF vars, resources
  <1>7. CASE UNCHANGED procVars /\ (dumper' = dumper \/ UNCHANGED vars)
    BY <1>1, <1>7 DEF procVars, tree, vars, resources
  <1>8. QED
    BY <1>3, <1>4, <1>5, <1>6, <1>7 DEF DriverNext, ProcStep

(* When the driver is gone, whatever part of its start failed and in       *)
(* whatever order its calls and the installation of the files were         *)
(* interleaved, no file that calls it is left in /proc.                    *)
THEOREM NoFileIsLeft == DriverSpec => []NoFileLeft
  <1>1. DriverInit => TreeInv
    <2>1. ASSUME DriverInit
          PROVE  /\ ~ dumper /\ ~ pRootDir /\ ~ pSettingsDir /\ todo = <<>> /\ entries = {}
                 /\ pRootDir \in BOOLEAN /\ pSettingsDir \in BOOLEAN
      BY <2>1 DEF DriverInit, Init, ProcInit
    <2>2. QED BY <2>1 DEF TreeInv
  <1>2. TreeInv => NoFileLeft
    BY DEF TreeInv, NoFileLeft, Removed
  <1>3. QED
    BY <1>1, <1>2, TreeStep, PTL DEF DriverSpec
=============================================================================
