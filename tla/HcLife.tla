------------------------------- MODULE HcLife -------------------------------
(***************************************************************************)
(* The life of the controller (portable-ohci-core.c:1800-2185): found when *)
(* the module is loaded, suspended and resumed by power management,        *)
(* released when the module is removed or a step of its start fails; and   *)
(* with it the virtual root hub (1500-1794), which exists in software      *)
(* only: the hub driver's interrupt urb is answered from a timer, its      *)
(* control requests by reading and writing registers.                      *)
(*                                                                         *)
(* One process at a time starts, resumes or releases the controller (the   *)
(* module loader, power management under its lock): job and pc say which   *)
(* function it is in and where it sleeps.  Beside it run the timer, the    *)
(* interrupt handler, the hub driver and the controller.  The removal of   *)
(* EDs, which a restart forgets (hc_reinit_ohci), is in EdLists and        *)
(* UrbLife: here it only writes the control register.  The USB core, the   *)
(* hub driver and the hardware are external.                               *)
(***************************************************************************)
EXTENDS Integers

CONSTANTS
    Ports,          \* ports of the root hub; 0 stands for the hub itself
    AsleepRemoval   \* EDs are removed while the controller is suspended

ASSUME PortAssumption == Ports \subseteq Nat

VARIABLES
    job, pc,        \* found, resume, release; where it is
    mem,            \* the ohci structure is allocated
    registered,     \* the bus is
    irq, pm,        \* the handlers of interrupts and power events are
    dumper,         \* the side dumper is installed
    root_hub,       \* bus->root_hub: NULL, a live device, a freed one
    bound,          \* the hub driver uses the root hub
    disabled,
    control,        \* the state the controller is in
    hc_control,     \* what the driver last wrote or read there
    IR,             \* the firmware owns the controller
    MIE,            \* interrupts are enabled
    send, timer,    \* rh.send; rh_int_timer is pending
    change,         \* ports with a change bit set
    event,          \* the hub driver was told
    asked           \* the last power event asked for: on or suspend

resources == <<mem, registered, irq, pm, dumper>>
hub == <<send, timer, bound>>
chip == <<control, hc_control, IR, MIE>>
vars == <<job, pc, resources, root_hub, disabled, chip, hub, change, event,
          asked>>

States == {"RESET", "RESUME", "OPER", "SUSPEND"}

Init ==
    /\ job = "none" /\ pc = "none"
    /\ mem = FALSE /\ registered = FALSE /\ irq = FALSE /\ pm = FALSE
    /\ dumper = FALSE
    /\ root_hub = "NULL" /\ bound = FALSE
    /\ disabled = FALSE
    /\ control = "RESET" /\ hc_control = "RESET"
    /\ IR \in BOOLEAN /\ MIE = FALSE
    /\ send = FALSE /\ timer = FALSE
    /\ change = {} /\ event = FALSE
    /\ asked = "on"

(* A freed root hub is disconnected: what follows is undefined.            *)
Sound == root_hub # "freed" \/ pc # "disconnect"

Goto(j, p) == job' = j /\ pc' = p
Done == Goto("none", "none")

-----------------------------------------------------------------------------
(* The root hub's interrupt urb.                                           *)

(* rh_submit_urb, lines 1607-1616, and rh_init_int_timer.                  *)
SubmitInt == bound' = TRUE /\ send' = TRUE /\ timer' = TRUE

(* Mutant: the timer is left to run out.                                   *)
TimerLeft == timer
TimerDeleted == FALSE

(* The two statements of rh_unlink_urb; the timer may run between them, it *)
(* starts itself again.                                                    *)
UnlinkSend == bound /\ send /\ send' = FALSE /\ UNCHANGED <<timer, bound>>
UnlinkTimer ==
    bound /\ ~ send /\ timer' = TimerDeleted /\ bound' = FALSE /\ send' = send

(* Mutant: the bit of the hub itself is left out.                          *)
rh_send_irq_short == change \ {0}

(* Of all ports and the hub, those with a change; the number of bytes the  *)
(* bits take is left out.                                                  *)
rh_send_irq == change

(* Mutant: the timer is started again only after a report.                 *)
RearmAfterReport == ~ disabled /\ rh_send_irq # {}

(* The timer goes on unless the controller is disabled.                    *)
Rearmed == ~ disabled

rh_int_timer_do ==
    /\ Sound /\ timer
    /\ timer' = Rearmed
    /\ event' = (event \/ (~ disabled /\ send /\ rh_send_irq # {}))
    /\ UNCHANGED <<job, pc, resources, root_hub, disabled, chip, send, bound,
                   change, asked>>

-----------------------------------------------------------------------------
(* Around it: the hub driver and the hardware.                             *)

(* The hub driver is bound to and unbound from a root hub that is there.   *)
HubProbe ==
    /\ Sound /\ root_hub = "live" /\ ~ bound /\ pc = "none"
    /\ SubmitInt
    /\ UNCHANGED <<job, pc, resources, root_hub, disabled, chip, change,
                   event, asked>>
(* ... by the removal of that driver, or by usb_disconnect.                *)
HubRemove ==
    /\ Sound /\ pc \in {"none", "disconnect"}
    /\ UnlinkSend \/ UnlinkTimer
    /\ UNCHANGED <<job, pc, resources, root_hub, disabled, chip, change,
                   event, asked>>

(* The hub's thread was told of a change: it asks the ports one by one and *)
(* clears the change bits by control requests, which rh_submit_urb serves  *)
(* even while the controller is disabled: of the requests, those change a  *)
(* state that lasts.  The change bit of the hub itself is that of the      *)
(* over-current indicator; the one of local power always reads as zero,    *)
(* and to clear it (line 1656) does nothing.                               *)
rh_submit_urb(ports) == change' = change \ ports
HubThread ==
    /\ Sound /\ bound /\ event
    /\ event' = FALSE
    /\ rh_submit_urb(change)
    /\ UNCHANGED <<job, pc, resources, root_hub, disabled, chip, hub, asked>>

PortChange(p) ==
    /\ Sound /\ control # "RESET"
    /\ change' = change \cup {p}
    /\ UNCHANGED <<job, pc, resources, root_hub, disabled, chip, hub, event,
                   asked>>

(* hc_interrupt, lines 1928-1932.                                          *)
UnrecoverableError ==
    /\ Sound /\ irq /\ MIE /\ control = "OPER"
    /\ disabled' = TRUE
    /\ UNCHANGED <<job, pc, resources, root_hub, chip, hub, change, event,
                   asked>>

(* A suspended controller may be woken by a device or lose its power.      *)
RemoteWakeup ==
    /\ Sound /\ control = "SUSPEND" /\ pc = "none"
    /\ control' = "RESUME"
    /\ UNCHANGED <<job, pc, resources, root_hub, disabled, hc_control, IR, MIE,
                   hub, change, event, asked>>
PowerLost ==
    /\ Sound /\ control = "SUSPEND" /\ pc = "none"
    /\ control' = "RESET" /\ MIE' = FALSE /\ change' = {}
    /\ UNCHANGED <<job, pc, resources, root_hub, disabled, hc_control, IR, hub,
                   event, asked>>

(* ep_rm_ed, lines 1065-1072: to stop a list, the whole of hc_control is   *)
(* written, with the state the driver believes the controller to be in.    *)
ep_rm_ed ==
    /\ Sound /\ root_hub = "live" /\ pc \in {"none", "disconnect"}
    /\ AsleepRemoval \/ control = "OPER"
    /\ control' = hc_control
    /\ UNCHANGED <<job, pc, resources, root_hub, disabled, hc_control, IR, MIE,
                   hub, change, event, asked>>

-----------------------------------------------------------------------------
(* hc_found_ohci.                                                          *)

hc_alloc_ohci ==
    /\ job = "none" /\ ~ mem
    /\ mem' = TRUE /\ disabled' = FALSE
    /\ asked' = "on"
    /\ Goto("found", "reset")
    /\ UNCHANGED <<registered, irq, pm, dumper, root_hub, chip, hub, change,
                   event>>

(* hc_reset: the firmware may keep the controller (lines 1807-1817), the   *)
(* controller may not come back (1829-1833).                               *)
MasterEnabled(result) == result = "takeover" /\ MIE

hc_reset(result) ==
    /\ result = "takeover" => IR
    /\ IR' = (result = "takeover")
    /\ MIE' = MasterEnabled(result)
    /\ control' = IF result = "takeover" THEN control
                  ELSE IF result = "ok" THEN "SUSPEND" ELSE "RESET"
    /\ UNCHANGED hc_control
    /\ change' = IF result = "ok" THEN {} ELSE change

Results == {"ok", "takeover", "timeout"}

FoundReset(result) ==
    /\ job = "found" /\ pc = "reset"
    /\ hc_reset(result)
    /\ disabled' = (disabled /\ result # "ok")
    /\ IF result = "ok" THEN Goto("found", "register") ELSE Goto("release", "disconnect")
    /\ UNCHANGED <<resources, root_hub, hub, event, asked>>

(* The bus is reset, then registered; request_irq, lines 2078-2085.        *)
RequestIrq(granted) ==
    /\ job = "found" /\ pc = "register"
    /\ control' = "RESET" /\ hc_control' = "RESET"
    /\ registered' = TRUE
    /\ irq' = granted
    /\ IF granted THEN Goto("found", "start") ELSE Goto("release", "disconnect")
    /\ UNCHANGED <<mem, pm, dumper, root_hub, disabled, IR, MIE, hub, change,
                   event, asked>>

-----------------------------------------------------------------------------
(* hc_start, called by hc_found_ohci and on resume.                        *)

(* What its caller does with the result: hc_found_ohci takes no notice of  *)
(* it, registers for power events and installs the dumper, lines 2086-2098;*)
(* after a resume the controller is disabled if it failed, 2136-2140.      *)
Started(ok) ==
    /\ Done
    /\ IF job = "found"
       THEN /\ pm' \in BOOLEAN
            /\ dumper' \in BOOLEAN
            /\ UNCHANGED disabled
       ELSE /\ disabled' = (disabled \/ ~ ok)
            /\ UNCHANGED <<pm, dumper>>

(* The controller runs, lines 1856-1889.                                   *)
Operate ==
    control' = "OPER" /\ hc_control' = "OPER" /\ MIE' = TRUE /\ UNCHANGED IR

StartNoDevice ==
    /\ pc = "start"
    /\ Operate
    /\ Started(FALSE)
    /\ UNCHANGED <<mem, registered, irq, root_hub, hub, change, event, asked>>

StartDevice ==
    /\ pc = "start"
    /\ Operate
    /\ root_hub' = "live"
    /\ Goto(job, "new_device")
    /\ UNCHANGED <<resources, disabled, hub, change, event, asked>>

(* usb_new_device sleeps; it binds the hub driver if there is one.         *)
NewDevice ==
    /\ pc = "new_device"
    /\ Started(TRUE)
    /\ SubmitInt \/ UNCHANGED hub
    /\ UNCHANGED <<mem, registered, irq, root_hub, chip, change, event, asked>>

(* It failed: the device is freed, bus->root_hub keeps it, lines 1893-1896.*)
NewDeviceFails ==
    /\ pc = "new_device"
    /\ root_hub' = "freed"
    /\ Started(FALSE)
    /\ UNCHANGED <<mem, registered, irq, hub, chip, change, event, asked>>

-----------------------------------------------------------------------------
(* handle_pm_event.                                                        *)

Suspend ==
    /\ pm /\ pc = "none" /\ asked = "on"
    /\ asked' = "suspend"
    /\ control' = "SUSPEND" /\ hc_control' = "SUSPEND"
    /\ UNCHANGED <<job, pc, resources, root_hub, disabled, IR, MIE, hub,
                   change, event>>

(* Mutant: a wakeup by a device is not finished.                           *)
OnlySuspend == {"SUSPEND"}
Resumable == {"SUSPEND", "RESUME"}

ResumeOper ==
    /\ pm /\ pc = "none"
    /\ control \in Resumable
    /\ asked' = "on"
    /\ control' = "OPER" /\ hc_control' = "OPER"
    /\ UNCHANGED <<job, pc, resources, root_hub, disabled, IR, MIE, hub,
                   change, event>>

(* Any other state is odd, line 2155.                                      *)
ResumeOdd ==
    /\ pm /\ pc = "none"
    /\ control \notin Resumable \cup {"RESET"}
    /\ asked' = "on" /\ hc_control' = control
    /\ UNCHANGED <<job, pc, resources, root_hub, disabled, control, IR, MIE,
                   hub, change, event>>

(* Power was lost, lines 2130-2142: all devices are disconnected, the      *)
(* lists are emptied, the controller is started anew.                      *)
ResumeLost ==
    /\ pm /\ pc = "none"
    /\ control = "RESET"
    /\ asked' = "on"
    /\ disabled' = TRUE /\ hc_control' = control
    /\ Goto("resume", "disconnect")
    /\ UNCHANGED <<resources, root_hub, control, IR, MIE, hub, change, event>>

ResumeReset(result) ==
    /\ job = "resume" /\ pc = "reset"
    /\ hc_reset(result)
    /\ disabled' = (result # "ok")
    /\ IF result = "ok" THEN Goto("resume", "start") ELSE Done
    /\ UNCHANGED <<resources, root_hub, hub, event, asked>>

-----------------------------------------------------------------------------
(* ohci_hcd_cleanup and hc_release_ohci.                                   *)

(* Mutant: the handler of power events stays registered.                   *)
PmKept == pm
PmUnregistered == FALSE

ohci_hcd_cleanup ==
    /\ mem /\ pc = "none"
    /\ pm' = PmUnregistered
    /\ Goto("release", "disconnect")
    /\ UNCHANGED <<mem, registered, irq, dumper, root_hub, disabled, chip, hub,
                   change, event, asked>>

(* usb_disconnect takes the drivers off all devices, the root hub last     *)
(* (HubRemove), and clears bus->root_hub; nothing is done if that is NULL. *)
Disconnect ==
    /\ pc = "disconnect" /\ root_hub # "freed"
    /\ root_hub' = "NULL"
    /\ ~ bound
    /\ Goto(job, "reset")
    /\ UNCHANGED <<resources, disabled, chip, hub, change, event, asked>>

ReleaseReset(result) ==
    /\ job = "release" /\ pc = "reset"
    /\ hc_reset(result)
    /\ disabled' = (disabled /\ result # "ok")
    /\ Goto("release", "free")
    /\ UNCHANGED <<resources, root_hub, hub, event, asked>>

(* SideDumper_RemoveDumper never returns if the dumper was not installed.  *)
Release ==
    /\ job = "release" /\ pc = "free"
    /\ control' = "RESET"
    /\ irq' = FALSE /\ registered' = FALSE /\ mem' = FALSE
    /\ dumper' = FALSE
    /\ event' = FALSE
    /\ IF dumper THEN Done ELSE Goto("release", "hangs")
    /\ UNCHANGED <<pm, root_hub, disabled, hc_control, IR, MIE, hub, change,
                   asked>>

-----------------------------------------------------------------------------
Found == hc_alloc_ohci \/ \E ok \in BOOLEAN : RequestIrq(ok)
Start == StartNoDevice \/ StartDevice \/ NewDevice \/ NewDeviceFails
Power == Suspend \/ ResumeOper \/ ResumeOdd \/ ResumeLost
Reset == \E r \in Results : FoundReset(r) \/ ResumeReset(r) \/ ReleaseReset(r)
End   == ohci_hcd_cleanup \/ Disconnect \/ Release
Environment ==
    \/ HubProbe \/ HubRemove \/ HubThread
    \/ \E p \in Ports \cup {0} : PortChange(p)
    \/ UnrecoverableError \/ RemoteWakeup \/ PowerLost \/ ep_rm_ed

Next == Found \/ Start \/ Power \/ Reset \/ End \/ rh_int_timer_do \/ Environment

(* The kernel runs timers that are due, and the hub's thread.              *)
Fairness == WF_vars(rh_int_timer_do) /\ WF_vars(HubThread)

Spec == Init /\ [][Next]_vars
FairSpec == Spec /\ Fairness

-----------------------------------------------------------------------------
(* Properties.                                                             *)

RunType ==
    /\ job \in {"none", "found", "resume", "release"}
    /\ pc \in {"none", "reset", "register", "start", "new_device", "disconnect",
               "free", "hangs"}
    /\ mem \in BOOLEAN /\ registered \in BOOLEAN /\ irq \in BOOLEAN
    /\ pm \in BOOLEAN /\ dumper \in BOOLEAN /\ disabled \in BOOLEAN
ChipType ==
    /\ control \in States /\ hc_control \in States
    /\ IR \in BOOLEAN /\ MIE \in BOOLEAN
    /\ asked \in {"on", "suspend"}
HubType ==
    /\ root_hub \in {"NULL", "live", "freed"} /\ bound \in BOOLEAN
    /\ send \in BOOLEAN /\ timer \in BOOLEAN /\ event \in BOOLEAN
    /\ change \subseteq Ports \cup {0}
TypeOK == RunType /\ ChipType /\ HubType

(* The timer never runs with an urb that was unlinked, or after the root   *)
(* hub or the memory it uses is gone, though nothing but the hub driver's  *)
(* unlinking stops it (line 1791): not when the controller was disabled,   *)
(* restarted after a loss of power, or released.                           *)
TimerOwned == timer => bound /\ root_hub = "live" /\ mem

(* While the hub driver waits for changes and the controller is not        *)
(* disabled, the timer runs: hc_reset, which enables the controller again, *)
(* never finds an urb whose timer has run out meanwhile.                   *)
PollKept == send /\ ~ disabled => timer

(* After any sequence of losses of power, wakeups and failed or repeated   *)
(* resumes, a controller that was asked to be on and is not disabled runs, *)
(* set up by hc_start.                                                     *)
ResumedRuns ==
    pm /\ pc = "none" /\ asked = "on" /\ ~ disabled => control = "OPER" /\ MIE

(* What the driver holds is given back when it is unloaded or its start    *)
(* has failed, in whatever step; and without its handler the controller    *)
(* does not interrupt: free_irq comes after hc_reset even if that fails,   *)
(* hc_start after request_irq.  (The entry in ohci_hcd_list, line 2071, is *)
(* left out: only ohci_hcd_cleanup removes it, at line 2181, so that a     *)
(* failed start leaves it behind.)                                         *)
NothingHeld ==
    /\ ~ irq => ~ MIE
    /\ ~ mem =>
        /\ ~ registered /\ ~ irq /\ ~ pm /\ ~ dumper
        /\ ~ send /\ ~ timer /\ ~ bound /\ root_hub = "NULL"

(* A change at a port, or of the hub, reaches the hub driver and is        *)
(* handled as long as the driver polls the hub and the controller runs.    *)
ChangeHandled ==
    \A p \in Ports \cup {0} :
        p \in change ~> p \notin change \/ ~ send \/ disabled \/ ~ Sound
=============================================================================
