------------------------------- MODULE Driver -------------------------------
(***************************************************************************)
(* The life of the controller together with the /proc interface:           *)
(* hc_found_ohci ends with SideDumper_InstallDumper, which installs the    *)
(* entries once its thread runs (side_dumper_core.c:806); hc_release_ohci  *)
(* ends with SideDumper_RemoveDumper, which removes them when the thread   *)
(* is gone (830).                                                          *)
(***************************************************************************)
EXTENDS HcLife, ProcFs

DriverInit == Init /\ ProcInit

(* A module is not removed while it is being loaded.                       *)
Installing == todo # <<>>

DriverNext ==
    \/ Next /\ dumper' = dumper /\ ~ (Installing /\ ohci_hcd_cleanup)
       /\ UNCHANGED procVars
    \/ Next /\ ~ dumper /\ dumper' /\ InstallProcFs
    \/ Next /\ dumper /\ ~ dumper' /\ RemoveProcFs
    \/ ProcStep /\ UNCHANGED vars

DriverSpec ==
    DriverInit /\ [][DriverNext]_<<vars, procVars>> /\ Fairness

(* When the driver is gone, whatever part of its start failed, no file     *)
(* that calls it is left in /proc; of the directories one may be.          *)
NoFileLeft == ~ dumper => entries \subseteq {Global("device_settings")}
=============================================================================
