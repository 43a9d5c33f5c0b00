------------------------------- MODULE ProcFs -------------------------------
(***************************************************************************)
(* The /proc interface of the side dumper (side_dumper_procfs.c): a file   *)
(* each for the enabled and the disabled devices, and a directory with one *)
(* file for the settings of every device.  Entries are made one by one,    *)
(* each call may sleep or fail; whoever writes to a file sleeps in         *)
(* copy_from_user.  Of the settings there are oEnabled and any others the  *)
(* instance names; reading the files changes nothing and is left out.      *)
(***************************************************************************)
EXTENDS Integers, FiniteSets, Sequences, SequencesExt

CONSTANTS
    Devices,        \* numbers of the devices the dumper has settings for
    Others,         \* settings other than oEnabled
    Writers         \* processes that write device settings

ASSUME DeviceAssumption == Devices \subseteq Nat

VARIABLES
    entries,        \* the entries in /proc
    todo,           \* of InstallProcFs: the entries not yet tried
    pRootDir, pSettingsDir,     \* not NULL
    settings,       \* aDevSettings
    writer,         \* of each writer: the device, and the settings it copied
    intended,       \* history: the value last written to each setting
    raced           \* history: settings written while a writer held a copy

procVars == <<entries, todo, pRootDir, pSettingsDir, settings, writer,
              intended, raced>>
tree == <<entries, todo, pRootDir, pSettingsDir>>

Fields == Others \cup {"oEnabled"}
Values == {0, 1}
Default == [d \in Devices |-> [f \in Fields |-> 0]]
Idle == [dev |-> -1, s |-> <<>>]

Global(name) == <<name, 0>>
Device(d) == <<"device", d>>

(* The devices that get an entry: numbers 1 to 99, lines 364-384, 396-409. *)
Numbered == Devices \cap 1 .. 99

(* The settings as they are when the module is loaded.                     *)
Loaded ==
    /\ settings' = Default /\ intended' = Default /\ raced' = {}
    /\ writer' = [w \in Writers |-> Idle]

ProcInit ==
    /\ entries = {} /\ todo = <<>>
    /\ pRootDir = FALSE /\ pSettingsDir = FALSE
    /\ settings = Default /\ intended = Default /\ raced = {}
    /\ writer = [w \in Writers |-> Idle]

-----------------------------------------------------------------------------
InstallProcFs ==
    /\ todo' = <<Global("side_dumper"), Global("enabled"), Global("disabled"),
                 Global("device_settings"), Global("all")>>
               \o SetToSeq({ Device(d) : d \in Numbered })
    /\ UNCHANGED <<entries, pRootDir, pSettingsDir, settings, writer, intended,
                   raced>>

Created ==
    /\ todo # <<>>
    /\ entries' = entries \cup {Head(todo)}
    /\ pRootDir' = (pRootDir \/ Head(todo) = Global("side_dumper"))
    /\ pSettingsDir' = (pSettingsDir \/ Head(todo) = Global("device_settings"))
    /\ todo' = Tail(todo)
    /\ UNCHANGED <<settings, writer, intended, raced>>

(* A failure ends it, but for the last entries, those in device_settings.  *)
NotCreated ==
    /\ todo # <<>>
    /\ todo' = IF pSettingsDir THEN Tail(todo) ELSE <<>>
    /\ UNCHANGED <<entries, pRootDir, pSettingsDir, settings, writer, intended,
                   raced>>

(* Mutant: nothing is removed unless everything was installed.             *)
RemovedIfComplete ==
    IF pSettingsDir THEN entries \ {Global("device_settings")} ELSE {}

(* device_settings is looked for in the root of /proc, line 412, and stays.*)
Removed ==
    (IF pSettingsDir
     THEN { Device(d) : d \in Numbered } \cup {Global("all")} ELSE {})
    \cup (IF pRootDir
          THEN { Global(n) : n \in {"side_dumper", "enabled", "disabled"} }
          ELSE {})

(* The module is unloaded then; a writer that still sleeps finds the code  *)
(* gone, which is not followed.                                            *)
RemoveProcFs ==
    /\ entries' = entries \ Removed
    /\ pRootDir' = FALSE /\ pSettingsDir' = FALSE /\ todo' = <<>>
    /\ Loaded

-----------------------------------------------------------------------------
(* Writes to the files.                                                    *)

Held(d, others) == \E v \in others : writer[v].dev = d

Over(changes, s) ==
    [f \in Fields |-> IF f \in DOMAIN changes THEN changes[f] ELSE s[f]]

Named(d, changes) == { <<d, f>> : f \in DOMAIN changes }

(* The settings of d named in changes are written over the copy s.         *)
Written(d, s, changes, others) ==
    /\ settings' = [settings EXCEPT ![d] = Over(changes, s)]
    /\ intended' = [intended EXCEPT ![d] = Over(changes, @)]
    /\ raced' = IF Held(d, others) THEN raced \cup Named(d, changes)
                ELSE raced \ Named(d, changes)

(* Write_Enabled and Write_Disabled; a number beyond the table is ignored. *)
(* Several numbers are so many writes.                                     *)
WriteEnabled(d, on) ==
    /\ Global(IF on = 1 THEN "enabled" ELSE "disabled") \in entries
    /\ Written(d, settings[d], [f \in {"oEnabled"} |-> on], Writers)
    /\ UNCHANGED <<tree, writer>>

(* Mutant: the copy is not filled in.                                      *)
DefaultOf(d) == Default[d]
SettingsOf(d) == settings[d]

(* Write_DeviceSettings up to copy_from_user, which sleeps.                *)
WriterCopies(w, d) ==
    /\ writer[w] = Idle /\ Device(d) \in entries
    /\ writer' = [writer EXCEPT ![w] = [dev |-> d, s |-> SettingsOf(d)]]
    /\ UNCHANGED <<tree, settings, intended, raced>>

(* The rest: the text names some settings, each is put into the copy and   *)
(* the copy is stored; if it names none nothing is stored.                 *)
WriterStores(w, changes) ==
    /\ writer[w] # Idle
    /\ writer' = [writer EXCEPT ![w] = Idle]
    /\ IF DOMAIN changes = {} THEN UNCHANGED <<settings, intended, raced>>
       ELSE Written(writer[w].dev, writer[w].s, changes, Writers \ {w})
    /\ UNCHANGED tree

Write ==
    \/ \E d \in Devices, on \in Values : WriteEnabled(d, on)
    \/ \E w \in Writers, d \in Devices : WriterCopies(w, d)
    \/ \E w \in Writers, F \in SUBSET Fields : \E changes \in [F -> Values] :
           WriterStores(w, changes)

ProcStep == Created \/ NotCreated \/ Write

-----------------------------------------------------------------------------
(* Properties.                                                             *)

(* A setting has the value last written to it, through whichever file,     *)
(* unless it was written while another process was in the middle of        *)
(* Write_DeviceSettings for the same device: only then may that process    *)
(* put back the value it copied before it slept.                           *)
SettingsKept ==
    \A d \in Devices, f \in Fields :
        <<d, f>> \notin raced => settings[d][f] = intended[d][f]
=============================================================================
