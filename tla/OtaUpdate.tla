----------------------------- MODULE OtaUpdate ------------------------------
(* SettingsExtraOTAUpdate.java hands packages over to the recovery: files are *)
(* copied one after the other, init runs uncrypt on the copy of the OTA       *)
(* package, the recovery command is written and the device reboots.  With the *)
(* reboot options of AdvancedRebootExtra.java and the menu of                 *)
(* recovery_ui.cpp.                                                           *)
(*                                                                            *)
(* The handler runs on the main thread of an application that may be killed   *)
(* at any point, most likely while it waits for uncrypt in a busy loop; files *)
(* and the init service carry on.                                             *)
EXTENDS Naturals, FiniteSets

CONSTANT LastPackage   \* checkedItems.length - 1

ASSUME LastAssumption == LastPackage \in Nat

VARIABLES sdcard,  \* packages present in /sdcard
          chosen,  \* checkedItems of the last dialog confirmed
          phase,   \* where the handler of OK is
          i,       \* loop counter
          acc,     \* command_string
          copy,    \* the copies in /data/cache and /cache/recovery
          map,     \* update.map: none, of the present copy, of an earlier one
          svc,     \* init.svc.uncrypt_custom, "" before the first start
          reads,   \* the running uncrypt reads the present copy
          written, \* /cache/recovery/command exists
          command, \* the packages it names
          mode,    \* system or recovery
          doubt,   \* history: uncrypt failed or could not be started, or an attempt
                   \* began while uncrypt was still running or a command not yet
                   \* executed
          ordered, \* history: what the attempt that wrote the command had confirmed
          refused  \* history: init was not reached, with no earlier run to wait for

handler == <<chosen, phase, i, acc>>
cache == <<copy, map, written, command>>
uncrypt == <<svc, reads>>
history == <<doubt, ordered, refused>>
vars == <<sdcard, handler, cache, uncrypt, mode, history>>

Packages == 0 .. LastPackage
Ota == 0
Phases == {"idle", "loop", "copying", "start", "wait", "reboot"}

Init ==
  /\ sdcard \in SUBSET Packages
  /\ chosen = {} /\ phase = "idle" /\ i = 0 /\ acc = {}
  /\ copy = [p \in Packages |-> "none"] /\ map = "none"
  /\ svc = "" /\ reads = FALSE
  /\ written = FALSE /\ command = {} /\ mode = "system"
  /\ doubt = FALSE /\ ordered = {} /\ refused = FALSE

\* The positive button.
OnClick ==
  /\ mode = "system" /\ phase = "idle"
  /\ chosen' \in SUBSET Packages
  /\ phase' = "loop" /\ i' = 0 /\ acc' = {}
  /\ doubt' = (doubt \/ svc = "running" \/ written)
  /\ refused' = FALSE
  /\ UNCHANGED <<sdcard, cache, uncrypt, mode, ordered>>

\* The head of the loop: only the first package ever has a map.
DeletesMap == map' = IF i = Ota THEN "none" ELSE map

Unchecked ==
  /\ phase = "loop" /\ i \in Packages \ chosen
  /\ DeletesMap
  /\ i' = i + 1
  /\ UNCHANGED <<sdcard, chosen, phase, acc, copy, written, command, uncrypt, mode, history>>

\* Mutated form: a missing package is skipped.
MutNotPresent ==
  /\ phase = "loop" /\ i \in chosen \ sdcard
  /\ DeletesMap
  /\ i' = i + 1
  /\ UNCHANGED <<sdcard, chosen, phase, acc, copy, written, command, uncrypt, mode, history>>
NotPresent ==
  /\ phase = "loop" /\ i \in chosen \ sdcard
  /\ DeletesMap
  /\ phase' = "idle"
  /\ UNCHANGED <<sdcard, chosen, i, acc, copy, written, command, uncrypt, mode, history>>

\* The old copy is deleted; an uncrypt that was reading it goes on reading it.
CopyBegins ==
  /\ phase = "loop" /\ i \in chosen \cap sdcard
  /\ DeletesMap
  /\ copy' = [copy EXCEPT ![i] = "partial"]
  /\ reads' = (reads /\ i # Ota)
  /\ phase' = "copying"
  /\ UNCHANGED <<sdcard, chosen, i, acc, written, command, svc, mode, history>>

CopyDone ==
  /\ phase = "copying"
  /\ copy' = [copy EXCEPT ![i] = "complete"]
  /\ IF i = Ota THEN phase' = "start" /\ UNCHANGED <<i, acc>>
     ELSE phase' = "loop" /\ acc' = acc \cup {i} /\ i' = i + 1
  /\ UNCHANGED <<sdcard, chosen, map, written, command, uncrypt, mode, history>>

\* IOException.
CopyFails ==
  /\ phase = "copying"
  /\ phase' = "idle"
  /\ UNCHANGED <<sdcard, chosen, i, acc, cache, uncrypt, mode, history>>

\* Mutated form: the wait begins before the service was started.
MutStartUncrypt ==
  /\ phase = "start"
  /\ phase' = "wait"
  /\ UNCHANGED <<sdcard, chosen, i, acc, cache, uncrypt, mode, history>>
\* ctl.start does nothing for a service that is running; Utils.setProp does not
\* look at the exit status of setprop, so that a failed start goes unnoticed.
StartUncrypt ==
  /\ phase = "start"
  /\ phase' = "wait"
  /\ \/ /\ IF svc = "running" THEN UNCHANGED uncrypt
           ELSE svc' = "running" /\ reads' = TRUE
        /\ UNCHANGED <<doubt, refused>>
     \/ /\ doubt' = TRUE /\ refused' = (svc = "")
        /\ UNCHANGED uncrypt
  /\ UNCHANGED <<sdcard, chosen, i, acc, cache, mode, ordered>>

\* uncrypt, external: writes the map of the blocks it has read, or fails.
UncryptEnds ==
  /\ svc = "running"
  /\ svc' = "stopped"
  /\ \/ map' = (IF reads THEN "present" ELSE "earlier") /\ UNCHANGED doubt
     \/ doubt' = TRUE /\ UNCHANGED map
  /\ UNCHANGED <<sdcard, handler, copy, written, command, reads, mode, ordered, refused>>

\* Mutated form: waits for the service to have started, not to have ended.
MutWaitOver ==
  /\ phase = "wait" /\ svc # ""
  /\ phase' = "loop" /\ acc' = acc \cup {Ota} /\ i' = i + 1
  /\ UNCHANGED <<sdcard, chosen, cache, uncrypt, mode, history>>
\* "Wait for the uncrypt service to have completed this step"
WaitOver ==
  /\ phase = "wait" /\ svc = "stopped"
  /\ phase' = "loop" /\ acc' = acc \cup {Ota} /\ i' = i + 1
  /\ UNCHANGED <<sdcard, chosen, cache, uncrypt, mode, history>>

\* Utils.writeToFile only logs a failure: the file is then empty, or, when it
\* could not be opened, what it was.  reboot is true whatever was checked.
WriteCommand ==
  /\ phase = "loop" /\ i = LastPackage + 1
  /\ \/ written' = TRUE /\ command' \in {acc, {}} /\ ordered' = chosen
     \/ UNCHANGED <<written, command, ordered>>
  /\ phase' = "reboot"
  /\ UNCHANGED <<sdcard, chosen, i, acc, copy, map, uncrypt, mode, doubt, refused>>

\* The device goes down: the application and init's services end.
Down == phase' = "idle" /\ svc' = "" /\ reads' = FALSE

RebootRecovery ==
  /\ phase = "reboot"
  /\ mode' = "recovery"
  /\ Down
  /\ UNCHANGED <<sdcard, chosen, i, acc, cache, history>>

\* showAdvancedRebootOptions: shutdown, reboot and bootloader come back to the
\* system.
AdvancedReboot ==
  /\ mode = "system" /\ phase = "idle"
  /\ mode' \in {"system", "recovery"}
  /\ Down
  /\ UNCHANGED <<sdcard, chosen, i, acc, cache, history>>

Killed ==
  /\ phase # "idle"
  /\ phase' = "idle"
  /\ UNCHANGED <<sdcard, chosen, i, acc, cache, uncrypt, mode, history>>

UserFiles ==
  /\ mode = "system"
  /\ \E p \in Packages : sdcard' = (sdcard \ {p}) \cup ({p} \ sdcard)
  /\ UNCHANGED <<handler, cache, uncrypt, mode, history>>

-----------------------------------------------------------------------------
\* The recovery, external but for its menu.  A command is executed and removed.
BackToSystem ==
  /\ mode' = "system" /\ written' = FALSE /\ command' = {} /\ doubt' = FALSE
  /\ ordered' = {} /\ refused' = FALSE

RecoveryInstalls ==
  /\ mode = "recovery" /\ command # {}
  /\ BackToSystem
  /\ UNCHANGED <<sdcard, handler, copy, map, uncrypt>>

\* InvokeMenuItem; other positions are NO_ACTION.
InvokeMenuItem(position) ==
  CASE position = 0 -> "REBOOT"
    [] position = 1 -> "APPLY_ADB_SIDELOAD"
    [] position = 2 -> "WIPE_DATA"
    [] position = 3 -> "WIPE_CACHE"
    [] OTHER -> "NO_ACTION"

\* Without packages to install the recovery shows its menu.
RecoveryMenu(position) ==
  LET action == InvokeMenuItem(position)
  IN  /\ mode = "recovery" /\ command = {}
      /\ \/ /\ action = "REBOOT"
            /\ BackToSystem
            /\ UNCHANGED <<sdcard, copy, map>>
         \/ /\ action \in {"APPLY_ADB_SIDELOAD", "NO_ACTION"}
            /\ UNCHANGED <<sdcard, cache, mode, history>>
         \/ /\ action = "WIPE_DATA"
            /\ sdcard' = {} /\ copy' = [copy EXCEPT ![Ota] = "none"]
            /\ UNCHANGED <<map, written, command, mode, history>>
         \/ /\ action = "WIPE_CACHE"
            /\ copy' = [p \in Packages |-> IF p = Ota THEN copy[p] ELSE "none"]
            /\ map' = "none" /\ written' = FALSE /\ command' = {}
            /\ UNCHANGED <<sdcard, mode, history>>
      /\ UNCHANGED <<handler, uncrypt>>

Next ==
  \/ OnClick \/ Unchecked \/ NotPresent \/ CopyBegins \/ CopyDone \/ CopyFails
  \/ StartUncrypt \/ UncryptEnds \/ WaitOver \/ WriteCommand \/ RebootRecovery
  \/ AdvancedReboot \/ Killed \/ UserFiles \/ RecoveryInstalls
  \/ \E position \in 0 .. 4 : RecoveryMenu(position)

\* The handler runs on, and uncrypt ends.
Fairness ==
  /\ WF_vars(Unchecked \/ NotPresent \/ CopyBegins \/ CopyDone \/ CopyFails
             \/ StartUncrypt \/ WaitOver \/ WriteCommand \/ RebootRecovery)
  /\ WF_vars(UncryptEnds)

Spec == Init /\ [][Next]_vars /\ Fairness

-----------------------------------------------------------------------------
\* Every variable holds a value the program can give it.
TypeOK ==
  /\ sdcard \subseteq Packages /\ chosen \subseteq Packages /\ acc \subseteq Packages
  /\ phase \in Phases /\ i \in 0 .. LastPackage + 1
  /\ copy \in [Packages -> {"none", "partial", "complete"}]
  /\ map \in {"none", "present", "earlier"}
  /\ svc \in {"", "running", "stopped"} /\ reads \in BOOLEAN
  /\ written \in BOOLEAN /\ command \subseteq Packages
  /\ mode \in {"system", "recovery"} /\ doubt \in BOOLEAN
  /\ ordered \subseteq Packages /\ refused \in BOOLEAN

\* Every package the recovery is told to install is a complete copy, and the
\* block map it installs the OTA package from belongs to that copy.  Excepted
\* are an uncrypt that failed or was never started, whose result the updater does
\* not look at, and an attempt that begins while an earlier one's uncrypt runs or
\* its command waits: the map may then be the one of the deleted copy.
PackagesReady ==
  mode = "recovery" /\ ~doubt =>
    \A p \in command : copy[p] = "complete" /\ (p = Ota => map = "present")

\* Whatever leads into the recovery, and however many attempts were killed, given
\* up or failed before, it installs all of what the user confirmed in one dialog
\* or nothing, never a part.  The dialog is the one whose attempt wrote
\* /cache/recovery/command, not always the last: a command that was written and
\* not executed stays for a later reboot.
InstallsChosen == mode = "recovery" => command \in {ordered, {}}

\* The handler always ends: the busy loop does not wait for something that has
\* already happened or never will.  Excepted is a start that failed unnoticed
\* when uncrypt has not run since the boot.
UpdateEnds == phase # "idle" ~> phase = "idle" \/ refused
=============================================================================
