-------------------------- MODULE OtaUpdate_proofs ---------------------------
(* For every number of packages: what the recovery is told to install is what *)
(* the user confirmed in one dialog, completely copied and with the map of    *)
(* the present copy.                                                          *)
EXTENDS OtaUpdate, Integers, TLAPS

\* The handler is between the confirmation and the recovery command.
Collecting == phase \in {"loop", "copying", "start", "wait"}

\* The loop: the packages checked so far are in command_string, all of them
\* completely copied, and the file at hand is a checked one.
LoopInv ==
  /\ Collecting => acc = {p \in chosen : p < i} /\ \A p \in acc : copy[p] = "complete"
  /\ phase \in {"copying", "start", "wait"} => i \in chosen
  /\ phase \in {"start", "wait"} => i = Ota /\ copy[i] = "complete"

\* uncrypt: started by this attempt, and over when the loop goes on.
UncryptInv ==
  ~doubt =>
    /\ phase \in {"loop", "copying", "start", "reboot"} => svc # "running"
    /\ phase \in {"loop", "copying"} /\ Ota \in acc => map = "present" /\ i # Ota
    /\ phase = "wait" => (svc = "running" /\ reads) \/ (svc = "stopped" /\ map = "present")

\* The recovery command: written at the end of an attempt, whole or empty, and
\* nothing it relies on changes before it is executed.
CommandInv ==
  /\ ~written => command = {}
  /\ command \in {ordered, {}}
  /\ Collecting /\ ~doubt => ~written
  /\ written /\ ~doubt =>
       /\ svc # "running"
       /\ \A p \in command : copy[p] = "complete" /\ (p = Ota => map = "present")

\* In the recovery neither the application nor a service of init runs.
ModeInv == mode = "recovery" => phase = "idle" /\ svc = ""

IInv == TypeOK /\ LoopInv /\ UncryptInv /\ CommandInv /\ ModeInv

LEMMA IInvInit == Init => IInv
<1> SUFFICES ASSUME Init PROVE IInv
  OBVIOUS
<1>1. TypeOK
  <2>1. i \in 0 .. LastPackage + 1
    <3>1. i = 0
      BY DEF Init
    <3> QED BY <3>1, LastAssumption
  <2>2. copy \in [Packages -> {"none", "partial", "complete"}]
    BY DEF Init
  <2> QED BY <2>1, <2>2 DEF Init, TypeOK, Phases
<1>2. LoopInv /\ UncryptInv /\ CommandInv /\ ModeInv
  BY DEF Init, LoopInv, UncryptInv, CommandInv, ModeInv, Collecting
<1> QED BY <1>1, <1>2 DEF IInv

\* Counting one package further: the checked ones below the counter.
LEMMA OneFurther ==
  ASSUME NEW c \in SUBSET Packages, NEW n \in Packages
  PROVE  /\ n + 1 \in 0 .. LastPackage + 1
         /\ n \in c => {p \in c : p < n + 1} = {p \in c : p < n} \cup {n}
         /\ n \notin c => {p \in c : p < n + 1} = {p \in c : p < n}
<1>1. \A p \in c : p \in Int
  BY LastAssumption DEF Packages
<1>2. n \in Int /\ n + 1 \in 0 .. LastPackage + 1
  BY LastAssumption DEF Packages
<1>3. \A p \in c : p < n + 1 <=> p < n \/ p = n
  BY <1>1, <1>2
<1> QED BY <1>2, <1>3

\* Where counting begins and ends.
LEMMA Counted ==
  ASSUME NEW c \in SUBSET Packages
  PROVE  {p \in c : p < 0} = {} /\ {p \in c : p < LastPackage + 1} = c
<1>1. \A p \in c : p \in Int /\ p >= 0 /\ p <= LastPackage
  BY LastAssumption DEF Packages
<1>2. \A p \in c : ~(p < 0) /\ p < LastPackage + 1
  BY <1>1, LastAssumption
<1> QED BY <1>2

\* The parts of the invariant, one action at a time.
LEMMA IInvNext == IInv /\ [Next]_vars => IInv'
<1> SUFFICES ASSUME IInv, [Next]_vars PROVE IInv'
  OBVIOUS
<1> USE DEF IInv
<1>0. /\ chosen \in SUBSET Packages /\ i \in 0 .. LastPackage + 1
      /\ copy \in [Packages -> {"none", "partial", "complete"}]
      /\ \A p \in Packages : p \in Int
  <2>1. \A p \in Packages : p \in Int
    BY LastAssumption DEF Packages
  <2> QED BY <2>1 DEF TypeOK
<1>1. CASE OnClick
  <2>1. /\ chosen' \in SUBSET Packages /\ phase' = "loop" /\ i' = 0 /\ acc' = {}
        /\ doubt' = (doubt \/ svc = "running" \/ written) /\ mode = "system"
        /\ UNCHANGED <<sdcard, copy, map, written, command, svc, reads, mode, ordered>>
        /\ refused' = FALSE
    BY <1>1 DEF OnClick, cache, uncrypt
  <2>2. TypeOK'
    <3>1. i' \in 0 .. LastPackage + 1
      BY <2>1, LastAssumption
    <3> QED BY <2>1, <3>1 DEF TypeOK, Phases
  <2>3. LoopInv'
    <3>1. {p \in chosen' : p < i'} = {}
      BY <2>1, Counted
    <3> QED BY <2>1, <3>1 DEF LoopInv
  <2>4. UncryptInv' /\ CommandInv' /\ ModeInv'
    BY <2>1 DEF UncryptInv, CommandInv, ModeInv, Collecting
  <2> QED BY <2>2, <2>3, <2>4
<1>2. CASE Unchecked
  <2>1. /\ phase = "loop" /\ i \in Packages /\ i \notin chosen /\ i' = i + 1
        /\ map' = (IF i = Ota THEN "none" ELSE map)
        /\ UNCHANGED <<sdcard, chosen, phase, acc, copy, written, command, svc, reads, mode, doubt, ordered, refused>>
    BY <1>2 DEF Unchecked, DeletesMap, uncrypt, history
  <2>2. i' \in 0 .. LastPackage + 1 /\ {p \in chosen : p < i'} = {p \in chosen : p < i}
    BY <1>0, <2>1, OneFurther
  <2>3. TypeOK'
    BY <2>1, <2>2 DEF TypeOK
  <2>4. LoopInv'
    BY <2>1, <2>2 DEF LoopInv, Collecting
  <2>5. UncryptInv'
    <3>1. i' # Ota
      BY <1>0, <2>1 DEF Ota, Packages
    <3> QED BY <2>1, <3>1 DEF UncryptInv
  <2>6. CommandInv' /\ ModeInv'
    BY <2>1 DEF CommandInv, ModeInv, Collecting
  <2> QED BY <2>3, <2>4, <2>5, <2>6
<1>3. CASE NotPresent
  <2> USE <1>3 DEF NotPresent, DeletesMap, uncrypt, history
  <2>1. TypeOK'
    BY DEF TypeOK, Phases
  <2>2. LoopInv' /\ UncryptInv' /\ ModeInv'
    BY DEF LoopInv, UncryptInv, ModeInv, Collecting
  <2>3. CommandInv'
    BY DEF CommandInv, Collecting
  <2> QED BY <2>1, <2>2, <2>3
<1>4. CASE CopyBegins
  <2>1. /\ phase = "loop" /\ i \in chosen /\ i \in Packages /\ phase' = "copying"
        /\ map' = (IF i = Ota THEN "none" ELSE map)
        /\ copy' = [copy EXCEPT ![i] = "partial"] /\ reads' \in BOOLEAN
        /\ UNCHANGED <<sdcard, chosen, i, acc, written, command, svc, mode, doubt, ordered, refused>>
    BY <1>0, <1>4 DEF CopyBegins, DeletesMap, history
  <2>2. TypeOK'
    BY <1>0, <2>1 DEF TypeOK, Phases
  <2>3. LoopInv'
    <3>1. i \notin acc /\ \A p \in acc : p \in Packages
      <4>1. acc = {p \in chosen : p < i} /\ acc \subseteq Packages
        BY <2>1 DEF LoopInv, Collecting, TypeOK
      <4>2. ~(i < i)
        BY <1>0, <2>1
      <4> QED BY <4>1, <4>2
    <3>2. \A p \in acc : copy'[p] = copy[p]
      BY <1>0, <2>1, <3>1
    <3> QED BY <2>1, <3>2 DEF LoopInv, Collecting
  <2>4. UncryptInv'
    BY <2>1 DEF UncryptInv
  <2>5. CommandInv' /\ ModeInv'
    BY <2>1 DEF CommandInv, ModeInv, Collecting
  <2> QED BY <2>2, <2>3, <2>4, <2>5
<1>5. CASE CopyDone
  <2>1. /\ phase = "copying" /\ i \in chosen /\ i \in Packages
        /\ copy' = [copy EXCEPT ![i] = "complete"]
        /\ UNCHANGED <<sdcard, chosen, map, written, command, svc, reads, mode, doubt, ordered, refused>>
    BY <1>0, <1>5 DEF CopyDone, LoopInv, uncrypt, history
  <2>2. /\ copy' \in [Packages -> {"none", "partial", "complete"}] /\ copy'[i] = "complete"
        /\ \A p \in acc : copy'[p] = "complete"
    BY <1>0, <2>1 DEF LoopInv, Collecting, TypeOK
  <2>3. CASE i = Ota
    <3>1. phase' = "start" /\ i' = i /\ acc' = acc
      BY <1>5, <2>3 DEF CopyDone
    <3>2. TypeOK' /\ LoopInv'
      BY <2>1, <2>2, <2>3, <3>1 DEF TypeOK, Phases, LoopInv, Collecting
    <3>3. UncryptInv' /\ CommandInv' /\ ModeInv'
      BY <2>1, <3>1 DEF UncryptInv, CommandInv, ModeInv, Collecting
    <3> QED BY <3>2, <3>3
  <2>4. CASE i # Ota
    <3>1. phase' = "loop" /\ i' = i + 1 /\ acc' = acc \cup {i}
      BY <1>5, <2>4 DEF CopyDone
    <3>2. i' \in 0 .. LastPackage + 1 /\ {p \in chosen : p < i'} = {p \in chosen : p < i} \cup {i}
      BY <1>0, <2>1, <3>1, OneFurther
    <3>3. TypeOK'
      BY <2>1, <2>2, <3>1, <3>2 DEF TypeOK, Phases
    <3>4. LoopInv'
      BY <2>1, <2>2, <3>1, <3>2 DEF LoopInv, Collecting
    <3>5. i' # Ota
      BY <1>0, <2>1, <3>1 DEF Ota, Packages
    <3>6. UncryptInv' /\ CommandInv' /\ ModeInv'
      BY <2>1, <2>4, <3>1, <3>5 DEF UncryptInv, CommandInv, ModeInv, Collecting
    <3> QED BY <3>3, <3>4, <3>6
  <2> QED BY <2>3, <2>4
<1>6. CASE CopyFails
  <2> USE <1>6 DEF CopyFails, cache, uncrypt, history
  <2>1. TypeOK'
    BY DEF TypeOK, Phases
  <2>2. LoopInv' /\ UncryptInv' /\ CommandInv' /\ ModeInv'
    BY DEF LoopInv, UncryptInv, CommandInv, ModeInv, Collecting
  <2> QED BY <2>1, <2>2
<1>7. CASE StartUncrypt
  <2>1. /\ phase = "start" /\ phase' = "wait"
        /\ doubt' \in BOOLEAN /\ refused' \in BOOLEAN /\ (doubt' = doubt \/ doubt')
        /\ svc' \in {svc, "running"} /\ reads' \in BOOLEAN
        /\ ~doubt' => svc' = "running" /\ (svc # "running" => reads')
        /\ UNCHANGED <<sdcard, chosen, i, acc, copy, map, written, command, mode, ordered>>
    BY <1>7 DEF StartUncrypt, cache, uncrypt, TypeOK
  <2>2. TypeOK'
    BY <2>1 DEF TypeOK, Phases
  <2>3. LoopInv' /\ UncryptInv' /\ CommandInv' /\ ModeInv'
    BY <2>1 DEF LoopInv, UncryptInv, CommandInv, ModeInv, Collecting
  <2> QED BY <2>2, <2>3
<1>8. CASE UncryptEnds
  <2>1. /\ svc = "running" /\ svc' = "stopped"
        /\ doubt' \/ (map' = (IF reads THEN "present" ELSE "earlier") /\ doubt' = doubt)
        /\ map' \in {"none", "present", "earlier"} /\ doubt' \in BOOLEAN
        /\ UNCHANGED <<sdcard, chosen, phase, i, acc, copy, written, command, reads, mode, ordered, refused>>
    BY <1>8 DEF UncryptEnds, TypeOK, handler
  <2>2. TypeOK'
    BY <2>1 DEF TypeOK
  <2>3. LoopInv' /\ CommandInv' /\ ModeInv'
    BY <2>1 DEF LoopInv, CommandInv, ModeInv, Collecting
  <2>4. UncryptInv'
    BY <2>1 DEF UncryptInv
  <2> QED BY <2>2, <2>3, <2>4
<1>9. CASE WaitOver
  <2>1. /\ phase = "wait" /\ svc = "stopped" /\ phase' = "loop" /\ i' = i + 1
        /\ acc' = acc \cup {i} /\ i = Ota /\ i \in chosen /\ i \in Packages
        /\ copy[i] = "complete"
        /\ UNCHANGED <<sdcard, chosen, copy, map, written, command, svc, reads, mode, doubt, ordered, refused>>
    BY <1>0, <1>9 DEF WaitOver, LoopInv, cache, uncrypt, history
  <2>2. i' \in 0 .. LastPackage + 1 /\ {p \in chosen : p < i'} = {p \in chosen : p < i} \cup {i}
    BY <1>0, <2>1, OneFurther
  <2>3. TypeOK'
    BY <2>1, <2>2 DEF TypeOK, Phases
  <2>4. LoopInv'
    BY <2>1, <2>2 DEF LoopInv, Collecting
  <2>5. i' # Ota
    BY <1>0, <2>1 DEF Ota, Packages
  <2>6. UncryptInv' /\ CommandInv' /\ ModeInv'
    BY <2>1, <2>5 DEF UncryptInv, CommandInv, ModeInv, Collecting
  <2> QED BY <2>3, <2>4, <2>6
<1>10. CASE WriteCommand
  <2>1. /\ phase = "loop" /\ i = LastPackage + 1
        /\ \/ written' = TRUE /\ command' \in {acc, {}} /\ ordered' = chosen
           \/ UNCHANGED <<written, command, ordered>>
        /\ phase' = "reboot"
        /\ UNCHANGED <<sdcard, chosen, i, acc, copy, map, svc, reads, mode, doubt, refused>>
    BY <1>10 DEF WriteCommand, uncrypt
  <2>2. acc = chosen
    BY <1>0, <2>1, Counted DEF LoopInv, Collecting
  <2>3. TypeOK'
    BY <2>1 DEF TypeOK, Phases
  <2>4. LoopInv' /\ UncryptInv' /\ ModeInv'
    BY <2>1 DEF LoopInv, UncryptInv, ModeInv, Collecting
  <2>5. CommandInv'
    BY <2>1, <2>2 DEF CommandInv, LoopInv, UncryptInv, Collecting
  <2> QED BY <2>3, <2>4, <2>5
<1>11. CASE RebootRecovery
  <2> USE <1>11 DEF RebootRecovery, Down, cache, history
  <2>1. TypeOK'
    BY DEF TypeOK, Phases
  <2>2. LoopInv' /\ UncryptInv' /\ CommandInv' /\ ModeInv'
    BY DEF LoopInv, UncryptInv, CommandInv, ModeInv, Collecting
  <2> QED BY <2>1, <2>2
<1>12. CASE AdvancedReboot
  <2> USE <1>12 DEF AdvancedReboot, Down, cache, history
  <2>1. TypeOK'
    BY DEF TypeOK, Phases
  <2>2. LoopInv' /\ UncryptInv' /\ CommandInv' /\ ModeInv'
    BY DEF LoopInv, UncryptInv, CommandInv, ModeInv, Collecting
  <2> QED BY <2>1, <2>2
<1>13. CASE Killed
  <2> USE <1>13 DEF Killed, cache, uncrypt, history
  <2>1. TypeOK'
    BY DEF TypeOK, Phases
  <2>2. LoopInv' /\ UncryptInv' /\ CommandInv' /\ ModeInv'
    BY DEF LoopInv, UncryptInv, CommandInv, ModeInv, Collecting
  <2> QED BY <2>1, <2>2
<1>14. CASE UserFiles
  <2>1. /\ sdcard' \subseteq Packages
        /\ UNCHANGED <<chosen, phase, i, acc, copy, map, written, command, svc, reads, mode, doubt, ordered, refused>>
    BY <1>14 DEF UserFiles, TypeOK, handler, cache, uncrypt, history
  <2>2. TypeOK'
    BY <2>1 DEF TypeOK
  <2>3. LoopInv' /\ UncryptInv' /\ CommandInv' /\ ModeInv'
    BY <2>1 DEF LoopInv, UncryptInv, CommandInv, ModeInv, Collecting
  <2> QED BY <2>2, <2>3
<1>15. CASE RecoveryInstalls
  <2> USE <1>15 DEF RecoveryInstalls, BackToSystem, handler, uncrypt
  <2>1. TypeOK'
    BY DEF TypeOK
  <2>2. LoopInv' /\ UncryptInv' /\ CommandInv' /\ ModeInv'
    BY DEF LoopInv, UncryptInv, CommandInv, ModeInv, Collecting
  <2> QED BY <2>1, <2>2
<1>16. ASSUME NEW position \in 0 .. 4, RecoveryMenu(position) PROVE IInv'
  <2>1. /\ mode = "recovery" /\ command = {} /\ command' = {} /\ sdcard' \subseteq Packages
        /\ copy' \in [Packages -> {"none", "partial", "complete"}]
        /\ map' \in {map, "none"} /\ written' \in {written, FALSE}
        /\ mode' \in {"system", "recovery"} /\ doubt' \in {doubt, FALSE}
        /\ doubt' = doubt \/ written' = FALSE
        /\ ordered' \subseteq Packages /\ refused' \in BOOLEAN
        /\ UNCHANGED <<chosen, phase, i, acc, svc, reads>>
    BY <1>0, <1>16 DEF RecoveryMenu, BackToSystem, TypeOK, cache, handler, uncrypt, history
  <2>2. TypeOK'
    BY <2>1 DEF TypeOK
  <2>3. phase = "idle" /\ svc = ""
    BY <2>1 DEF ModeInv
  <2>4. LoopInv' /\ UncryptInv' /\ CommandInv' /\ ModeInv'
    BY <2>1, <2>3 DEF LoopInv, UncryptInv, CommandInv, ModeInv, Collecting
  <2> QED BY <2>2, <2>4
<1>17. CASE UNCHANGED vars
  <2>1. TypeOK'
    BY <1>0, <1>17 DEF vars, handler, cache, uncrypt, history, TypeOK
  <2>2. LoopInv' /\ UncryptInv'
    BY <1>0, <1>17 DEF vars, handler, cache, uncrypt, history, LoopInv, UncryptInv, Collecting
  <2>3. CommandInv' /\ ModeInv'
    BY <1>0, <1>17 DEF vars, handler, cache, uncrypt, history, CommandInv, ModeInv, Collecting
  <2> QED BY <2>1, <2>2, <2>3
<1> QED BY <1>1, <1>2, <1>3, <1>4, <1>5, <1>6, <1>7, <1>8, <1>9,
           <1>10, <1>11, <1>12, <1>13, <1>14, <1>15, <1>16, <1>17 DEF Next

-----------------------------------------------------------------------------
\* The inductive invariant holds in every state of every behaviour.
LEMMA Inductive == Spec => []IInv
BY IInvInit, IInvNext, PTL DEF Spec

\* Every variable keeps its type: the loop counter never runs past
\* checkedItems.length.
THEOREM TypeCorrect == Spec => []TypeOK
<1>1. IInv => TypeOK
  BY DEF IInv
<1> QED BY <1>1, Inductive, PTL

\* Whatever is killed, rebooted or wiped in between, the recovery finds complete
\* copies and the present map for what it is told to install.
THEOREM ReadyForRecovery == Spec => []PackagesReady
<1>1. IInv => PackagesReady
  BY DEF IInv, CommandInv, PackagesReady
<1> QED BY <1>1, Inductive, PTL

\* Across kills, failed writes, later attempts and every way into the recovery:
\* the command is all of what was checked in the dialog of the attempt that
\* wrote it, or nothing.
THEOREM AllOrNothing == Spec => []InstallsChosen
<1>1. IInv => InstallsChosen
  BY DEF IInv, CommandInv, InstallsChosen
<1> QED BY <1>1, Inductive, PTL
=============================================================================
