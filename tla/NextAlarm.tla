------------------------------ MODULE NextAlarm ------------------------------
(* The power-off alarm: alarmReceiver of MainService.java keeps the real     *)
(* time clock set shortly before the next alarm of the user.                 *)
(*                                                                           *)
(* The receiver remembers the alarm it set in a preference, written to the   *)
(* file in the background (apply), and talks to the power-off alarm service  *)
(* through broadcasts that are delivered in order.                           *)
EXTENDS Integers, Sequences

CONSTANTS Triggers,  \* trigger times of alarms, in seconds
          MaxQueue   \* bound on broadcasts in flight in either direction

VARIABLES next,      \* AlarmManager.getNextAlarmClock, None for null
          changes,   \* NEXT_ALARM_CLOCK_CHANGED broadcasts in flight
          connected, \* the receiver is registered
          saved,     \* preference currentNextAlarm, as this process sees it
          onDisk,    \* the same preference in the file
          requests,  \* SET_ALARM / CANCEL_ALARM broadcasts in flight
          rtc,       \* alarms set in the real time clock
          forgotten  \* history: the process died before apply reached the file

alarmVars == <<next, changes, connected, saved, onDisk, requests, rtc, forgotten>>

None == -1
Margin == 60

\* Times count from 1970: no alarm is so early that None could be meant.
ASSUME AlarmAssumption ==
  Triggers \subseteq Nat /\ (\A t \in Triggers : t >= Margin) /\ MaxQueue \in Nat

Saved == {None} \cup {t - Margin : t \in Triggers}
Requests == {"set", "cancel"} \X Saved

AlarmInit ==
  /\ next \in Triggers \cup {None} /\ changes = 0
  /\ connected = FALSE
  /\ saved = None /\ onDisk = None
  /\ requests = << >> /\ rtc = {} /\ forgotten = FALSE

\* onServiceConnected registers the receiver and does not look at the alarm.
AlarmServiceConnected ==
  /\ ~connected
  /\ connected' = TRUE /\ saved' = onDisk
  /\ UNCHANGED <<next, changes, onDisk, requests, rtc, forgotten>>

\* Mutated form: the new alarm is set before the old one is cancelled.
MutBroadcasts(n, current) ==
  LET cancel == IF current # None THEN << <<"cancel", current>> >> ELSE << >>
  IN  IF n = None THEN cancel ELSE << <<"set", n - Margin>> >> \o cancel
\* The requests that onReceive broadcasts.
Broadcasts(n, current) ==
  LET cancel == IF current # None THEN << <<"cancel", current>> >> ELSE << >>
  IN  IF n = None THEN cancel ELSE cancel \o << <<"set", n - Margin>> >>
\* Mutated form: the trigger time is saved, not the time that was set.
MutSaves(n) == IF n = None THEN None ELSE n
\* What onReceive leaves in currentNextAlarm.
Saves(n) == IF n = None THEN None ELSE n - Margin

OnReceive ==
  /\ connected /\ changes > 0
  /\ changes' = changes - 1
  /\ requests' = requests \o Broadcasts(next, saved)
  /\ saved' = Saves(next)
  /\ UNCHANGED <<next, connected, onDisk, rtc, forgotten>>

\* apply() reaches the file.
WriteToDisk ==
  /\ connected /\ onDisk # saved
  /\ onDisk' = saved
  /\ UNCHANGED <<next, changes, connected, saved, requests, rtc, forgotten>>

-----------------------------------------------------------------------------
(* Users, alarms and the power-off alarm service, external.                  *)
AlarmChanged(t) ==
  /\ t # next /\ changes < MaxQueue /\ Len(requests) < MaxQueue
  /\ next' = t
  /\ changes' = IF connected THEN changes + 1 ELSE 0
  /\ UNCHANGED <<connected, saved, onDisk, requests, rtc, forgotten>>

Applied(clock, r) == IF r[1] = "set" THEN clock \cup {r[2]} ELSE clock \ {r[2]}
PowerOffAlarm ==
  /\ requests # << >>
  /\ requests' = Tail(requests)
  /\ rtc' = Applied(rtc, Head(requests))
  /\ UNCHANGED <<next, changes, connected, saved, onDisk, forgotten>>

Killed ==
  /\ connected
  /\ connected' = FALSE /\ changes' = 0
  /\ forgotten' = (forgotten \/ onDisk # saved)
  /\ UNCHANGED <<next, saved, onDisk, requests, rtc>>

AlarmNext ==
  \/ AlarmServiceConnected \/ OnReceive \/ WriteToDisk
  \/ \E t \in Triggers \cup {None} : AlarmChanged(t)
  \/ PowerOffAlarm \/ Killed

AlarmSpec == AlarmInit /\ [][AlarmNext]_alarmVars

\* Broadcasts are delivered, applied preferences are written.
AlarmFairness == /\ WF_alarmVars(OnReceive) /\ WF_alarmVars(WriteToDisk)
                 /\ WF_alarmVars(PowerOffAlarm) /\ WF_alarmVars(AlarmServiceConnected)
FairAlarmSpec == AlarmSpec /\ AlarmFairness

-----------------------------------------------------------------------------
\* Every variable holds a value the program can give it.
AlarmTypeOK ==
  /\ next \in Triggers \cup {None} /\ changes \in Nat /\ connected \in BOOLEAN
  /\ saved \in Saved /\ onDisk \in Saved
  /\ requests \in Seq(Requests) /\ rtc \subseteq Saved /\ forgotten \in BOOLEAN

\* The alarms in the clock once the requests in flight are done.
RtcAfter ==
  LET clock[k \in 0 .. Len(requests)] ==
        IF k = 0 THEN rtc ELSE Applied(clock[k - 1], requests[k])
  IN  clock[Len(requests)]

\* "Only keep one alarm at a time in the RTC" (MainService.java): at any
\* moment, between a cancel and a set too, and across process deaths.  Excepted
\* is a death before the background write: the alarm that was set is forgotten,
\* never cancelled, and a second one is added.
OneAlarm == ~forgotten => \A s, t \in rtc : s = t

\* The preference is what alarmReceiver cancels with, so it must name exactly
\* the alarm that is, or is about to be, in the clock.
SavedIsSet == connected /\ ~forgotten => RtcAfter = {saved} \ {None}

\* Once the alarms stop changing, an announced change leads to a clock that
\* wakes the device Margin seconds, the code's 60, before the next alarm, and
\* for no other unless one was forgotten, unless the process dies first.  This
\* holds whatever changes were missed before, while nobody listened: the clock
\* is wrong from a missed change to the next announced one.
RtcFollowsNext ==
  <>[][next' = next]_next =>
    (changes > 0 ~>
       \/ ~connected
       \/ /\ changes = 0 /\ requests = << >>
          /\ {Saves(next)} \ {None} \subseteq rtc
          /\ forgotten \/ rtc = {Saves(next)} \ {None})

\* "Remove 90 seconds from the time decided by the user: the phone will wake up
\* at this time" (MainService.java): what is set is 90 s before an alarm of the
\* user.  The code subtracts 60.
WakesNinetyEarly == \A t \in rtc : t + 90 \in Triggers
=============================================================================
