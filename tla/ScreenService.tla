--------------------------- MODULE ScreenService ----------------------------
(* What MainService.java does around the screen: the backlight of             *)
(* ButtonBacklight, the proximity listener of PocketMode and the node that    *)
(* lets the touch panel send F4, all driven by mScreenStateReceiver.          *)
EXTENDS ButtonBacklight, PocketMode

VARIABLES pocket,  \* preference pocketModeEnabled
          doze,    \* dozeWakeupNode
          recent,  \* the last click is less than msDoubleClickThreshold ago
          missed   \* history: something changed that no broadcast reported, and
                   \* no screen-on has put in order since

wakeVars == <<doze, recent>>
screenVars == <<vars, pocket, wakeVars, pocketVars, missed>>

ScreenInit ==
  /\ Init /\ PocketInit
  /\ pocket \in BOOLEAN
  /\ doze = FALSE /\ recent = FALSE /\ missed = FALSE

InOrder == connected /\ queue = << >>
Misses(ordered) == missed' = (missed \/ ~ordered)

\* onServiceConnected, with its part for pocket mode.
Connect ==
  /\ ServiceConnected
  /\ IF pocket THEN ProximitySensor ELSE UNCHANGED pocketVars
  /\ UNCHANGED <<pocket, wakeVars, missed>>

\* mPreferenceListener, pocketModeEnabled.
PocketModeChanged ==
  /\ screen /\ Hurries(Quiet) /\ Misses(queue = << >>)
  /\ pocket' = ~pocket
  /\ IF connected /\ pocket' THEN ProximitySensor ELSE UNCHANGED pocketVars
  /\ UNCHANGED <<connected, left, pref, control, forced, clicks, timers, lit, user, queue, wakeVars>>

\* The rest of mScreenStateReceiver: isAlwaysOnDisplayEnabled reads dtw.
OnScreen(action) ==
  /\ doze' = IF dtw THEN action = "off" ELSE doze
  /\ \/ ~pocket /\ UNCHANGED pocketVars
     \/ pocket /\ action = "off" /\ Enable
     \/ pocket /\ action = "on" /\ Disable

Receive ==
  /\ ScreenReceiver
  /\ OnScreen(Head(queue))
  /\ missed' = (missed /\ ~(Head(queue) = "on" /\ pocket /\ dtw))
  /\ UNCHANGED <<pocket, recent>>

\* A screen change by the power button or a timeout.
ScreenChanges ==
  /\ Screen /\ Misses(connected)
  /\ UNCHANGED <<pocket, wakeVars, pocketVars>>

\* handleKeyEvent, KEYCODE_F4 released: the panel sends the key while the screen
\* is off, double tap is set and it is not told that it is covered.  A second
\* click within the threshold of doubleClick wakes the device.
F4 ==
  /\ connected /\ ~screen /\ dtw /\ ~touch /\ doze
  /\ recent' = TRUE
  /\ IF recent THEN Screen ELSE UNCHANGED vars
  /\ UNCHANGED <<pocket, doze, pocketVars, missed>>

ThresholdPasses ==
  /\ recent
  /\ recent' = FALSE
  /\ UNCHANGED <<vars, pocket, doze, pocketVars, missed>>

SettingChanges ==
  /\ screen /\ DoubleTapSetting /\ Misses(InOrder)
  /\ UNCHANGED <<vars, pocket, wakeVars>>

Sensor ==
  /\ OnSensorChanged \/ SensorChanges \/ LeakedReading
  /\ UNCHANGED <<vars, pocket, wakeVars, missed>>

\* What a listener left behind has written stays when the process dies.
Dies ==
  /\ Restart /\ ProcessDies /\ Misses(queue = << >> /\ ~leaked)
  /\ recent' = FALSE
  /\ UNCHANGED <<pocket, doze>>

Destroyed ==
  /\ OnDestroy /\ ServiceDestroyed /\ Misses(queue = << >>)
  /\ recent' = FALSE
  /\ UNCHANGED <<pocket, doze>>

Backlight ==
  /\ ForcedChanged \/ EnabledChanged \/ (\E b \in Buttons : Press(b) \/ Release(b)) \/ Runnable
  /\ UNCHANGED <<pocket, wakeVars, pocketVars, missed>>

ScreenNext ==
  \/ Connect \/ PocketModeChanged \/ Receive \/ ScreenChanges \/ F4 \/ ThresholdPasses
  \/ SettingChanges \/ Sensor \/ Dies \/ Destroyed \/ Backlight

ScreenSpec == ScreenInit /\ [][ScreenNext]_screenVars

\* The looper runs what was posted, and the system starts the service.
ScreenFairness ==
  /\ WF_screenVars(Receive) /\ WF_screenVars(Connect)
  /\ WF_screenVars(Runnable /\ Backlight)
FairScreenSpec == ScreenSpec /\ ScreenFairness

-----------------------------------------------------------------------------
\* Fingerprint reader and wake-up node after the screen was switched on: the
\* reader is never left blocked ("Ensure FP is left enabled",
\* PocketModeService.java) and the node only lets F4 through while the screen is
\* off.  Process deaths while the screen is off do no harm; what happens between
\* a broadcast and its handler is put in order by the next screen-on.  A service
\* destroyed while the screen is off leaves its listener registered (leaked): it
\* goes on writing the node, which blocks the reader while the screen is on, and
\* nothing puts that in order before the process dies.
AwakeIsUsable ==
  ~missed /\ InOrder => (screen /\ ~leaked => ~fp) /\ (doze => ~screen)

\* "Disable fingerprint reader and double tap to wake when phone is in your
\* pocket" (preferences.xml), once readings have been handled, and neither when
\* it is not, if the node can be written; and enable() never meets a null sensor
\* manager.
PocketBlocks ==
  /\ connected /\ pocket => ready
  /\ Writable /\ ~hurried /\ ~missed /\ ~leaked /\ InOrder /\ ~screen /\ pocket /\ ~reading =>
       fp = covered /\ (dtw => touch = covered)
=============================================================================
