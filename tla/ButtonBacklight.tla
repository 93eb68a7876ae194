--------------------------- MODULE ButtonBacklight ---------------------------
(* The backlight of the capacitive buttons: handleKeyEvent, the screen       *)
(* receiver and the backlight preferences of MainService.java.               *)
(*                                                                           *)
(* Everything runs on the main looper.  A release posts a delayed runnable   *)
(* that cannot be cancelled; runnables are indistinguishable, so only their  *)
(* number is kept.  Screen broadcasts are delivered after the fact.          *)
EXTENDS Integers, Sequences, FiniteSets

CONSTANTS Buttons,    \* KEYCODE_BACK and KEYCODE_APP_SELECT
          MaxTimers,  \* bound on pending runnables when a button is released
          MaxQueue,   \* bound on screen broadcasts in flight
          MaxClicks   \* bound on clickToShutdown when a button is pressed

ASSUME BacklightAssumption ==
  IsFiniteSet(Buttons) /\ MaxTimers \in Nat /\ MaxQueue \in Nat /\ MaxClicks \in Nat

VARIABLES connected, \* the service is connected
          left,      \* a destroyed service is left in this process: its
                     \* mPreferenceListener still runs
          pref,      \* buttonsBacklightEnabledForced, buttonsBacklightEnabled
          control,   \* buttonsBacklightControl
          forced,    \* buttonsBacklightControlForced
          clicks,    \* clickToShutdown
          timers,    \* runnables posted and not yet run
          lit,       \* property sys.button_backlight.on
          down,      \* buttons held
          screen,    \* the screen is on
          queue,     \* SCREEN_ON / SCREEN_OFF broadcasts in flight
          hurried    \* history: a preference changed, the process died or the
                     \* service was destroyed while something was pending, or the service was not there for
                     \* a button or the screen

vars == <<connected, left, pref, control, forced, clicks, timers, lit, down, screen, queue,
          hurried>>
user == <<down, screen>>

Prefs == {"forced", "enabled"}
Quiet == down = {} /\ timers = 0 /\ queue = << >> /\ screen
Hurries(calm) == hurried' = (hurried \/ ~calm)

Init ==
  /\ connected = FALSE /\ left = FALSE
  /\ pref \in [Prefs -> BOOLEAN]
  /\ control = FALSE /\ forced = FALSE /\ clicks = 0 /\ timers = 0
  /\ lit = FALSE /\ down = {} /\ screen = TRUE /\ queue = << >>
  /\ hurried = FALSE

\* The branches on buttonsBacklightEnabledForced.
ControlFromPrefs(p) ==
  /\ control' = (~p["forced"] /\ p["enabled"])
  /\ forced' = p["forced"]
  /\ lit' = p["forced"]

ServiceConnected ==
  /\ ~connected
  /\ connected' = TRUE
  /\ ControlFromPrefs(pref)
  /\ UNCHANGED <<left, pref, clicks, timers, user, queue, hurried>>

\* The user changes a preference.  A destroyed service only keeps the light for
\* itself: its other fields are of no use any more.
ForcedChanged ==
  LET p == [pref EXCEPT !["forced"] = ~@]
  IN  /\ screen /\ Hurries(Quiet)
      /\ pref' = p
      /\ IF connected THEN ControlFromPrefs(p)
         ELSE lit' = (IF left THEN p["forced"] ELSE lit) /\ UNCHANGED <<control, forced>>
      /\ UNCHANGED <<connected, left, clicks, timers, user, queue>>

\* The settings offer this one only while the other is off.
EnabledChanged ==
  /\ screen /\ Hurries(Quiet)
  /\ ~pref["forced"]
  /\ pref' = [pref EXCEPT !["enabled"] = ~@]
  /\ control' = (connected /\ ~pref["enabled"])
  /\ UNCHANGED <<connected, left, forced, clicks, timers, lit, user, queue>>

\* handleKeyEvent, ACTION_DOWN.  Buttons work while the screen is on.
Press(b) ==
  /\ screen /\ b \notin down /\ clicks < MaxClicks /\ Hurries(connected)
  /\ down' = down \cup {b}
  /\ IF connected /\ control THEN clicks' = clicks + 1 /\ lit' = TRUE
                             ELSE UNCHANGED <<clicks, lit>>
  /\ UNCHANGED <<connected, left, pref, control, forced, timers, screen, queue>>

\* Mutated form: only the last button released posts the runnable.
MutRelease(b) ==
  /\ b \in down /\ timers < MaxTimers
  /\ down' = down \ {b}
  /\ timers' = IF connected /\ control /\ down = {b} THEN timers + 1 ELSE timers
  /\ UNCHANGED <<connected, left, pref, control, forced, clicks, lit, screen, queue, hurried>>
\* handleKeyEvent, ACTION_UP: postDelayed.
Release(b) ==
  /\ b \in down /\ timers < MaxTimers
  /\ down' = down \ {b}
  /\ timers' = IF connected /\ control THEN timers + 1 ELSE timers
  /\ UNCHANGED <<connected, left, pref, control, forced, clicks, lit, screen, queue, hurried>>

\* Mutated form: the light is not switched off.
MutRunnableKeepsLight == clicks' = (IF clicks <= 1 THEN 0 ELSE clicks - 1) /\ UNCHANGED lit
\* The lambda given to postDelayed.
RunnableRuns ==
  LET c == clicks - 1
  IN  IF c <= 0 THEN clicks' = 0 /\ lit' = FALSE
                ELSE clicks' = c /\ UNCHANGED lit

Runnable ==
  /\ timers > 0
  /\ timers' = timers - 1
  /\ RunnableRuns
  /\ UNCHANGED <<connected, left, pref, control, forced, user, queue, hurried>>

\* Mutated forms: screen-off is ignored; screen-on is ignored.
MutOnReceive(action) ==
  IF action = "off" THEN UNCHANGED <<clicks, lit>>
  ELSE lit' = (lit \/ forced) /\ UNCHANGED clicks
MutOnReceiveForgetsForced(action) ==
  IF action = "off" THEN clicks' = 0 /\ lit' = FALSE
  ELSE UNCHANGED <<clicks, lit>>
\* mScreenStateReceiver.
OnReceive(action) ==
  IF action = "off" THEN clicks' = 0 /\ lit' = FALSE
  ELSE lit' = (lit \/ forced) /\ UNCHANGED clicks

ScreenReceiver ==
  /\ queue # << >>
  /\ queue' = Tail(queue)
  /\ OnReceive(Head(queue))
  /\ UNCHANGED <<connected, left, pref, control, forced, timers, user, hurried>>

\* The screen is switched; the broadcast reaches a registered receiver.
Screen ==
  /\ Len(queue) < MaxQueue /\ Hurries(connected)
  /\ screen' = ~screen
  /\ queue' = IF connected THEN Append(queue, IF screen THEN "off" ELSE "on") ELSE queue
  /\ UNCHANGED <<connected, left, pref, control, forced, clicks, timers, lit, down>>

\* The process dies and is started again; the property outlives it.
Restart ==
  /\ connected \/ left
  /\ Hurries(Quiet)
  /\ connected' = FALSE /\ left' = FALSE
  /\ control' = FALSE /\ forced' = FALSE /\ clicks' = 0 /\ timers' = 0 /\ queue' = << >>
  /\ UNCHANGED <<pref, lit, user>>

\* onDestroy: the receiver is unregistered, the runnables and the static
\* clickToShutdown stay.  A new service starts with fields of its own.
OnDestroy ==
  /\ connected /\ Hurries(Quiet)
  /\ connected' = FALSE /\ left' = TRUE
  /\ control' = FALSE /\ forced' = FALSE /\ queue' = << >>
  /\ UNCHANGED <<pref, clicks, timers, lit, user>>

Next ==
  \/ ServiceConnected \/ ForcedChanged \/ EnabledChanged
  \/ \E b \in Buttons : Press(b) \/ Release(b)
  \/ Runnable \/ ScreenReceiver \/ Screen \/ OnDestroy \/ Restart

Spec == Init /\ [][Next]_vars

-----------------------------------------------------------------------------
\* Every variable holds a value the program can give it; clickToShutdown is
\* never negative.
TypeOK ==
  /\ connected \in BOOLEAN /\ left \in BOOLEAN /\ pref \in [Prefs -> BOOLEAN]
  /\ control \in BOOLEAN /\ forced \in BOOLEAN /\ lit \in BOOLEAN
  /\ clicks \in Nat /\ timers \in Nat
  /\ down \subseteq Buttons /\ screen \in BOOLEAN
  /\ queue \in Seq({"on", "off"}) /\ hurried \in BOOLEAN

\* Every click still counted has a button held or a runnable pending that will
\* count it down: screen-off resets and stale runnables only ever lower the
\* count.  Without it the light would stay on for good.  Here and below a
\* hurried preference change is excepted: turned off between press and release,
\* buttonsBacklightControl leaves a click that nothing counts down.
ClicksCovered == ~hurried => clicks <= Cardinality(down) + timers

\* "Keep capacitive buttons backlight always on" (preferences.xml): whenever
\* the screen is on and no broadcast is in flight.  A runnable pending when the
\* preference is set, hence hurried, does turn the light off.
ForcedIsLit == ~hurried /\ connected /\ forced /\ screen /\ queue = << >> => lit

\* The receiver is "used to turn off the capacitive buttons backlight"
\* (MainService.java): dark once the screen-off broadcast has been handled.
ScreenOffIsDark == ~hurried /\ connected /\ ~screen /\ queue = << >> => ~lit

\* "Enable capacitive buttons backlight when buttons are pressed"
\* (preferences.xml), the half about darkness: a light that is not forced
\* eventually goes out, unless a button is held.
GoesOut == lit ~> (~lit \/ forced \/ down # {} \/ hurried)
=============================================================================
