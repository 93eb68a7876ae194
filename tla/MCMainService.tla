--------------------------- MODULE MCMainService ---------------------------
(* Three parts of MainService that share no state, the alarm clock, the alert *)
(* slider and gaming mode: a step of one changes nothing the others read, so  *)
(* each is explored with the other two at rest.                               *)
EXTENDS NextAlarm, TriStateKey, GamingMode

VARIABLE explored  \* the part that moves

partVars == <<alarmVars, sliderVars, vars, explored>>

AlarmRests == AlarmInit /\ next = None
SliderRests == SliderInit /\ slider = 3 /\ ~muted /\ ringer = "normal"
GamingRests ==
  Init /\ brightness = "manual" /\ headsPref /\ ~navPref /\ navMode = 0 /\ ~tile

PartsInit ==
  \/ explored = "alarm" /\ AlarmInit /\ SliderRests /\ GamingRests
  \/ explored = "slider" /\ AlarmRests /\ SliderInit /\ GamingRests
  \/ explored = "gaming" /\ AlarmRests /\ SliderRests /\ Init

Moves(part) == explored = part /\ UNCHANGED explored
PartsNext ==
  \/ Moves("alarm") /\ AlarmNext /\ UNCHANGED <<sliderVars, vars>>
  \/ Moves("slider") /\ SliderNext /\ UNCHANGED <<alarmVars, vars>>
  \/ Moves("gaming") /\ Next /\ UNCHANGED <<alarmVars, sliderVars>>

\* AlarmFairness and SliderFairness, of the part that moves.
PartsSpec ==
  /\ PartsInit /\ [][PartsNext]_partVars
  /\ (explored = "alarm") => AlarmFairness
  /\ (explored = "slider") => SliderFairness
=============================================================================
