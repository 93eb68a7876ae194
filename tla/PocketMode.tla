----------------------------- MODULE PocketMode -----------------------------
(* PocketModeService.java: while the screen is off a proximity listener       *)
(* tells the fingerprint reader and the touch panel, through their            *)
(* proximity_state nodes, whether the phone is covered.                       *)
(*                                                                            *)
(* Each operator is one method of the service; ScreenService composes them    *)
(* with the handlers of MainService that call them.                           *)
EXTENDS Naturals

CONSTANT Writable  \* the proximity_state node of the fingerprint reader is there
                   \* and can be written

ASSUME WritableAssumption == Writable \in BOOLEAN

VARIABLES covered,    \* what the proximity sensor sees
          dtw,        \* the double_tap_to_wake setting and the node that follows it
          ready,      \* ProximitySensor has set mSensorManager in this process
          registered, \* the listener is registered
          reading,    \* a sensor event is posted to the main looper
          doubleTap,  \* doubleTapToWakeEnabled
          fp,         \* node of the fingerprint reader: covered
          touch,      \* node of the touch panel: covered
          leaked      \* a destroyed service has left its listener registered

pocketVars == <<covered, dtw, ready, registered, reading, doubleTap, fp, touch, leaked>>

PocketInit ==
  /\ covered \in BOOLEAN /\ dtw \in BOOLEAN
  /\ ready = FALSE /\ registered = FALSE /\ reading = FALSE /\ doubleTap = FALSE
  /\ fp = FALSE /\ touch = FALSE /\ leaked = FALSE

\* Looks up the sensor and the node; which node exists depends on the device.
ProximitySensor ==
  /\ ready' = TRUE
  /\ UNCHANGED <<covered, dtw, registered, reading, doubleTap, fp, touch, leaked>>

\* setFPProximityState, of an object whose doubleTapToWakeEnabled is double.
SetFPProximityState(isNear, double) ==
  /\ fp' = IF Writable THEN isNear ELSE fp
  /\ touch' = IF Writable /\ double THEN isNear ELSE touch

\* Mutated form: the setting is not read again.
MutEnable ==
  /\ registered' = TRUE
  /\ reading' = (reading \/ ~registered)
  /\ UNCHANGED <<covered, dtw, ready, doubleTap, fp, touch, leaked>>
\* Registering again is a no-op; a new listener gets the current reading.
Enable ==
  /\ doubleTap' = dtw
  /\ registered' = TRUE
  /\ reading' = (reading \/ ~registered)
  /\ UNCHANGED <<covered, dtw, ready, fp, touch, leaked>>

\* Mutated form: the nodes are left as they are.
MutDisable ==
  /\ registered' = FALSE /\ reading' = FALSE
  /\ UNCHANGED <<covered, dtw, ready, doubleTap, fp, touch, leaked>>
\* "Ensure FP is left enabled".  Readings of an unregistered listener are dropped.
Disable ==
  /\ registered' = FALSE /\ reading' = FALSE
  /\ SetFPProximityState(FALSE, doubleTap)
  /\ UNCHANGED <<covered, dtw, ready, doubleTap, leaked>>

OnSensorChanged ==
  /\ reading
  /\ reading' = FALSE
  /\ SetFPProximityState(covered, doubleTap)
  /\ UNCHANGED <<covered, dtw, ready, registered, doubleTap, leaked>>

\* The phone goes into the pocket or leaves it.
SensorChanges ==
  /\ covered' = ~covered
  /\ reading' = registered
  /\ UNCHANGED <<dtw, ready, registered, doubleTap, fp, touch, leaked>>

\* The user changes the setting; the power HAL writes the node.
DoubleTapSetting ==
  /\ dtw' = ~dtw
  /\ UNCHANGED <<covered, ready, registered, reading, doubleTap, fp, touch, leaked>>

\* The object goes, with its service or its process; the nodes keep their values.
ObjectGoes ==
  /\ ready' = FALSE /\ registered' = FALSE /\ reading' = FALSE /\ doubleTap' = FALSE
  /\ UNCHANGED <<covered, dtw, fp, touch>>

\* onDestroy does not disable pocket mode: a registered listener stays for good.
ServiceDestroyed == ObjectGoes /\ leaked' = (leaked \/ registered)

\* The process dies, and every listener with it.
ProcessDies == ObjectGoes /\ leaked' = FALSE

\* onSensorChanged of a listener left behind, with the setting it had read.
LeakedReading ==
  /\ leaked
  /\ \E double \in BOOLEAN : SetFPProximityState(covered, double)
  /\ UNCHANGED <<covered, dtw, ready, registered, reading, doubleTap, leaked>>
=============================================================================
