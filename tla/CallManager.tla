----------------------------- MODULE CallManager -----------------------------
(* The call recorder / call vibration service of SettingsExtra:              *)
(* CallManager.java and the places where MainService.java drives it.         *)
(*                                                                           *)
(* Every handler runs on the main looper of the process, one at a time, so a *)
(* handler is an operator from the fields of the CallManager object to their *)
(* new values, and an action runs one handler to its end.  What interleaves  *)
(* is the order in which the looper gets to run them: precise call states    *)
(* come through one FIFO per SIM (one binder stub per listener), broadcasts  *)
(* through another, preference changes from the user at any moment.          *)
(*                                                                           *)
(* The model follows one MainService and its CallManager.  A service that is *)
(* created again in the same process has objects of its own; the old ones    *)
(* share with them only the preferences and the calls, which are free here,  *)
(* and the process, whose death is Restart.  What is claimed is claimed of   *)
(* each CallManager.                                                         *)
EXTENDS Naturals, Sequences

CONSTANTS Sims,       \* subscriptions listened to (1 and 2 in the source)
          Numbers,    \* phone numbers
          NoNumber,   \* callNumber == null
          MaxQueue,   \* bound on undelivered events per queue
          MaxResets   \* bound on pending vibration resets when a new event arises

ASSUME NumbersAssumption == NoNumber \notin Numbers
ASSUME BoundsAssumption == MaxQueue \in Nat /\ MaxResets \in Nat

VARIABLES svc,       \* life cycle of MainService; a crash keeps its reason
          pref,      \* the two persistent preferences of the user
          fg,        \* foreground call state of each SIM (telephony's view)
          preciseQ,  \* precise call states posted to each SIM's listener
          bcastQ,    \* broadcasts posted to the two receivers
          cm         \* the fields of the CallManager object

vars == <<svc, pref, fg, preciseQ, bcastQ, cm>>

CallStates == {"idle", "active", "other"}
Keys == {"rec", "vib"}
Crashes == {"unregisterCrash", "recorderCrash"}
Broadcasts == {<<"idle", NoNumber>>} \cup ({"ringing", "outgoing"} \X Numbers)

Alive == svc \in {"connected", "destroyed"}

-----------------------------------------------------------------------------
(* The object: ctx is mContext # null, registered that the two receivers are *)
(* registered, live the MediaRecorders started and not yet released, resets  *)
(* the postDelayed runnables of vibrate(), threw the exception in flight.    *)
CallManagerFields ==
  [ctx : BOOLEAN, registered : BOOLEAN, allowRec : BOOLEAN, allowVib : BOOLEAN,
   running : BOOLEAN, recording : BOOLEAN, inCall : BOOLEAN,
   stopListening : BOOLEAN, vibrating : BOOLEAN, resets : Nat, live : Nat,
   number : Numbers \cup {NoNumber}, threw : {"none"} \cup Crashes]

Fresh ==
  [ctx |-> FALSE, registered |-> FALSE, allowRec |-> FALSE, allowVib |-> FALSE,
   running |-> FALSE, recording |-> FALSE, inCall |-> FALSE,
   stopListening |-> FALSE, vibrating |-> FALSE, resets |-> 0, live |-> 0,
   number |-> NoNumber, threw |-> "none"]

OnStartup(m) == [m EXCEPT !.ctx = TRUE, !.registered = TRUE]

\* unregisterReceiver throws IllegalArgumentException when not registered.
OnClose(m) ==
  IF ~m.ctx THEN m
  ELSE IF m.registered THEN [m EXCEPT !.registered = FALSE]
  ELSE [m EXCEPT !.threw = "unregisterCrash"]

\* Mutated form: the reset is posted in the wrong branch.
MutVibrate(m) ==
  [m EXCEPT !.vibrating = TRUE, !.resets = IF m.vibrating THEN @ + 1 ELSE @]
\* The runnable that clears the flag is posted on every call.
Vibrate(m) == [m EXCEPT !.vibrating = TRUE, !.resets = @ + 1]

\* prepare() may fail (the recorder is released again), start() may throw.
StartRecording(m, outcome) ==
  IF m.recording THEN m
  ELSE CASE outcome = "ok" -> [m EXCEPT !.recording = TRUE, !.live = @ + 1]
         [] outcome = "prepareFails" -> m
         [] outcome = "throws" -> [m EXCEPT !.threw = "recorderCrash"]

\* Mutated form: the pending close is not consumed.
MutStopRecordingKeepsFlag(m, outcome) ==
  IF m.recording /\ outcome = "throws" THEN [m EXCEPT !.threw = "recorderCrash"]
  ELSE LET s == [m EXCEPT !.recording = FALSE,
                          !.live = IF m.recording THEN @ - 1 ELSE @]
       IN  IF s.stopListening \/ ~s.running THEN OnClose(s) ELSE s
\* MediaRecorder.stop() may throw; then the pending close, if any.
StopRecording(m, outcome) ==
  IF m.recording /\ outcome = "throws" THEN [m EXCEPT !.threw = "recorderCrash"]
  ELSE LET s == [m EXCEPT !.recording = FALSE,
                          !.live = IF m.recording THEN @ - 1 ELSE @]
       IN  IF s.stopListening \/ ~s.running
           THEN OnClose([s EXCEPT !.stopListening = FALSE])
           ELSE s

\* Mutated form: any enabled service may record.
MutManageCallStarting(m, outcome) ==
  LET v == IF m.allowVib THEN Vibrate([m EXCEPT !.inCall = TRUE])
                         ELSE [m EXCEPT !.inCall = TRUE]
  IN  IF m.running /\ ~m.recording THEN StartRecording(v, outcome) ELSE v
ManageCallStarting(m, outcome) ==
  LET v == IF m.allowVib THEN Vibrate([m EXCEPT !.inCall = TRUE])
                         ELSE [m EXCEPT !.inCall = TRUE]
  IN  IF m.allowRec /\ ~m.recording THEN StartRecording(v, outcome) ELSE v

\* Mutated form: a recording is only stopped while recording is still allowed.
MutManageCallEnding(m, outcome) ==
  IF ~m.inCall THEN m
  ELSE LET e == [m EXCEPT !.inCall = FALSE]
       IN  IF m.allowRec THEN StopRecording(e, outcome) ELSE e
ManageCallEnding(m, outcome) ==
  IF ~m.inCall THEN m
  ELSE LET e == [m EXCEPT !.inCall = FALSE]
       IN  StopRecording(IF m.allowVib THEN Vibrate(e) ELSE e, outcome)

EnableService(m) == [m EXCEPT !.running = m.allowRec \/ m.allowVib]
EnableCallRecording(m, status) == EnableService([m EXCEPT !.allowRec = status])
EnableCallVibration(m, status) == EnableService([m EXCEPT !.allowVib = status])

Enable(m, key, status) ==
  IF key = "rec" THEN EnableCallRecording(m, status)
                 ELSE EnableCallVibration(m, status)

\* MainService.mPreferenceListener, the two call preferences.
OnSharedPreferenceChanged(m, key, status) ==
  LET e == Enable(IF status /\ ~m.running THEN OnStartup(m) ELSE m, key, status)
  IN  CASE e.running -> e
        [] ~e.running /\ ~e.recording -> OnClose(e)
        [] ~e.running /\ e.recording -> [e EXCEPT !.stopListening = TRUE]

\* MainService.onServiceConnected: start and enable what the user enabled.
StartFromPrefs(m, p) ==
  IF p["rec"] \/ p["vib"]
  THEN EnableCallVibration(EnableCallRecording(OnStartup(m), p["rec"]), p["vib"])
  ELSE m

-----------------------------------------------------------------------------
NoEvents == [s \in Sims |-> << >>]

\* listen() makes telephony post the current state to each listener.
WithCurrentStates == [s \in Sims |-> Append(preciseQ[s], fg[s])]

Room == /\ \A s \in Sims : Len(preciseQ[s]) < MaxQueue
        /\ cm.resets < MaxResets

\* A handler ends with object m in life-cycle state next and the given queues:
\* an exception that left it kills the process; unregistering the receivers
\* forgets the broadcasts already posted to them.
Finish(m, next, precise, bcast) ==
  IF m.threw = "none"
  THEN /\ cm' = m
       /\ svc' = next
       /\ preciseQ' = precise
       /\ bcastQ' = IF m.registered THEN bcast ELSE << >>
  ELSE /\ cm' = Fresh
       /\ svc' = m.threw
       /\ preciseQ' = NoEvents
       /\ bcastQ' = << >>

Init ==
  /\ svc = "starting"
  /\ pref \in [Keys -> BOOLEAN]
  /\ fg \in [Sims -> CallStates]
  /\ preciseQ = NoEvents
  /\ bcastQ = << >>
  /\ cm = Fresh

ServiceConnected ==
  /\ svc = "starting"
  /\ Finish(StartFromPrefs(cm, pref), "connected",
            IF pref["rec"] \/ pref["vib"] THEN WithCurrentStates ELSE preciseQ, bcastQ)
  /\ UNCHANGED <<pref, fg>>

\* The user flips a preference and MainService's listener runs.  The listener
\* is never unregistered, so it may still run after onDestroy.
PreferenceChanged(key) ==
  LET status == ~pref[key]
      starts == status /\ ~cm.running
  IN  /\ Alive
      /\ starts => Room
      /\ pref' = [pref EXCEPT ![key] = status]
      /\ Finish(OnSharedPreferenceChanged(cm, key, status), svc,
                IF starts THEN WithCurrentStates ELSE preciseQ, bcastQ)
      /\ UNCHANGED fg

\* The user flips a preference while there is no listener: before the service
\* is connected or after a crash.  Preferences hold the listener weakly, but it
\* lives as long as the service does, and the service as long as a CallManager
\* whose call listeners still run.
PreferenceChangedUnseen(key) ==
  /\ ~Alive
  /\ pref' = [pref EXCEPT ![key] = ~@]
  /\ UNCHANGED <<svc, fg, preciseQ, bcastQ, cm>>

\* MainService.onDestroy: mCallManager.onClose().
OnDestroy ==
  /\ svc = "connected"
  /\ Finish(OnClose(cm), "destroyed", preciseQ, << >>)
  /\ UNCHANGED <<pref, fg>>

\* The process is killed (or was dead), or a destroyed service was collected, and
\* the system starts the service anew.
Restart ==
  /\ svc' = "starting"
  /\ cm' = Fresh
  /\ preciseQ' = NoEvents
  /\ bcastQ' = << >>
  /\ UNCHANGED <<pref, fg>>

\* Telephony: the foreground call of SIM s is now in state st.  Telephony also
\* notifies when something else of the call state changed, so st may be fg[s].
\* The precise listeners are never unregistered.
PreciseCallStateChanged(s, st) ==
  /\ fg' = [fg EXCEPT ![s] = st]
  /\ IF Alive /\ cm.ctx
     THEN /\ Len(preciseQ[s]) < MaxQueue
          /\ cm.resets < MaxResets
          /\ preciseQ' = [preciseQ EXCEPT ![s] = Append(@, st)]
     ELSE st # fg[s] /\ UNCHANGED preciseQ
  /\ UNCHANGED <<svc, pref, bcastQ, cm>>

\* The system broadcasts a phone state or an outgoing call to the receivers.
\* The phone state is one SIM's: IDLE only needs one idle SIM.
Broadcast(b) ==
  /\ Alive /\ cm.registered
  /\ b[1] = "idle" => \E s \in Sims : fg[s] = "idle"
  /\ Len(bcastQ) < MaxQueue /\ cm.resets < MaxResets
  /\ bcastQ' = Append(bcastQ, b)
  /\ UNCHANGED <<svc, pref, fg, preciseQ, cm>>

\* onPreciseCallStateChanged of the listener of SIM s.
OnPreciseCallState(m, st, outcome) ==
  CASE st = "active" -> ManageCallStarting(m, outcome)
    [] st = "idle" -> ManageCallEnding(m, outcome)
    [] st = "other" -> m

\* CallRecorderReceiver and OutGoingNumDetector.
OnReceive(m, b, outcome) ==
  CASE b[1] = "idle" -> ManageCallEnding(m, outcome)
    [] b[1] = "ringing" -> [m EXCEPT !.number = b[2]]
    [] b[1] = "outgoing" -> IF m.allowRec THEN [m EXCEPT !.number = b[2]] ELSE m

Outcomes == {"ok", "prepareFails", "throws"}

DeliverPrecise(s) ==
  /\ Alive /\ preciseQ[s] # << >>
  /\ \E outcome \in Outcomes :
       Finish(OnPreciseCallState(cm, Head(preciseQ[s]), outcome), svc,
              [preciseQ EXCEPT ![s] = Tail(@)], bcastQ)
  /\ UNCHANGED <<pref, fg>>

DeliverBroadcast ==
  /\ Alive /\ bcastQ # << >>
  /\ \E outcome \in Outcomes :
       Finish(OnReceive(cm, Head(bcastQ), outcome), svc, preciseQ, Tail(bcastQ))
  /\ UNCHANGED <<pref, fg>>

\* The runnable that vibrate() posted with postDelayed.
VibrateReset ==
  /\ Alive /\ cm.resets > 0
  /\ cm' = [cm EXCEPT !.vibrating = FALSE, !.resets = @ - 1]
  /\ UNCHANGED <<svc, pref, fg, preciseQ, bcastQ>>

Next ==
  \/ ServiceConnected
  \/ \E key \in Keys : PreferenceChanged(key)
  \/ \E key \in Keys : PreferenceChangedUnseen(key)
  \/ OnDestroy
  \/ Restart
  \/ \E s \in Sims, st \in CallStates : PreciseCallStateChanged(s, st)
  \/ \E b \in Broadcasts : Broadcast(b)
  \/ \E s \in Sims : DeliverPrecise(s)
  \/ DeliverBroadcast
  \/ VibrateReset

Spec == Init /\ [][Next]_vars

\* The main looper runs what was posted to it; users, calls, broadcasts and
\* process deaths are free.
Fairness == /\ \A s \in Sims : WF_vars(DeliverPrecise(s))
            /\ WF_vars(DeliverBroadcast)
            /\ WF_vars(VibrateReset)
FairSpec == Spec /\ Fairness

-----------------------------------------------------------------------------
\* Every variable holds a value the program can give it.
TypeOK ==
  /\ svc \in {"starting", "connected", "destroyed"} \cup Crashes
  /\ pref \in [Keys -> BOOLEAN]
  /\ fg \in [Sims -> CallStates]
  /\ preciseQ \in [Sims -> Seq(CallStates)]
  /\ bcastQ \in Seq(Broadcasts)
  /\ cm \in CallManagerFields

\* A recording exists only inside a call the object knows of (so that the IDLE
\* event that ends it is not swallowed by manageCallEnding's early return), and
\* areWeRecordingACall counts the live MediaRecorders: none leaks, none is
\* started twice, whatever the order of preference changes, calls of both SIMs,
\* failed prepares and crashes.
RecorderConsistent ==
  /\ cm.recording => cm.inCall
  /\ cm.live = IF cm.recording THEN 1 ELSE 0

\* stopListening defers the close of a disabled service to the end of the
\* recording that is running: it is never set when nothing will consume it.
PendingCloseHasRecording == cm.stopListening => cm.recording

\* areWeVibrating suppresses every later vibration, so while it is set some
\* posted runnable must still be there to clear it.
VibrationWillReset == cm.vibrating => cm.resets > 0

\* MediaRecorder only starts while the user's preference allows recording: the
\* flags copied into the object never get out of step with the preferences,
\* across toggles, restarts and a vibration-only service, and after onDestroy,
\* which leaves the call listeners and the flags as they are.
StartsOnlyWithConsent == [][~cm.recording /\ cm'.recording => pref["rec"]]_vars

\* Once every SIM stays idle, a recording ends and none is left running.
RecordingEventuallyStops ==
  <>[](\A s \in Sims : fg[s] = "idle") => <>[](~cm.recording)
=============================================================================
