------------------------- MODULE CallManager_proofs -------------------------
(* Proofs that the safety properties of CallManager hold for every set of    *)
(* SIMs and phone numbers and every bound of the queues.                     *)
EXTENDS CallManager, TLAPS

\* What holds of the object between two handlers.  It adds to the properties
\* what their induction needs: no exception is in flight, and isServiceRunning
\* is the disjunction of the two flags.
ObjectOK(m) ==
  /\ m \in CallManagerFields
  /\ m.threw = "none"
  /\ m.running = (m.allowRec \/ m.allowVib)
  /\ m.recording => m.inCall
  /\ m.live = IF m.recording THEN 1 ELSE 0
  /\ m.stopListening => m.recording
  /\ m.vibrating => m.resets > 0

\* What a handler returns: an exception, or an object in order.
Result(m) == m.threw \in Crashes \/ ObjectOK(m)

\* From its connection on, destroyed or not, the object's flags are the user's
\* preferences; before it connects and after a crash there is no object state.
FlagsFollowPrefs ==
  /\ Alive => cm.allowRec = pref["rec"] /\ cm.allowVib = pref["vib"]
  /\ ~Alive => cm = Fresh

IInv == TypeOK /\ ObjectOK(cm) /\ FlagsFollowPrefs

\* A new CallManager object is in order.
LEMMA FreshOK == ObjectOK(Fresh)
  BY DEF ObjectOK, Fresh, CallManagerFields, Crashes

\* A handler that is not the preference listener keeps the flags, and leaves a
\* recording behind only if there was one or recording is allowed.
Obeys(m, n) ==
  /\ n.allowRec = m.allowRec
  /\ n.allowVib = m.allowVib
  /\ n.recording => m.recording \/ m.allowRec

\* onClose only touches the receivers, or throws.
LEMMA OnCloseResult ==
  ASSUME NEW m, ObjectOK(m)
  PROVE  Result(OnClose(m)) /\ Obeys(m, OnClose(m))
  BY DEF Result, Obeys, ObjectOK, OnClose, CallManagerFields, Crashes

\* Assigning a field a value of its type.
LEMMA Assign ==
  ASSUME NEW m \in CallManagerFields, NEW b \in BOOLEAN, NEW k \in Nat
  PROVE  /\ [m EXCEPT !.recording = b] \in CallManagerFields
         /\ [m EXCEPT !.vibrating = b] \in CallManagerFields
         /\ [m EXCEPT !.inCall = b] \in CallManagerFields
         /\ [m EXCEPT !.allowRec = b] \in CallManagerFields
         /\ [m EXCEPT !.allowVib = b] \in CallManagerFields
         /\ [m EXCEPT !.running = b] \in CallManagerFields
         /\ [m EXCEPT !.ctx = b] \in CallManagerFields
         /\ [m EXCEPT !.registered = b] \in CallManagerFields
         /\ [m EXCEPT !.stopListening = b] \in CallManagerFields
         /\ [m EXCEPT !.resets = k] \in CallManagerFields
         /\ [m EXCEPT !.live = k] \in CallManagerFields
  BY DEF CallManagerFields

\* vibrate posts the reset it relies on.
LEMMA VibrateOK ==
  ASSUME NEW m, ObjectOK(m)
  PROVE  /\ ObjectOK(Vibrate(m))
         /\ Obeys(m, Vibrate(m))
         /\ Vibrate(m).inCall = m.inCall /\ Vibrate(m).recording = m.recording
<1> DEFINE u == [m EXCEPT !.vibrating = TRUE]
           v == [u EXCEPT !.resets = m.resets + 1]
<1>1. m \in CallManagerFields /\ m.resets + 1 \in Nat
  BY DEF ObjectOK, CallManagerFields
<1>2. u \in CallManagerFields
  BY <1>1, Assign
<1>3. v \in CallManagerFields
  <2> HIDE DEF u
  <2> QED  BY <1>1, <1>2, Assign
<1>4. /\ v.threw = m.threw /\ v.running = m.running /\ v.allowRec = m.allowRec
      /\ v.allowVib = m.allowVib /\ v.recording = m.recording /\ v.inCall = m.inCall
      /\ v.live = m.live /\ v.stopListening = m.stopListening /\ v.resets > 0
  BY DEF ObjectOK, CallManagerFields
<1>5. Vibrate(m) = v
  BY DEF Vibrate
<1> HIDE DEF v
<1> QED  BY <1>3, <1>4, <1>5 DEF ObjectOK, Obeys

\* startRecording never owns two recorders; its caller is inside a call.
LEMMA StartRecordingResult ==
  ASSUME NEW m, ObjectOK(m), m.inCall, m.allowRec, NEW outcome \in Outcomes
  PROVE  Result(StartRecording(m, outcome)) /\ Obeys(m, StartRecording(m, outcome))
<1>1. CASE m.recording \/ outcome = "prepareFails"
  BY <1>1 DEF StartRecording, Result, Obeys
<1>2. CASE ~m.recording /\ outcome = "throws"
  BY <1>2 DEF StartRecording, Result, Obeys, Crashes, ObjectOK, CallManagerFields
<1>3. CASE ~m.recording /\ outcome = "ok"
  <2> DEFINE u == [m EXCEPT !.recording = TRUE]
             v == [u EXCEPT !.live = m.live + 1]
  <2>1. m \in CallManagerFields /\ m.live = 0 /\ m.live + 1 \in Nat
    BY <1>3 DEF ObjectOK
  <2>2. u \in CallManagerFields
    BY <2>1, Assign
  <2>3. v \in CallManagerFields
    <3> HIDE DEF u
    <3> QED  BY <2>1, <2>2, Assign
  <2>4. /\ v.threw = m.threw /\ v.running = m.running /\ v.allowRec = m.allowRec
        /\ v.allowVib = m.allowVib /\ v.inCall = m.inCall /\ v.vibrating = m.vibrating
        /\ v.recording = TRUE /\ v.resets = m.resets /\ v.live = 1
    <3>1. v.live = m.live + 1  BY <2>1 DEF CallManagerFields
    <3>2. /\ v.threw = m.threw /\ v.running = m.running /\ v.allowRec = m.allowRec
          /\ v.allowVib = m.allowVib /\ v.inCall = m.inCall
          /\ v.vibrating = m.vibrating /\ v.recording = TRUE /\ v.resets = m.resets
      BY DEF ObjectOK, CallManagerFields
    <3> HIDE DEF v
    <3>3. v.live = 1  BY <2>1, <3>1
    <3> QED  BY <3>2, <3>3
  <2>5. StartRecording(m, outcome) = v
    BY <1>3 DEF StartRecording
  <2> HIDE DEF v
  <2> QED  BY <2>3, <2>4, <2>5 DEF ObjectOK, Obeys, Result
<1> QED  BY <1>1, <1>2, <1>3 DEF Outcomes

\* stopRecording, called with the call just ended, releases the recorder and
\* consumes the pending close.
LEMMA StopRecordingResult ==
  ASSUME NEW m, ObjectOK(m), NEW outcome \in Outcomes
  PROVE  LET n == StopRecording([m EXCEPT !.inCall = FALSE], outcome)
         IN  Result(n) /\ Obeys(m, n)
<1> DEFINE c == [m EXCEPT !.inCall = FALSE]
           n == StopRecording(c, outcome)
           u == [c EXCEPT !.recording = FALSE]
           s == [u EXCEPT !.live = IF c.recording THEN c.live - 1 ELSE c.live]
           w == [s EXCEPT !.stopListening = FALSE]
<1>1. m \in CallManagerFields
  BY DEF ObjectOK
<1>2. c \in CallManagerFields /\ c.recording = m.recording /\ c.live = m.live
  <2>1. c \in CallManagerFields  BY <1>1, Assign
  <2>2. c.recording = m.recording /\ c.live = m.live  BY <1>1 DEF CallManagerFields
  <2> QED  BY <2>1, <2>2
<1>3. (IF c.recording THEN c.live - 1 ELSE c.live) = 0
  BY <1>2 DEF ObjectOK
<1>4. u \in CallManagerFields
  <2> HIDE DEF c
  <2> QED  BY <1>2, Assign
<1>5. s \in CallManagerFields
  <2> HIDE DEF u
  <2> QED  BY <1>3, <1>4, Assign
<1>6. /\ s.threw = "none" /\ s.running = m.running /\ s.allowRec = m.allowRec
      /\ s.allowVib = m.allowVib /\ s.vibrating = m.vibrating /\ s.resets = m.resets
      /\ s.recording = FALSE /\ s.live = 0 /\ s.stopListening = m.stopListening
  BY <1>1, <1>3 DEF ObjectOK, CallManagerFields
<1>7. n = IF c.recording /\ outcome = "throws"
          THEN [c EXCEPT !.threw = "recorderCrash"]
          ELSE IF s.stopListening \/ ~s.running THEN OnClose(w) ELSE s
  BY DEF StopRecording
<1>8. CASE c.recording /\ outcome = "throws"
  BY <1>1, <1>7, <1>8 DEF Result, Obeys, Crashes, CallManagerFields
<1>9. ASSUME ~(c.recording /\ outcome = "throws") PROVE Result(n) /\ Obeys(m, n)
  <2> HIDE DEF c, u, s, n
  <2>1. ObjectOK(w) /\ Obeys(m, w) /\ w.recording = FALSE
    <3>1. w \in CallManagerFields
      BY <1>5, Assign
    <3>2. /\ w.threw = "none" /\ w.running = m.running /\ w.allowRec = m.allowRec
          /\ w.allowVib = m.allowVib /\ w.vibrating = m.vibrating /\ w.resets = m.resets
          /\ w.recording = FALSE /\ w.live = 0 /\ w.stopListening = FALSE
      BY <1>5, <1>6 DEF CallManagerFields
    <3> HIDE DEF w
    <3> QED  BY <3>1, <3>2 DEF ObjectOK, Obeys
  <2>2. CASE s.stopListening \/ ~s.running
    <3> HIDE DEF w
    <3>1. Result(OnClose(w)) /\ Obeys(w, OnClose(w))
      BY <2>1, OnCloseResult
    <3> QED  BY <3>1, <2>1, <2>2, <1>7, <1>9 DEF Obeys
  <2>3. CASE ~(s.stopListening \/ ~s.running)
    <3>1. ObjectOK(s) /\ Obeys(m, s)
      BY <1>5, <1>6, <2>3 DEF ObjectOK, Obeys
    <3> QED  BY <3>1, <2>3, <1>7, <1>9 DEF Result
  <2> QED  BY <2>2, <2>3
<1> QED  BY <1>8, <1>9

\* manageCallStarting starts at most one recorder, inside the call.
LEMMA ManageCallStartingResult ==
  ASSUME NEW m, ObjectOK(m), NEW outcome \in Outcomes
  PROVE  /\ Result(ManageCallStarting(m, outcome))
         /\ Obeys(m, ManageCallStarting(m, outcome))
<1> DEFINE c == [m EXCEPT !.inCall = TRUE]
           v == IF m.allowVib THEN Vibrate(c) ELSE c
<1>1. ObjectOK(c) /\ Obeys(m, c) /\ c.inCall /\ c.recording = m.recording
  BY DEF ObjectOK, Obeys, CallManagerFields
<1>2. ObjectOK(v) /\ Obeys(m, v) /\ v.inCall
  <2> HIDE DEF c
  <2> QED  BY <1>1, VibrateOK DEF Obeys
<1>3. ManageCallStarting(m, outcome)
        = IF m.allowRec /\ ~m.recording THEN StartRecording(v, outcome) ELSE v
  BY DEF ManageCallStarting
<1> HIDE DEF v
<1>4. CASE m.allowRec /\ ~m.recording
  <2>1. Result(StartRecording(v, outcome)) /\ Obeys(v, StartRecording(v, outcome))
    BY <1>2, <1>4, StartRecordingResult DEF Obeys
  <2> QED  BY <2>1, <1>2, <1>3, <1>4 DEF Obeys
<1>5. CASE ~(m.allowRec /\ ~m.recording)
  BY <1>2, <1>3, <1>5 DEF Result
<1> QED  BY <1>4, <1>5

\* manageCallEnding stops the recorder together with the call.
LEMMA ManageCallEndingResult ==
  ASSUME NEW m, ObjectOK(m), NEW outcome \in Outcomes
  PROVE  /\ Result(ManageCallEnding(m, outcome))
         /\ Obeys(m, ManageCallEnding(m, outcome))
<1> DEFINE e == [m EXCEPT !.inCall = FALSE]
           k == Vibrate(m)
<1>1. CASE ~m.inCall
  BY <1>1 DEF ManageCallEnding, Result, Obeys
<1>2. CASE m.inCall /\ ~m.allowVib
  BY <1>2, StopRecordingResult DEF ManageCallEnding
<1>3. CASE m.inCall /\ m.allowVib
  <2>1. Vibrate(e) = [k EXCEPT !.inCall = FALSE]
    BY DEF Vibrate, ObjectOK, CallManagerFields
  <2>2. ManageCallEnding(m, outcome) = StopRecording([k EXCEPT !.inCall = FALSE], outcome)
    BY <1>3, <2>1 DEF ManageCallEnding
  <2>3. ObjectOK(k) /\ Obeys(m, k) /\ k.recording = m.recording
    BY VibrateOK
  <2> HIDE DEF k
  <2> QED  BY <2>2, <2>3, StopRecordingResult DEF Obeys
<1> QED  BY <1>1, <1>2, <1>3

\* Both listeners of the precise call states end with an object in order.
LEMMA OnPreciseCallStateResult ==
  ASSUME NEW m, ObjectOK(m), NEW st \in CallStates, NEW outcome \in Outcomes
  PROVE  /\ Result(OnPreciseCallState(m, st, outcome))
         /\ Obeys(m, OnPreciseCallState(m, st, outcome))
<1>1. Result(m) /\ Obeys(m, m)
  BY DEF Result, Obeys
<1> QED
  BY <1>1, ManageCallStartingResult, ManageCallEndingResult
  DEF OnPreciseCallState, CallStates

\* So do the two broadcast receivers.
LEMMA OnReceiveResult ==
  ASSUME NEW m, ObjectOK(m), NEW b \in Broadcasts, NEW outcome \in Outcomes
  PROVE  Result(OnReceive(m, b, outcome)) /\ Obeys(m, OnReceive(m, b, outcome))
<1>1. /\ b[1] \in {"idle", "ringing", "outgoing"}
      /\ b[1] # "idle" => b[2] \in Numbers
  BY DEF Broadcasts
<1>2. CASE b[1] = "idle"
  BY <1>2, ManageCallEndingResult DEF OnReceive
<1>3. CASE b[1] \in {"ringing", "outgoing"}
  <2>1. OnReceive(m, b, outcome) \in {m, [m EXCEPT !.number = b[2]]}
    BY <1>3 DEF OnReceive
  <2>2. ObjectOK([m EXCEPT !.number = b[2]]) /\ Obeys(m, [m EXCEPT !.number = b[2]])
    BY <1>1, <1>3 DEF ObjectOK, Obeys, CallManagerFields
  <2> QED  BY <2>1, <2>2 DEF Result, Obeys
<1> QED  BY <1>1, <1>2, <1>3

\* enableCallRecording and enableCallVibration set their flag and recompute
\* isServiceRunning.
LEMMA EnableResult ==
  ASSUME NEW m, ObjectOK(m), NEW b \in BOOLEAN
  PROVE  /\ LET n == EnableCallRecording(m, b)
            IN  ObjectOK(n) /\ n.allowRec = b /\ n.allowVib = m.allowVib
                /\ n.recording = m.recording
         /\ LET n == EnableCallVibration(m, b)
            IN  ObjectOK(n) /\ n.allowVib = b /\ n.allowRec = m.allowRec
                /\ n.recording = m.recording
<1>1. m \in CallManagerFields
  BY DEF ObjectOK
<1>2. ASSUME NEW u \in CallManagerFields,
             u.allowRec \in BOOLEAN, u.allowVib \in BOOLEAN,
             /\ u.threw = m.threw /\ u.recording = m.recording /\ u.inCall = m.inCall
             /\ u.live = m.live /\ u.stopListening = m.stopListening
             /\ u.vibrating = m.vibrating /\ u.resets = m.resets
      PROVE  LET n == EnableService(u)
             IN  ObjectOK(n) /\ n.allowRec = u.allowRec /\ n.allowVib = u.allowVib
                 /\ n.recording = m.recording
  <2> DEFINE run == u.allowRec \/ u.allowVib
             n == [u EXCEPT !.running = run]
  <2>1. n \in CallManagerFields
    BY <1>2, Assign
  <2>2. n.running = (u.allowRec \/ u.allowVib)
    BY <1>2 DEF CallManagerFields
  <2>3. /\ n.threw = u.threw /\ n.allowRec = u.allowRec /\ n.allowVib = u.allowVib
        /\ n.recording = u.recording /\ n.inCall = u.inCall /\ n.live = u.live
        /\ n.stopListening = u.stopListening /\ n.vibrating = u.vibrating
        /\ n.resets = u.resets
    BY <1>2 DEF CallManagerFields
  <2>4. EnableService(u) = n
    BY DEF EnableService
  <2> HIDE DEF n
  <2> QED  BY <1>2, <2>1, <2>2, <2>3, <2>4 DEF ObjectOK
<1>3. LET n == EnableCallRecording(m, b)
      IN  ObjectOK(n) /\ n.allowRec = b /\ n.allowVib = m.allowVib
          /\ n.recording = m.recording
  <2> DEFINE u == [m EXCEPT !.allowRec = b]
  <2>1. u \in CallManagerFields
    BY <1>1, Assign
  <2>2. /\ u.allowRec = b /\ u.allowVib = m.allowVib /\ u.allowVib \in BOOLEAN
        /\ u.threw = m.threw /\ u.recording = m.recording /\ u.inCall = m.inCall
        /\ u.live = m.live /\ u.stopListening = m.stopListening
        /\ u.vibrating = m.vibrating /\ u.resets = m.resets
    BY <1>1 DEF CallManagerFields
  <2>3. EnableCallRecording(m, b) = EnableService(u)
    BY DEF EnableCallRecording
  <2> HIDE DEF u
  <2> QED  BY <1>2, <2>1, <2>2, <2>3
<1>4. LET n == EnableCallVibration(m, b)
      IN  ObjectOK(n) /\ n.allowVib = b /\ n.allowRec = m.allowRec
          /\ n.recording = m.recording
  <2> DEFINE u == [m EXCEPT !.allowVib = b]
  <2>1. u \in CallManagerFields
    BY <1>1, Assign
  <2>2. /\ u.allowVib = b /\ u.allowRec = m.allowRec /\ u.allowRec \in BOOLEAN
        /\ u.threw = m.threw /\ u.recording = m.recording /\ u.inCall = m.inCall
        /\ u.live = m.live /\ u.stopListening = m.stopListening
        /\ u.vibrating = m.vibrating /\ u.resets = m.resets
    BY <1>1 DEF CallManagerFields
  <2>3. EnableCallVibration(m, b) = EnableService(u)
    BY DEF EnableCallVibration
  <2> HIDE DEF u
  <2> QED  BY <1>2, <2>1, <2>2, <2>3
<1> QED  BY <1>3, <1>4

\* onStartup touches the context and the receivers only.
LEMMA OnStartupResult ==
  ASSUME NEW m, ObjectOK(m)
  PROVE  LET n == OnStartup(m)
         IN  ObjectOK(n) /\ n.allowRec = m.allowRec /\ n.allowVib = m.allowVib
             /\ n.recording = m.recording
<1> DEFINE u == [m EXCEPT !.ctx = TRUE]
           n == [u EXCEPT !.registered = TRUE]
<1>1. u \in CallManagerFields
  BY Assign DEF ObjectOK
<1>2. n \in CallManagerFields
  <2> HIDE DEF u
  <2> QED  BY <1>1, Assign
<1>3. /\ n.allowVib = m.allowVib /\ n.allowRec = m.allowRec /\ n.running = m.running
      /\ n.threw = m.threw /\ n.recording = m.recording /\ n.inCall = m.inCall
      /\ n.live = m.live /\ n.stopListening = m.stopListening
      /\ n.vibrating = m.vibrating /\ n.resets = m.resets
  BY DEF ObjectOK, CallManagerFields
<1>4. OnStartup(m) = n
  BY DEF OnStartup
<1> HIDE DEF n
<1> QED  BY <1>2, <1>3, <1>4 DEF ObjectOK

\* The preference listener copies the changed preference into its flag.
LEMMA PreferenceResult ==
  ASSUME NEW m, ObjectOK(m), NEW key \in Keys, NEW status \in BOOLEAN
  PROVE  LET n == OnSharedPreferenceChanged(m, key, status)
         IN  /\ Result(n)
             /\ n.allowRec = (IF key = "rec" THEN status ELSE m.allowRec)
             /\ n.allowVib = (IF key = "vib" THEN status ELSE m.allowVib)
             /\ n.recording = m.recording
<1> DEFINE s == IF status /\ ~m.running THEN OnStartup(m) ELSE m
           e == Enable(s, key, status)
           n == OnSharedPreferenceChanged(m, key, status)
<1>1. ObjectOK(s) /\ s.allowRec = m.allowRec /\ s.allowVib = m.allowVib
      /\ s.recording = m.recording
  BY OnStartupResult
<1>2. /\ ObjectOK(e)
      /\ e.allowRec = (IF key = "rec" THEN status ELSE m.allowRec)
      /\ e.allowVib = (IF key = "vib" THEN status ELSE m.allowVib)
      /\ e.recording = m.recording
  <2> HIDE DEF s
  <2> QED  BY <1>1, EnableResult DEF Enable, Keys
<1>3. n = CASE e.running -> e
            [] ~e.running /\ ~e.recording -> OnClose(e)
            [] ~e.running /\ e.recording -> [e EXCEPT !.stopListening = TRUE]
  BY DEF OnSharedPreferenceChanged
<1> HIDE DEF e, n
<1>4. /\ Result(n) /\ n.recording = e.recording
      /\ n.allowRec = e.allowRec /\ n.allowVib = e.allowVib
  <2>1. CASE e.running
    BY <2>1, <1>2, <1>3 DEF Result
  <2>2. CASE ~e.running /\ ~e.recording
    <3>1. n = OnClose(e)  BY <2>2, <1>3
    <3> QED  BY <3>1, <1>2 DEF Result, ObjectOK, OnClose, CallManagerFields, Crashes
  <2>3. CASE ~e.running /\ e.recording
    <3>1. n = [e EXCEPT !.stopListening = TRUE]  BY <2>3, <1>3
    <3> QED  BY <3>1, <2>3, <1>2 DEF Result, ObjectOK, CallManagerFields
  <2>4. e.running \in BOOLEAN /\ e.recording \in BOOLEAN
    BY <1>2 DEF ObjectOK, CallManagerFields
  <2> QED  BY <2>1, <2>2, <2>3, <2>4
<1> QED  BY <1>2, <1>4 DEF n

\* onServiceConnected copies both preferences.
LEMMA StartFromPrefsResult ==
  ASSUME NEW p \in [Keys -> BOOLEAN]
  PROVE  LET n == StartFromPrefs(Fresh, p)
         IN  ObjectOK(n) /\ n.allowRec = p["rec"] /\ n.allowVib = p["vib"] /\ ~n.recording
<1> DEFINE a == p["rec"]
           b == p["vib"]
           s == OnStartup(Fresh)
           r == EnableCallRecording(s, a)
           v == EnableCallVibration(r, b)
<1>1. a \in BOOLEAN /\ b \in BOOLEAN
  BY DEF Keys
<1>2. ObjectOK(s) /\ s.recording = Fresh.recording
  BY FreshOK, OnStartupResult
<1>3. ObjectOK(r) /\ r.allowRec = a /\ r.recording = s.recording
  <2> HIDE DEF s, a
  <2> QED  BY <1>1, <1>2, EnableResult
<1>4. /\ ObjectOK(v) /\ v.allowVib = b /\ v.allowRec = r.allowRec
      /\ v.recording = r.recording
  <2> HIDE DEF r, b
  <2> QED  BY <1>1, <1>3, EnableResult
<1>5. Fresh.recording = FALSE /\ Fresh.allowRec = FALSE /\ Fresh.allowVib = FALSE
  BY DEF Fresh
<1>6. StartFromPrefs(Fresh, p) = IF a \/ b THEN v ELSE Fresh
  BY DEF StartFromPrefs
<1> HIDE DEF s, r, v
<1> QED  BY <1>1, <1>2, <1>3, <1>4, <1>5, <1>6, FreshOK

\* How an action ends: the invariant holds again whenever the handler's result
\* is in order and has the right flags.
LEMMA FinishKeepsIInv ==
  ASSUME TypeOK, NEW m, Result(m),
         NEW next \in {"connected", "destroyed"},
         NEW precise \in [Sims -> Seq(CallStates)], NEW bcast \in Seq(Broadcasts),
         Finish(m, next, precise, bcast),
         pref' \in [Keys -> BOOLEAN], fg' \in [Sims -> CallStates],
         m.allowRec = pref'["rec"] /\ m.allowVib = pref'["vib"]
  PROVE  IInv'
<1>1. CASE m.threw = "none"
  <2>1. ObjectOK(m)
    BY <1>1 DEF Result, Crashes
  <2>2. cm' = m /\ svc' = next /\ preciseQ' = precise /\ bcastQ' \in Seq(Broadcasts)
    <3>1. /\ cm' = m /\ svc' = next /\ preciseQ' = precise
          /\ bcastQ' = IF m.registered THEN bcast ELSE << >>
      BY <1>1 DEF Finish
    <3>2. << >> \in Seq(Broadcasts)  OBVIOUS
    <3> QED  BY <3>1, <3>2
  <2>3. TypeOK'
    BY <2>1, <2>2 DEF TypeOK, ObjectOK
  <2>4. ObjectOK(cm)'
    BY <2>1, <2>2 DEF ObjectOK
  <2>5. FlagsFollowPrefs'
    BY <2>2 DEF FlagsFollowPrefs, Alive
  <2> QED  BY <2>3, <2>4, <2>5 DEF IInv
<1>2. CASE m.threw # "none"
  <2>1. m.threw \in Crashes
    BY <1>2 DEF Result, ObjectOK
  <2>2. cm' = Fresh /\ svc' = m.threw /\ preciseQ' = NoEvents /\ bcastQ' = << >>
    BY <1>2 DEF Finish
  <2>3. NoEvents \in [Sims -> Seq(CallStates)] /\ << >> \in Seq(Broadcasts)
    BY DEF NoEvents
  <2>4. TypeOK'
    BY <2>1, <2>2, <2>3, FreshOK DEF TypeOK, ObjectOK
  <2>5. ObjectOK(cm)'
    BY <2>2, FreshOK DEF ObjectOK
  <2>6. FlagsFollowPrefs'
    BY <2>1, <2>2 DEF FlagsFollowPrefs, Alive, Crashes
  <2> QED  BY <2>4, <2>5, <2>6 DEF IInv
<1> QED  BY <1>1, <1>2

\* The invariant holds when the process starts.
LEMMA InitIInv == Init => IInv
<1> SUFFICES ASSUME Init PROVE IInv
  OBVIOUS
<1>1. NoEvents \in [Sims -> Seq(CallStates)] /\ << >> \in Seq(Broadcasts)
  BY DEF NoEvents
<1>2. TypeOK
  BY <1>1, FreshOK DEF Init, TypeOK, ObjectOK
<1>3. ObjectOK(cm)
  BY FreshOK DEF Init, ObjectOK
<1>4. FlagsFollowPrefs
  BY DEF Init, FlagsFollowPrefs, Alive
<1> QED  BY <1>2, <1>3, <1>4 DEF IInv

\* The states telephony posts when the listeners are registered are well typed.
LEMMA CurrentStatesType ==
  ASSUME TypeOK PROVE WithCurrentStates \in [Sims -> Seq(CallStates)]
  BY DEF TypeOK, WithCurrentStates

\* Every step keeps the invariant, action by action.
LEMMA NextIInv == IInv /\ [Next]_vars => IInv'
<1> SUFFICES ASSUME IInv, [Next]_vars PROVE IInv'
  OBVIOUS
<1> USE DEF IInv
<1>t. pref \in [Keys -> BOOLEAN] /\ fg \in [Sims -> CallStates]
  BY DEF TypeOK
<1>1. CASE ServiceConnected
  <2>1. cm = Fresh
    BY <1>1 DEF ServiceConnected, FlagsFollowPrefs, Alive
  <2> DEFINE n == StartFromPrefs(Fresh, pref)
             q == IF pref["rec"] \/ pref["vib"] THEN WithCurrentStates ELSE preciseQ
  <2>2. ObjectOK(n) /\ n.allowRec = pref["rec"] /\ n.allowVib = pref["vib"]
    BY <1>t, StartFromPrefsResult
  <2>3. q \in [Sims -> Seq(CallStates)] /\ bcastQ \in Seq(Broadcasts)
    BY CurrentStatesType DEF TypeOK
  <2>4. Finish(n, "connected", q, bcastQ) /\ pref' = pref /\ fg' = fg
    BY <1>1, <2>1 DEF ServiceConnected
  <2>5. Result(n)
    BY <2>2 DEF Result
  <2> HIDE DEF n, q
  <2> QED  BY <1>t, <2>2, <2>3, <2>4, <2>5, FinishKeepsIInv
<1>2. ASSUME NEW key \in Keys, PreferenceChanged(key) PROVE IInv'
  <2> DEFINE status == ~pref[key]
             n == OnSharedPreferenceChanged(cm, key, status)
             q == IF status /\ ~cm.running THEN WithCurrentStates ELSE preciseQ
  <2>1. status \in BOOLEAN
    BY <1>t
  <2>2. /\ Result(n)
        /\ n.allowRec = (IF key = "rec" THEN status ELSE cm.allowRec)
        /\ n.allowVib = (IF key = "vib" THEN status ELSE cm.allowVib)
    <3> HIDE DEF status
    <3> QED  BY <2>1, PreferenceResult
  <2>3. q \in [Sims -> Seq(CallStates)] /\ bcastQ \in Seq(Broadcasts)
    BY CurrentStatesType DEF TypeOK
  <2>4. /\ Finish(n, svc, q, bcastQ) /\ fg' = fg /\ Alive
        /\ pref' = [pref EXCEPT ![key] = status]
    BY <1>2 DEF PreferenceChanged
  <2>5. pref' \in [Keys -> BOOLEAN]
    BY <1>t, <2>1, <2>4
  <2>6. /\ pref'["rec"] = IF key = "rec" THEN status ELSE pref["rec"]
        /\ pref'["vib"] = IF key = "vib" THEN status ELSE pref["vib"]
    <3> HIDE DEF status
    <3> QED  BY <1>t, <1>2, <2>4 DEF Keys
  <2> HIDE DEF status, n, q
  <2>7. svc \in {"connected", "destroyed"}
    BY <2>4 DEF Alive
  <2>8. n.allowRec = pref'["rec"] /\ n.allowVib = pref'["vib"]
    BY <2>2, <2>4, <2>6 DEF FlagsFollowPrefs
  <2> QED  BY <1>t, <2>2, <2>3, <2>4, <2>5, <2>7, <2>8, FinishKeepsIInv
<1>3. ASSUME NEW key \in Keys, PreferenceChangedUnseen(key) PROVE IInv'
  <2>1. pref' \in [Keys -> BOOLEAN]
    BY <1>t, <1>3 DEF PreferenceChangedUnseen
  <2>2. UNCHANGED <<svc, fg, preciseQ, bcastQ, cm>> /\ ~Alive
    BY <1>3 DEF PreferenceChangedUnseen
  <2> QED  BY <2>1, <2>2 DEF TypeOK, ObjectOK, FlagsFollowPrefs, Alive
<1>4. CASE OnDestroy
  <2>1. Result(OnClose(cm)) /\ Obeys(cm, OnClose(cm))
    BY OnCloseResult
  <2>2. Finish(OnClose(cm), "destroyed", preciseQ, << >>) /\ pref' = pref /\ fg' = fg
    BY <1>4 DEF OnDestroy
  <2>3. preciseQ \in [Sims -> Seq(CallStates)] /\ << >> \in Seq(Broadcasts)
    BY DEF TypeOK
  <2>4. OnClose(cm).allowRec = pref'["rec"] /\ OnClose(cm).allowVib = pref'["vib"]
    BY <1>4, <2>1, <2>2 DEF OnDestroy, FlagsFollowPrefs, Obeys, Alive
  <2> QED  BY <1>t, <2>1, <2>2, <2>3, <2>4, FinishKeepsIInv
<1>5. CASE Restart
  <2>1. NoEvents \in [Sims -> Seq(CallStates)] /\ << >> \in Seq(Broadcasts)
    BY DEF NoEvents
  <2>2. /\ svc' = "starting" /\ cm' = Fresh /\ preciseQ' = NoEvents /\ bcastQ' = << >>
        /\ pref' = pref /\ fg' = fg
    BY <1>5 DEF Restart
  <2>3. TypeOK'
    BY <1>t, <2>1, <2>2, FreshOK DEF TypeOK, ObjectOK
  <2>4. ObjectOK(cm)'
    BY <2>2, FreshOK DEF ObjectOK
  <2> QED  BY <2>2, <2>3, <2>4 DEF FlagsFollowPrefs, Alive
<1>6. ASSUME NEW s \in Sims, NEW st \in CallStates, PreciseCallStateChanged(s, st)
      PROVE  IInv'
  <2>1. fg' \in [Sims -> CallStates] /\ preciseQ' \in [Sims -> Seq(CallStates)]
    <3>1. fg' \in [Sims -> CallStates]
      BY <1>t, <1>6 DEF PreciseCallStateChanged
    <3>2. \/ preciseQ' = preciseQ
          \/ preciseQ' = [preciseQ EXCEPT ![s] = Append(@, st)]
      BY <1>6 DEF PreciseCallStateChanged
    <3>3. preciseQ \in [Sims -> Seq(CallStates)] /\ Append(preciseQ[s], st) \in Seq(CallStates)
      BY DEF TypeOK
    <3> QED  BY <3>1, <3>2, <3>3
  <2>2. UNCHANGED <<svc, pref, bcastQ, cm>>
    BY <1>6 DEF PreciseCallStateChanged
  <2> QED  BY <2>1, <2>2 DEF TypeOK, ObjectOK, FlagsFollowPrefs, Alive
<1>7. ASSUME NEW b \in Broadcasts, Broadcast(b) PROVE IInv'
  <2>1. bcastQ' \in Seq(Broadcasts)
    BY <1>7 DEF Broadcast, TypeOK
  <2>2. UNCHANGED <<svc, pref, fg, preciseQ, cm>>
    BY <1>7 DEF Broadcast
  <2> QED  BY <2>1, <2>2 DEF TypeOK, ObjectOK, FlagsFollowPrefs, Alive
<1>8. ASSUME NEW s \in Sims, DeliverPrecise(s) PROVE IInv'
  <2> DEFINE q == [preciseQ EXCEPT ![s] = Tail(@)]
  <2>1. PICK outcome \in Outcomes :
          Finish(OnPreciseCallState(cm, Head(preciseQ[s]), outcome), svc, q, bcastQ)
    BY <1>8 DEF DeliverPrecise
  <2>2. /\ svc \in {"connected", "destroyed"} /\ preciseQ[s] # << >>
        /\ pref' = pref /\ fg' = fg
    BY <1>8 DEF DeliverPrecise, Alive
  <2>3. Head(preciseQ[s]) \in CallStates /\ q \in [Sims -> Seq(CallStates)]
    BY <2>2 DEF TypeOK
  <2> DEFINE n == OnPreciseCallState(cm, Head(preciseQ[s]), outcome)
  <2>4. Result(n) /\ Obeys(cm, n)
    BY <2>3, OnPreciseCallStateResult
  <2> HIDE DEF n, q
  <2>5. n.allowRec = pref'["rec"] /\ n.allowVib = pref'["vib"]
    BY <2>2, <2>4 DEF FlagsFollowPrefs, Obeys, Alive
  <2>6. bcastQ \in Seq(Broadcasts) /\ Finish(n, svc, q, bcastQ)
    BY <2>1 DEF TypeOK, n
  <2> QED  BY <1>t, <2>2, <2>3, <2>4, <2>5, <2>6, FinishKeepsIInv
<1>9. CASE DeliverBroadcast
  <2>1. PICK outcome \in Outcomes :
          Finish(OnReceive(cm, Head(bcastQ), outcome), svc, preciseQ, Tail(bcastQ))
    BY <1>9 DEF DeliverBroadcast
  <2>2. /\ svc \in {"connected", "destroyed"} /\ bcastQ # << >>
        /\ pref' = pref /\ fg' = fg
    BY <1>9 DEF DeliverBroadcast, Alive
  <2>3. Head(bcastQ) \in Broadcasts /\ Tail(bcastQ) \in Seq(Broadcasts)
    BY <2>2 DEF TypeOK
  <2> DEFINE n == OnReceive(cm, Head(bcastQ), outcome)
  <2>4. Result(n) /\ Obeys(cm, n)
    BY <2>3, OnReceiveResult
  <2> HIDE DEF n
  <2>5. n.allowRec = pref'["rec"] /\ n.allowVib = pref'["vib"]
    BY <2>2, <2>4 DEF FlagsFollowPrefs, Obeys, Alive
  <2>6. preciseQ \in [Sims -> Seq(CallStates)] /\ Finish(n, svc, preciseQ, Tail(bcastQ))
    BY <2>1 DEF TypeOK, n
  <2> QED  BY <1>t, <2>2, <2>3, <2>4, <2>5, <2>6, FinishKeepsIInv
<1>10. CASE VibrateReset
  <2> DEFINE u == [cm EXCEPT !.vibrating = FALSE]
             v == [u EXCEPT !.resets = cm.resets - 1]
  <2>1. /\ cm' = v /\ UNCHANGED <<svc, pref, fg, preciseQ, bcastQ>>
        /\ cm.resets > 0 /\ Alive
    BY <1>10 DEF VibrateReset
  <2>2. cm \in CallManagerFields /\ cm.resets - 1 \in Nat
    BY <2>1 DEF TypeOK, CallManagerFields
  <2>3. u \in CallManagerFields
    BY <2>2, Assign
  <2>4. v \in CallManagerFields
    <3> HIDE DEF u
    <3> QED  BY <2>2, <2>3, Assign
  <2>5. /\ v.threw = cm.threw /\ v.running = cm.running /\ v.allowRec = cm.allowRec
        /\ v.allowVib = cm.allowVib /\ v.recording = cm.recording
        /\ v.inCall = cm.inCall /\ v.live = cm.live
        /\ v.stopListening = cm.stopListening /\ v.vibrating = FALSE
    BY DEF TypeOK, CallManagerFields
  <2> HIDE DEF v
  <2>6. ObjectOK(cm)'
    BY <2>1, <2>4, <2>5 DEF ObjectOK
  <2>7. TypeOK'
    BY <2>1, <2>4 DEF TypeOK
  <2>8. FlagsFollowPrefs'
    BY <2>1, <2>5 DEF FlagsFollowPrefs, Alive
  <2> QED  BY <2>6, <2>7, <2>8
<1>11. CASE UNCHANGED vars
  BY <1>11 DEF vars, TypeOK, ObjectOK, FlagsFollowPrefs, Alive
<1> QED
  BY <1>1, <1>2, <1>3, <1>4, <1>5, <1>6, <1>7, <1>8, <1>9, <1>10, <1>11 DEF Next

\* The inductive invariant holds in every behaviour.
THEOREM Invariance == Spec => []IInv
  BY InitIInv, NextIInv, PTL DEF Spec

\* Every field of the object and every queue keeps its type.
THEOREM TypeCorrect == Spec => []TypeOK
<1>1. IInv => TypeOK
  BY DEF IInv
<1> QED  BY <1>1, Invariance, PTL

\* At most one MediaRecorder is alive, exactly while areWeRecordingACall, and
\* only inside a call manageCallEnding will react to.
THEOREM RecorderSafe == Spec => []RecorderConsistent
<1>1. IInv => RecorderConsistent
  BY DEF IInv, ObjectOK, RecorderConsistent
<1> QED  BY <1>1, Invariance, PTL

\* A deferred close always has a running recording whose end will consume it.
THEOREM PendingCloseSafe == Spec => []PendingCloseHasRecording
<1>1. IInv => PendingCloseHasRecording
  BY DEF IInv, ObjectOK, PendingCloseHasRecording
<1> QED  BY <1>1, Invariance, PTL

\* While areWeVibrating suppresses vibrations, a posted runnable will clear it.
THEOREM VibrationSafe == Spec => []VibrationWillReset
<1>1. IInv => VibrationWillReset
  BY DEF IInv, ObjectOK, VibrationWillReset
<1> QED  BY <1>1, Invariance, PTL

\* A handler that obeys the flags starts no recording the user did not allow.
LEMMA ObeysConsent ==
  ASSUME IInv, Alive, ~cm.recording, cm'.recording,
         NEW m, Obeys(cm, m), NEW next, NEW precise, NEW bcast,
         Finish(m, next, precise, bcast)
  PROVE  pref["rec"]
<1>1. cm' = m \/ cm' = Fresh
  BY DEF Finish
<1>2. ~Fresh.recording
  BY DEF Fresh
<1>3. m.recording => cm.allowRec
  BY DEF Obeys
<1> QED  BY <1>1, <1>2, <1>3 DEF IInv, FlagsFollowPrefs

\* A MediaRecorder only starts while the user's preference allows recording.
THEOREM ConsentSafe == Spec => StartsOnlyWithConsent
<1> DEFINE Consent == ~cm.recording /\ cm'.recording => pref["rec"]
<1>1. IInv /\ [Next]_vars => [Consent]_vars
  <2> SUFFICES ASSUME IInv, Next, ~cm.recording, cm'.recording
               PROVE  pref["rec"]
    BY DEF vars
  <2>i. ObjectOK(cm) /\ TypeOK
    BY DEF IInv
  <2>1. ASSUME NEW key \in Keys, PreferenceChanged(key) PROVE pref["rec"]
    <3> DEFINE status == ~pref[key]
               n == OnSharedPreferenceChanged(cm, key, status)
    <3>1. cm' = n \/ cm' = Fresh
      BY <2>1 DEF PreferenceChanged, Finish
    <3>2. status \in BOOLEAN
      BY DEF TypeOK
    <3>3. n.recording = cm.recording
      <4> HIDE DEF status
      <4> QED  BY <2>i, <3>2, PreferenceResult
    <3> HIDE DEF n
    <3> QED  BY <3>1, <3>3 DEF Fresh
  <2>2. CASE OnDestroy
    BY <2>2, <2>i, OnCloseResult, ObeysConsent DEF OnDestroy, Alive
  <2>3. ASSUME NEW s \in Sims, DeliverPrecise(s) PROVE pref["rec"]
    <3>1. PICK outcome \in Outcomes :
            Finish(OnPreciseCallState(cm, Head(preciseQ[s]), outcome), svc,
                   [preciseQ EXCEPT ![s] = Tail(@)], bcastQ)
      BY <2>3 DEF DeliverPrecise
    <3>2. Head(preciseQ[s]) \in CallStates
      BY <2>3, <2>i DEF DeliverPrecise, TypeOK
    <3>3. Alive
      BY <2>3 DEF DeliverPrecise
    <3> QED  BY <2>i, <3>1, <3>2, <3>3, OnPreciseCallStateResult, ObeysConsent
  <2>4. CASE DeliverBroadcast
    <3>1. PICK outcome \in Outcomes :
            Finish(OnReceive(cm, Head(bcastQ), outcome), svc, preciseQ, Tail(bcastQ))
      BY <2>4 DEF DeliverBroadcast
    <3>2. Head(bcastQ) \in Broadcasts
      BY <2>4, <2>i DEF DeliverBroadcast, TypeOK
    <3>3. Alive
      BY <2>4 DEF DeliverBroadcast
    <3> QED  BY <2>i, <3>1, <3>2, <3>3, OnReceiveResult, ObeysConsent
  <2>5. CASE Restart
    BY <2>5 DEF Restart, Fresh
  <2>6. CASE VibrateReset
    BY <2>6, <2>i DEF VibrateReset, TypeOK, CallManagerFields
  <2>7. CASE ServiceConnected
    <3>1. cm = Fresh
      BY <2>7 DEF ServiceConnected, IInv, FlagsFollowPrefs, Alive
    <3>2. ~StartFromPrefs(Fresh, pref).recording
      BY <2>i, StartFromPrefsResult DEF TypeOK
    <3>3. cm' = StartFromPrefs(Fresh, pref) \/ cm' = Fresh
      BY <2>7, <3>1 DEF ServiceConnected, Finish
    <3> QED  BY <3>2, <3>3 DEF Fresh
  <2>8. CASE \/ \E key \in Keys : PreferenceChangedUnseen(key)
             \/ \E s \in Sims, st \in CallStates : PreciseCallStateChanged(s, st)
             \/ \E b \in Broadcasts : Broadcast(b)
    BY <2>8 DEF PreferenceChangedUnseen, PreciseCallStateChanged, Broadcast
  <2> QED  BY <2>1, <2>2, <2>3, <2>4, <2>5, <2>6, <2>7, <2>8 DEF Next
<1> QED  BY <1>1, Invariance, PTL DEF Spec, StartsOnlyWithConsent
=============================================================================
