------------------------ MODULE ScreenService_proofs -------------------------
(* What MainService.java does around the screen is right for every set of     *)
(* buttons and however many broadcasts, runnables and clicks are pending.     *)
EXTENDS ScreenService, SequenceTheorems, FiniteSetTheorems, TLAPS

\* The screen state the receiver was last told of: the present one when nothing
\* is in flight, otherwise the one before the broadcast at the head.
Told(q, s) == IF q = << >> THEN s ELSE Head(q) = "off"

\* Broadcasts in flight alternate, and the last one reports the present state.
Alternates(q, s) ==
  /\ q \in Seq({"on", "off"})
  /\ \A k \in 1 .. Len(q) - 1 : q[k] # q[k + 1]
  /\ q # << >> => (q[Len(q)] = "on") = s

\* Handling a broadcast: the receiver is told of the state it reports.
LEMMA Handled ==
  ASSUME NEW s \in BOOLEAN, NEW q, Alternates(q, s), q # << >>
  PROVE  /\ Alternates(Tail(q), s)
         /\ Told(Tail(q), s) = (Head(q) = "on")
         /\ Head(q) \in {"on", "off"}
         /\ Tail(q) = << >> => (Head(q) = "on") = s
<1>1. q \in Seq({"on", "off"}) /\ Len(q) \in Nat /\ Len(q) # 0 /\ Head(q) = q[1]
  BY LenProperties, EmptySeq DEF Alternates
<1>2. /\ Tail(q) \in Seq({"on", "off"}) /\ Len(Tail(q)) = Len(q) - 1
      /\ \A k \in 1 .. Len(q) - 1 : Tail(q)[k] = q[k + 1]
  BY <1>1, HeadTailProperties DEF Alternates
<1>3. q[1] \in {"on", "off"}
  BY <1>1, ElementOfSeq
<1>4. CASE Len(q) = 1
  <2>1. Len(Tail(q)) = 0
    BY <1>2, <1>4
  <2>2. Tail(q) = << >>
    BY <1>2, <2>1, EmptySeq
  <2>3. Alternates(Tail(q), s)
    BY <1>2, <2>1, <2>2 DEF Alternates
  <2>4. (q[1] = "on") = s
    BY <1>4 DEF Alternates
  <2> QED BY <1>1, <1>3, <2>2, <2>3, <2>4 DEF Told
<1>5. CASE Len(q) > 1
  <2>1. Tail(q) # << >> /\ Head(Tail(q)) = q[2] /\ Tail(q)[Len(Tail(q))] = q[Len(q)]
    BY <1>1, <1>2, <1>5, EmptySeq
  <2>2. q[2] \in {"on", "off"} /\ q[1] # q[2]
    BY <1>1, <1>5, ElementOfSeq DEF Alternates
  <2>3. Alternates(Tail(q), s)
    BY <1>1, <1>2, <1>5, <2>1 DEF Alternates
  <2> QED BY <1>1, <1>3, <2>1, <2>2, <2>3 DEF Told
<1>6. Len(q) = 1 \/ Len(q) > 1
  <2>1. \A n \in Nat : n # 0 => n = 1 \/ n > 1
    OBVIOUS
  <2> QED BY <1>1, <2>1
<1> QED BY <1>4, <1>5, <1>6

\* A screen change: the receiver is told of nothing new yet.
LEMMA Sent ==
  ASSUME NEW s \in BOOLEAN, NEW q, Alternates(q, s)
  PROVE  LET r == Append(q, IF s THEN "off" ELSE "on")
         IN  Alternates(r, ~s) /\ Told(r, ~s) = Told(q, s) /\ r # << >>
<1> DEFINE e == IF s THEN "off" ELSE "on"
           r == Append(q, e)
<1>1. q \in Seq({"on", "off"}) /\ Len(q) \in Nat /\ e \in {"on", "off"}
  BY LenProperties DEF Alternates
<1>2. /\ r \in Seq({"on", "off"}) /\ Len(r) = Len(q) + 1 /\ r[Len(q) + 1] = e
      /\ \A k \in 1 .. Len(q) : r[k] = q[k]
  BY <1>1, AppendProperties
<1>3. r # << >> /\ Head(r) = r[1] /\ Len(r) # 0
  BY <1>1, <1>2, EmptySeq
<1> HIDE DEF r
<1>4. CASE q = << >>
  <2>1. Len(q) = 0 /\ r[1] = e /\ Len(r) = 1
    BY <1>1, <1>2, <1>4
  <2> QED BY <1>2, <1>3, <1>4, <2>1 DEF Alternates, Told, r
<1>5. CASE q # << >>
  <2>1. Len(q) > 0 /\ Head(q) = q[1] /\ r[1] = q[1]
    BY <1>1, <1>2, <1>5, EmptySeq
  <2>2. q[Len(q)] # e /\ q[Len(q)] \in {"on", "off"}
    <3>1. q[Len(q)] \in {"on", "off"}
      BY <1>1, <2>1, ElementOfSeq
    <3> QED BY <1>5, <3>1 DEF Alternates
  <2>3. \A k \in 1 .. Len(r) - 1 : r[k] # r[k + 1]
    <3> TAKE k \in 1 .. Len(r) - 1
    <3>1. CASE k = Len(q)
      BY <1>1, <1>2, <2>1, <2>2, <3>1
    <3>2. CASE k # Len(q)
      <4>1. k \in 1 .. Len(q) - 1 /\ k + 1 \in 1 .. Len(q)
        BY <1>1, <1>2, <3>2
      <4> QED BY <1>1, <1>2, <4>1 DEF Alternates
    <3> QED BY <3>1, <3>2
  <2>4. (r[Len(r)] = "on") = ~s
    BY <1>1, <1>2
  <2> QED BY <1>2, <1>3, <1>5, <2>1, <2>3, <2>4 DEF Alternates, Told, r
<1> QED BY <1>4, <1>5

-----------------------------------------------------------------------------
\* The backlight's part of the invariant.

\* Without the service no broadcast is in flight, and nothing else is pending
\* unless it was destroyed in a hurry; while it runs, its flags follow the
\* preferences.
ServiceInv ==
  /\ ~connected => ~control /\ ~forced /\ queue = << >>
  /\ connected => forced = pref["forced"]
  /\ forced => ~control
  /\ ~hurried /\ ~connected => screen /\ clicks = 0 /\ timers = 0

\* Clicks are counted while buttonsBacklightControl is set, and only then.
CountInv ==
  ~hurried =>
    /\ clicks <= Cardinality(down) + timers
    /\ ~control => clicks = 0 /\ timers = 0

QueueInv == Alternates(queue, screen)

BacklightInv ==
  /\ TypeOK /\ ServiceInv /\ CountInv /\ QueueInv
  /\ ForcedIsLit /\ ScreenOffIsDark

\* Pocket mode's part.  In order are: nothing covered, registered or let through
\* once the receiver was told that the screen is on, nor without the preference;
\* the listener at work once it was told that the screen is off.  A listener that
\* a destroyed service has left undoes all but the wake-up node.
PocketTypeOK ==
  /\ covered \in BOOLEAN /\ dtw \in BOOLEAN /\ ready \in BOOLEAN /\ registered \in BOOLEAN
  /\ reading \in BOOLEAN /\ doubleTap \in BOOLEAN /\ fp \in BOOLEAN /\ touch \in BOOLEAN
  /\ leaked \in BOOLEAN
  /\ pocket \in BOOLEAN /\ doze \in BOOLEAN /\ recent \in BOOLEAN /\ missed \in BOOLEAN

AtRest == ~fp /\ ~registered /\ ~reading

PocketInv ==
  /\ connected /\ pocket => ready
  /\ ~Writable => ~fp
  /\ ~missed => (Told(queue, screen) \/ ~dtw => ~doze)
  /\ ~missed /\ ~leaked =>
       /\ Told(queue, screen) \/ ~pocket => AtRest
       /\ Writable /\ ~Told(queue, screen) /\ ~hurried /\ connected /\ pocket =>
            /\ registered /\ doubleTap = dtw
            /\ ~reading => fp = covered /\ (dtw => touch = covered)

IInv == BacklightInv /\ PocketTypeOK /\ PocketInv

-----------------------------------------------------------------------------
\* Buttons held: how their number changes.
LEMMA DownCount ==
  ASSUME NEW d \in SUBSET Buttons
  PROVE  /\ IsFiniteSet(d) /\ Cardinality(d) \in Nat
         /\ \A b \in Buttons \ d : Cardinality(d \cup {b}) = Cardinality(d) + 1
         /\ \A b \in d : Cardinality(d \ {b}) = Cardinality(d) - 1
         /\ d = {} => Cardinality(d) = 0
<1>1. IsFiniteSet(d)
  BY BacklightAssumption, FS_Subset
<1> QED BY <1>1, FS_CardinalityType, FS_AddElement, FS_RemoveElement, FS_EmptySet

LEMMA BacklightInit == Init => BacklightInv
<1> SUFFICES ASSUME Init PROVE BacklightInv
  OBVIOUS
<1>1. TypeOK
  <2>1. clicks \in Nat /\ timers \in Nat /\ queue \in Seq({"on", "off"})
    BY DEF Init
  <2> QED BY <2>1 DEF Init, TypeOK
<1>4. ServiceInv /\ ForcedIsLit /\ ScreenOffIsDark
  BY DEF Init, ServiceInv, ForcedIsLit, ScreenOffIsDark
<1>2. QueueInv
  BY DEF Init, QueueInv, Alternates
<1>3. CountInv
  <2>1. clicks = 0 /\ timers = 0 /\ Cardinality(down) = 0
    BY FS_EmptySet DEF Init
  <2> QED BY <2>1 DEF CountInv
<1> QED BY <1>1, <1>2, <1>3, <1>4 DEF BacklightInv

\* A step of the backlight, or the history variable alone.
LEMMA BacklightNext ==
  ASSUME BacklightInv,
         \/ [Next]_vars
         \/ /\ Hurries(Quiet)
            /\ UNCHANGED <<connected, left, pref, control, forced, clicks, timers, lit, down, screen, queue>>
  PROVE  BacklightInv'
<1> USE DEF BacklightInv
<1>0. /\ clicks \in Nat /\ timers \in Nat /\ down \in SUBSET Buttons /\ screen \in BOOLEAN
      /\ Cardinality(down) \in Nat
  BY DownCount DEF TypeOK
<1>calm. ~hurried /\ Quiet => clicks = 0 /\ timers = 0 /\ screen /\ queue = << >>
  <2> SUFFICES ASSUME ~hurried, Quiet PROVE clicks = 0 /\ timers = 0 /\ screen /\ queue = << >>
    OBVIOUS
  <2>1. timers = 0 /\ Cardinality(down) = 0 /\ screen /\ queue = << >>
    BY <1>0, DownCount DEF Quiet
  <2>2. clicks <= Cardinality(down) + timers
    BY DEF CountInv
  <2> QED BY <1>0, <2>1, <2>2
<1>1. CASE ServiceConnected
  <2>1. /\ ~connected /\ connected' = TRUE /\ control' = (~pref["forced"] /\ pref["enabled"])
        /\ forced' = pref["forced"] /\ lit' = pref["forced"] /\ queue = << >>
        /\ UNCHANGED <<left, pref, clicks, timers, down, screen, queue, hurried>>
        /\ pref["forced"] \in BOOLEAN /\ pref["enabled"] \in BOOLEAN
    BY <1>1 DEF ServiceConnected, ControlFromPrefs, ServiceInv, TypeOK, Prefs, user
  <2>2. TypeOK' /\ ServiceInv'
    BY <2>1 DEF TypeOK, ServiceInv
  <2>3. CountInv'
    BY <1>0, <2>1 DEF CountInv, ServiceInv
  <2>4. QueueInv' /\ ForcedIsLit' /\ ScreenOffIsDark'
    BY <2>1 DEF QueueInv, ForcedIsLit, ScreenOffIsDark, ServiceInv
  <2> QED BY <2>2, <2>3, <2>4
<1>2. CASE ForcedChanged
  <2> DEFINE p == [pref EXCEPT !["forced"] = ~@]
  <2>1. /\ screen /\ hurried' = (hurried \/ ~Quiet) /\ pref' = p
        /\ connected => control' = (~p["forced"] /\ p["enabled"]) /\ forced' = p["forced"] /\ lit' = p["forced"]
        /\ ~connected => lit' \in {p["forced"], lit} /\ control' = control /\ forced' = forced
        /\ UNCHANGED <<connected, left, clicks, timers, down, screen, queue>>
    BY <1>2 DEF ForcedChanged, ControlFromPrefs, Hurries, user
  <2>2. p \in [Prefs -> BOOLEAN] /\ p["forced"] \in BOOLEAN /\ p["enabled"] \in BOOLEAN
    BY DEF TypeOK, Prefs
  <2> HIDE DEF p
  <2>3. TypeOK'
    BY <2>1, <2>2 DEF TypeOK
  <2>4. ServiceInv' /\ ForcedIsLit'
    <3>1. CASE connected
      BY <2>1, <2>2, <3>1 DEF ServiceInv, ForcedIsLit
    <3>2. CASE ~connected
      <4>1. UNCHANGED <<connected, control, forced, queue, clicks, timers, screen>> /\ (~hurried' => ~hurried)
        BY <2>1, <3>2
      <4> QED BY <3>2, <4>1 DEF ServiceInv, ForcedIsLit
    <3> QED BY <3>1, <3>2
  <2>5. CountInv'
    BY <1>0, <1>calm, <2>1 DEF CountInv
  <2>6. QueueInv' /\ ScreenOffIsDark'
    BY <2>1 DEF QueueInv, ScreenOffIsDark
  <2> QED BY <2>3, <2>4, <2>5, <2>6
<1>3. CASE EnabledChanged
  <2>1. /\ screen /\ hurried' = (hurried \/ ~Quiet) /\ ~pref["forced"] /\ ~forced
        /\ control' = (connected /\ ~pref["enabled"]) /\ pref' = [pref EXCEPT !["enabled"] = ~@]
        /\ UNCHANGED <<connected, left, forced, clicks, timers, lit, down, screen, queue>>
    BY <1>3 DEF EnabledChanged, Hurries, user, ServiceInv
  <2>2. /\ pref' \in [Prefs -> BOOLEAN] /\ pref'["forced"] = pref["forced"]
        /\ pref["enabled"] \in BOOLEAN
    BY <2>1 DEF TypeOK, Prefs
  <2>3. TypeOK'
    BY <2>1, <2>2 DEF TypeOK
  <2>4. ServiceInv'
    BY <1>calm, <2>1, <2>2 DEF ServiceInv
  <2>5. CountInv'
    BY <1>0, <1>calm, <2>1 DEF CountInv
  <2>6. QueueInv' /\ ForcedIsLit' /\ ScreenOffIsDark'
    BY <2>1 DEF QueueInv, ForcedIsLit, ScreenOffIsDark
  <2> QED BY <2>3, <2>4, <2>5, <2>6
<1>4. ASSUME NEW b \in Buttons, Press(b) PROVE BacklightInv'
  <2>1. /\ screen /\ b \notin down /\ hurried' = (hurried \/ ~connected) /\ down' = down \cup {b}
        /\ connected /\ control => clicks' = clicks + 1 /\ lit' = TRUE
        /\ ~(connected /\ control) => clicks' = clicks /\ lit' = lit
        /\ UNCHANGED <<connected, left, pref, control, forced, timers, screen, queue>>
    BY <1>4 DEF Press, Hurries
  <2>2. Cardinality(down') = Cardinality(down) + 1
    BY <1>0, <2>1, DownCount
  <2>3. TypeOK'
    <3>1. clicks' \in {clicks, clicks + 1} /\ lit' \in {lit, TRUE} /\ down' \subseteq Buttons
      BY <1>0, <2>1
    <3>2. clicks' \in Nat
      BY <1>0, <3>1
    <3> QED BY <2>1, <3>1, <3>2 DEF TypeOK
  <2>4. ServiceInv'
    BY <2>1 DEF ServiceInv
  <2>5. CountInv'
    <3> SUFFICES ASSUME ~hurried'
                 PROVE  clicks' <= Cardinality(down') + timers' /\ (~control => clicks' = 0 /\ timers' = 0)
      BY <2>1 DEF CountInv
    <3>1. ~hurried /\ connected
      BY <2>1
    <3>2. clicks <= Cardinality(down) + timers /\ (~control => clicks = 0 /\ timers = 0)
      BY <3>1 DEF CountInv
    <3>3. CASE control
      <4>1. clicks' = clicks + 1 /\ timers' = timers
        BY <2>1, <3>1, <3>3
      <4> QED BY <1>0, <2>2, <3>2, <3>3, <4>1
    <3>4. CASE ~control
      <4>1. clicks' = clicks /\ timers' = timers
        BY <2>1, <3>4
      <4> QED BY <1>0, <2>2, <3>2, <3>4, <4>1
    <3> QED BY <3>3, <3>4
  <2>6. QueueInv' /\ ScreenOffIsDark'
    BY <2>1 DEF QueueInv, ScreenOffIsDark
  <2>7. ForcedIsLit'
    <3>1. CASE connected /\ control
      BY <2>1, <3>1 DEF ForcedIsLit
    <3>2. CASE ~(connected /\ control)
      <4>1. lit' = lit /\ (~hurried' => ~hurried)
        BY <2>1, <3>2
      <4>2. UNCHANGED <<connected, forced, screen, queue>>
        BY <2>1
      <4> QED BY <4>1, <4>2 DEF ForcedIsLit
    <3> QED BY <3>1, <3>2
  <2> QED BY <2>3, <2>4, <2>5, <2>6, <2>7
<1>5. ASSUME NEW b \in Buttons, Release(b) PROVE BacklightInv'
  <2>1. /\ b \in down /\ down' = down \ {b}
        /\ connected /\ control => timers' = timers + 1
        /\ ~(connected /\ control) => timers' = timers
        /\ UNCHANGED <<connected, left, pref, control, forced, clicks, lit, screen, queue, hurried>>
    BY <1>5 DEF Release
  <2>2. Cardinality(down') = Cardinality(down) - 1 /\ Cardinality(down') \in Nat
    <3>1. down' \in SUBSET Buttons
      BY <1>0, <2>1
    <3> QED BY <1>0, <2>1, <3>1, DownCount
  <2>3. TypeOK'
    <3>1. timers' \in Nat /\ down' \subseteq Buttons
      BY <1>0, <2>1
    <3> QED BY <2>1, <3>1 DEF TypeOK
  <2>4. ServiceInv'
    BY <2>1 DEF ServiceInv
  <2>5. CountInv'
    <3> SUFFICES ASSUME ~hurried
                 PROVE  clicks' <= Cardinality(down') + timers' /\ (~control => clicks' = 0 /\ timers' = 0)
      BY <2>1 DEF CountInv
    <3>1. clicks <= Cardinality(down) + timers /\ (~control => clicks = 0 /\ timers = 0)
      BY DEF CountInv
    <3>2. CASE control
      <4>1. clicks' = clicks /\ timers' = timers + 1
        BY <2>1, <3>2 DEF ServiceInv
      <4> QED BY <1>0, <2>2, <3>1, <3>2, <4>1
    <3>3. CASE ~control
      <4>1. clicks' = 0 /\ timers' = 0
        BY <2>1, <3>1, <3>3
      <4> QED BY <2>2, <3>3, <4>1
    <3> QED BY <3>2, <3>3
  <2>6. QueueInv' /\ ForcedIsLit' /\ ScreenOffIsDark'
    BY <2>1 DEF QueueInv, ForcedIsLit, ScreenOffIsDark
  <2> QED BY <2>3, <2>4, <2>5, <2>6
<1>6. CASE Runnable
  <2>1. /\ timers > 0 /\ timers' = timers - 1
        /\ clicks - 1 <= 0 => clicks' = 0 /\ lit' = FALSE
        /\ ~(clicks - 1 <= 0) => clicks' = clicks - 1 /\ lit' = lit
        /\ UNCHANGED <<connected, left, pref, control, forced, down, screen, queue, hurried>>
    BY <1>6 DEF Runnable, RunnableRuns, user
  <2>2. clicks' \in Nat /\ timers' \in Nat /\ (clicks' = 0 \/ clicks' = clicks - 1) /\ lit' \in {lit, FALSE}
    <3>1. CASE clicks - 1 <= 0
      <4>1. clicks' = 0 /\ lit' = FALSE
        BY <2>1, <3>1
      <4>2. timers' \in Nat
        BY <1>0, <2>1
      <4> QED BY <4>1, <4>2
    <3>2. CASE ~(clicks - 1 <= 0)
      <4>1. clicks' = clicks - 1 /\ lit' = lit
        BY <2>1, <3>2
      <4>2. clicks' \in Nat
        BY <1>0, <3>2, <4>1
      <4>3. timers' \in Nat
        BY <1>0, <2>1
      <4> QED BY <4>1, <4>2, <4>3
    <3> QED BY <3>1, <3>2
  <2>3. TypeOK'
    BY <2>1, <2>2 DEF TypeOK
  <2>4. ServiceInv' /\ (~hurried => control)
    BY <1>0, <2>1 DEF ServiceInv, CountInv
  <2>5. CountInv'
    <3> SUFFICES ASSUME ~hurried PROVE clicks' <= Cardinality(down) + timers'
      BY <2>1, <2>4 DEF CountInv
    <3>1. clicks <= Cardinality(down) + timers
      BY DEF CountInv
    <3>2. timers' = timers - 1 /\ timers > 0
      BY <2>1
    <3> QED BY <1>0, <2>2, <3>1, <3>2
  <2>6. QueueInv' /\ ForcedIsLit' /\ ScreenOffIsDark'
    BY <2>1, <2>2, <2>4 DEF QueueInv, ForcedIsLit, ScreenOffIsDark, ServiceInv
  <2> QED BY <2>3, <2>4, <2>5, <2>6
<1>7. CASE ScreenReceiver
  <2>1. /\ queue # << >> /\ queue' = Tail(queue)
        /\ Head(queue) = "off" => clicks' = 0 /\ lit' = FALSE
        /\ Head(queue) # "off" => clicks' = clicks /\ lit' = (lit \/ forced)
        /\ UNCHANGED <<connected, left, pref, control, forced, timers, down, screen, hurried>>
    BY <1>7 DEF ScreenReceiver, OnReceive, user
  <2>2. /\ Alternates(queue', screen) /\ queue' \in Seq({"on", "off"})
        /\ queue' = << >> => (Head(queue) = "on") = screen
        /\ Head(queue) \in {"on", "off"}
    BY <1>0, <2>1, Handled DEF QueueInv, Alternates
  <2>3. TypeOK'
    <3>1. clicks' \in {0, clicks} /\ lit' \in BOOLEAN
      BY <2>1 DEF TypeOK
    <3>2. clicks' \in Nat
      BY <1>0, <3>1
    <3> QED BY <2>1, <2>2, <3>1, <3>2 DEF TypeOK
  <2>4. ServiceInv' /\ QueueInv'
    BY <2>1, <2>2 DEF ServiceInv, QueueInv
  <2>5. CountInv'
    <3> SUFFICES ASSUME ~hurried
                 PROVE  clicks' <= Cardinality(down) + timers /\ (~control => clicks' = 0 /\ timers = 0)
      BY <2>1 DEF CountInv
    <3>1. clicks <= Cardinality(down) + timers /\ (~control => clicks = 0 /\ timers = 0)
      BY DEF CountInv
    <3>2. clicks' = 0 \/ clicks' = clicks
      BY <2>1
    <3> QED BY <1>0, <3>1, <3>2
  <2>6. ForcedIsLit' /\ ScreenOffIsDark'
    BY <1>0, <2>1, <2>2 DEF ForcedIsLit, ScreenOffIsDark
  <2> QED BY <2>3, <2>4, <2>5, <2>6
<1>8. CASE Screen
  <2>1. /\ hurried' = (hurried \/ ~connected) /\ screen' = ~screen
        /\ connected => queue' = Append(queue, IF screen THEN "off" ELSE "on")
        /\ ~connected => queue' = queue
        /\ UNCHANGED <<connected, left, pref, control, forced, clicks, timers, lit, down>>
    BY <1>8 DEF Screen, Hurries
  <2>2. QueueInv' /\ (connected => queue' # << >>)
    <3>1. CASE connected
      BY <1>0, <2>1, <3>1, Sent DEF QueueInv
    <3>2. CASE ~connected
      BY <2>1, <3>2 DEF ServiceInv, QueueInv, Alternates
    <3> QED BY <3>1, <3>2
  <2>3. TypeOK'
    BY <2>1, <2>2 DEF TypeOK, QueueInv, Alternates
  <2>4. ServiceInv'
    BY <2>1 DEF ServiceInv
  <2>5. CountInv'
    BY <1>0, <2>1 DEF CountInv
  <2>6. ForcedIsLit' /\ ScreenOffIsDark'
    BY <2>1, <2>2 DEF ForcedIsLit, ScreenOffIsDark
  <2> QED BY <2>2, <2>3, <2>4, <2>5, <2>6
<1>9. CASE Restart \/ OnDestroy
  <2>1. /\ hurried' = (hurried \/ ~Quiet) /\ connected' = FALSE /\ left' \in BOOLEAN
        /\ control' = FALSE /\ forced' = FALSE /\ queue' = << >>
        /\ (clicks' = 0 /\ timers' = 0) \/ UNCHANGED <<clicks, timers>>
        /\ UNCHANGED <<pref, lit, down, screen>>
    BY <1>9 DEF Restart, OnDestroy, Hurries, user
  <2>2. TypeOK' /\ QueueInv'
    <3>1. clicks' \in Nat /\ timers' \in Nat /\ queue' \in Seq({"on", "off"}) /\ hurried' \in BOOLEAN
      BY <1>0, <2>1 DEF TypeOK
    <3>2. QueueInv'
      BY <2>1 DEF QueueInv, Alternates
    <3> QED BY <2>1, <3>1, <3>2 DEF TypeOK
  <2>3. ~hurried' => clicks' = 0 /\ timers' = 0 /\ screen
    BY <1>calm, <2>1
  <2>6. ServiceInv'
    BY <2>1, <2>3 DEF ServiceInv
  <2>4. CountInv'
    <3>1. 0 <= Cardinality(down) + 0
      BY <1>0
    <3> QED BY <2>1, <2>3, <3>1 DEF CountInv
  <2>5. ForcedIsLit' /\ ScreenOffIsDark'
    BY <2>1 DEF ForcedIsLit, ScreenOffIsDark
  <2> QED BY <2>2, <2>4, <2>5, <2>6
<1>10. CASE /\ hurried' \in BOOLEAN /\ (hurried => hurried')
            /\ UNCHANGED <<connected, left, pref, control, forced, clicks, timers, lit, down, screen, queue>>
  <2>1. TypeOK' /\ ServiceInv' /\ QueueInv'
    BY <1>10 DEF TypeOK, ServiceInv, QueueInv
  <2>2. CountInv' /\ ForcedIsLit' /\ ScreenOffIsDark'
    BY <1>10 DEF CountInv, ForcedIsLit, ScreenOffIsDark
  <2> QED BY <2>1, <2>2
<1>11. CASE UNCHANGED vars
  BY <1>10, <1>11 DEF vars, TypeOK
<1>12. CASE /\ Hurries(Quiet)
            /\ UNCHANGED <<connected, left, pref, control, forced, clicks, timers, lit, down, screen, queue>>
  BY <1>10, <1>12 DEF Hurries, TypeOK
<1> QED BY <1>1, <1>2, <1>3, <1>4, <1>5, <1>6, <1>7, <1>8, <1>9, <1>11, <1>12 DEF Next

-----------------------------------------------------------------------------
\* What the receiver was told changes only when it handles a broadcast, and with
\* a screen change that no broadcast reports.
LEMMA ToldStep ==
  ASSUME BacklightInv
  PROVE  /\ Screen => Told(queue', screen') = Told(queue, screen) \/ ~connected
         /\ ScreenReceiver => /\ Told(queue', screen') = (Head(queue) = "on")
                              /\ Told(queue, screen) = (Head(queue) = "off")
                              /\ Head(queue) \in {"on", "off"}
<1>1. screen \in BOOLEAN /\ Alternates(queue, screen)
  BY DEF BacklightInv, TypeOK, QueueInv
<1>2. ASSUME Screen, connected PROVE Told(queue', screen') = Told(queue, screen)
  BY <1>1, <1>2, Sent DEF Screen
<1>3. ASSUME ScreenReceiver
      PROVE  /\ Told(queue', screen') = (Head(queue) = "on")
             /\ Told(queue, screen) = (Head(queue) = "off")
             /\ Head(queue) \in {"on", "off"}
  <2>1. queue # << >> /\ queue' = Tail(queue) /\ screen' = screen
    BY <1>3 DEF ScreenReceiver, user
  <2> QED BY <1>1, <2>1, Handled DEF Told
<1> QED BY <1>2, <1>3

LEMMA IInvInit == ScreenInit => IInv
<1> SUFFICES ASSUME ScreenInit PROVE IInv
  OBVIOUS
<1>1. BacklightInv
  BY BacklightInit DEF ScreenInit
<1>2. PocketTypeOK
  BY DEF ScreenInit, PocketInit, PocketTypeOK
<1>3. PocketInv
  BY DEF ScreenInit, Init, PocketInit, PocketInv, AtRest, Told
<1> QED BY <1>1, <1>2, <1>3 DEF IInv

LEMMA IInvNext == IInv /\ [ScreenNext]_screenVars => IInv'
<1> SUFFICES ASSUME IInv, [ScreenNext]_screenVars PROVE IInv'
  OBVIOUS
<1>0. BacklightInv'
  <2>1. \/ [Next]_vars
        \/ /\ Hurries(Quiet)
           /\ UNCHANGED <<connected, left, pref, control, forced, clicks, timers, lit, down, screen, queue>>
    BY DEF ScreenNext, screenVars, Connect, PocketModeChanged, Receive, ScreenChanges, F4, ThresholdPasses,
           SettingChanges, Sensor, Dies, Destroyed, Backlight, Next, user
  <2> QED BY <2>1, BacklightNext DEF IInv
<1> USE DEF IInv
<1>1. CASE Connect
  <2>1. /\ ~connected /\ connected' = TRUE /\ (pocket => ready') /\ ready' \in BOOLEAN
        /\ queue = << >> /\ (~hurried => screen)
        /\ UNCHANGED <<screen, queue, hurried, covered, dtw, registered, reading, doubleTap, fp, touch,
                       leaked, pocket, doze, recent, missed>>
    BY <1>1 DEF Connect, ServiceConnected, ProximitySensor, pocketVars, wakeVars, user, BacklightInv,
                ServiceInv, PocketTypeOK
  <2>2. PocketTypeOK'
    BY <2>1 DEF PocketTypeOK
  <2>3. PocketInv'
    BY <2>1 DEF PocketInv, AtRest, Told
  <2> QED BY <1>0, <2>2, <2>3
<1>2. CASE PocketModeChanged
  <2>1. /\ screen /\ missed' = (missed \/ ~(queue = << >>)) /\ pocket' = ~pocket
        /\ (connected /\ pocket' => ready') /\ ready' \in BOOLEAN /\ (hurried => hurried')
        /\ UNCHANGED <<connected, screen, queue, covered, dtw, registered, reading, doubleTap, fp, touch,
                       leaked, doze, recent>>
    BY <1>2 DEF PocketModeChanged, ProximitySensor, Hurries, Misses, pocketVars, wakeVars, user, PocketTypeOK
  <2>2. PocketTypeOK'
    <3>1. missed' \in BOOLEAN /\ pocket' \in BOOLEAN
      BY <2>1 DEF PocketTypeOK
    <3> QED BY <2>1, <3>1 DEF PocketTypeOK
  <2>3. PocketInv'
    <3>1. ~missed' => ~missed /\ Told(queue, screen) /\ Told(queue', screen')
      BY <2>1 DEF InOrder, Told
    <3> QED BY <2>1, <3>1 DEF PocketInv, AtRest
  <2> QED BY <1>0, <2>2, <2>3
<1>3. CASE Receive
  <2>1. /\ UNCHANGED <<connected, screen, hurried, pocket, recent, covered, dtw, ready, leaked>>
        /\ doze' = (IF dtw THEN Head(queue) = "off" ELSE doze)
        /\ missed' = (missed /\ ~(Head(queue) = "on" /\ pocket /\ dtw))
    BY <1>3 DEF Receive, ScreenReceiver, OnScreen, Enable, Disable, SetFPProximityState, user, pocketVars
  <2>2. /\ Told(queue', screen') = (Head(queue) = "on") /\ Told(queue, screen) = (Head(queue) = "off")
        /\ Head(queue) \in {"on", "off"}
    BY <1>3, ToldStep DEF Receive
  <2>3. doze' \in BOOLEAN /\ missed' \in BOOLEAN
    BY <2>1 DEF PocketTypeOK
  <2>4. CASE ~pocket
    <3>1. UNCHANGED <<registered, reading, doubleTap, fp, touch>>
      BY <1>3, <2>4 DEF Receive, OnScreen, pocketVars
    <3>2. PocketTypeOK'
      BY <2>1, <2>3, <3>1 DEF PocketTypeOK
    <3>3. PocketInv'
      BY <2>1, <2>2, <2>4, <3>1 DEF PocketInv, AtRest
    <3> QED BY <1>0, <3>2, <3>3
  <2>5. CASE pocket /\ Head(queue) = "off"
    <3>1. /\ doubleTap' = dtw /\ registered' = TRUE /\ reading' = (reading \/ ~registered)
          /\ UNCHANGED <<fp, touch>>
      BY <1>3, <2>5 DEF Receive, OnScreen, Enable
    <3>2. PocketTypeOK'
      BY <2>1, <2>3, <3>1 DEF PocketTypeOK
    <3>3. PocketInv'
      <4>1. missed' = missed /\ ~Told(queue', screen') /\ Told(queue, screen)
        BY <2>1, <2>2, <2>5 DEF PocketTypeOK
      <4>2. /\ ~missed /\ ~leaked => reading' = TRUE
            /\ ~missed => (~dtw => ~doze')
        BY <2>1, <3>1, <4>1 DEF PocketInv, AtRest
      <4> QED BY <2>1, <2>5, <3>1, <4>1, <4>2 DEF PocketInv
    <3> QED BY <1>0, <3>2, <3>3
  <2>6. CASE pocket /\ Head(queue) = "on"
    <3>1. /\ registered' = FALSE /\ reading' = FALSE /\ fp' = FALSE /\ touch' \in BOOLEAN
          /\ doubleTap' = doubleTap
      BY <1>3, <2>6 DEF Receive, OnScreen, Disable, SetFPProximityState, PocketTypeOK, PocketInv
    <3>2. PocketTypeOK'
      BY <2>1, <2>3, <3>1 DEF PocketTypeOK
    <3>3. ~missed' => ~doze'
      BY <2>1, <2>6 DEF PocketInv
    <3>4. PocketInv'
      BY <2>1, <2>2, <2>6, <3>1, <3>3 DEF PocketInv, AtRest
    <3> QED BY <1>0, <3>2, <3>4
  <2> QED BY <2>2, <2>4, <2>5, <2>6
<1>4. CASE ScreenChanges \/ F4
  <2>1. /\ Screen \/ UNCHANGED <<screen, queue, hurried>>
        /\ (Screen /\ ~missed' => connected) /\ missed' \in BOOLEAN /\ (missed => missed')
        /\ UNCHANGED <<connected, pocket, doze, covered, dtw, ready, registered, reading, doubleTap, fp, touch,
                       leaked>>
        /\ recent' \in BOOLEAN /\ (hurried => hurried')
    <3>1. Screen => connected' = connected /\ (hurried => hurried')
      BY DEF Screen, Hurries
    <3>2. CASE ScreenChanges
      BY <3>1, <3>2 DEF ScreenChanges, Misses, PocketTypeOK, pocketVars, wakeVars
    <3>3. CASE F4
      BY <3>1, <3>3 DEF F4, PocketTypeOK, pocketVars, vars
    <3> QED BY <1>4, <3>2, <3>3
  <2>2. PocketTypeOK'
    BY <2>1 DEF PocketTypeOK
  <2>3. PocketInv'
    <3>1. ~missed' => ~missed /\ Told(queue', screen') = Told(queue, screen)
      BY <2>1, ToldStep DEF PocketTypeOK
    <3> QED BY <2>1, <3>1 DEF PocketInv, AtRest
  <2> QED BY <1>0, <2>2, <2>3
<1>5. CASE ThresholdPasses
  <2>1. /\ recent' = FALSE
        /\ UNCHANGED <<connected, screen, queue, hurried, covered, dtw, ready, registered, reading, doubleTap,
                       fp, touch, leaked, pocket, doze, missed>>
    BY <1>5 DEF ThresholdPasses, pocketVars, vars
  <2>2. PocketTypeOK'
    <3>1. recent' \in BOOLEAN
      BY <2>1
    <3> QED BY <2>1, <3>1 DEF PocketTypeOK
  <2>3. PocketInv'
    BY <2>1 DEF PocketInv, AtRest
  <2> QED BY <1>0, <2>2, <2>3
<1>6. CASE SettingChanges
  <2>1. /\ screen /\ missed' = (missed \/ ~InOrder) /\ dtw' = ~dtw
        /\ UNCHANGED <<connected, screen, queue, hurried, covered, ready, registered, reading, doubleTap,
                       fp, touch, leaked, pocket, doze, recent>>
    BY <1>6 DEF SettingChanges, DoubleTapSetting, Misses, wakeVars, vars
  <2>2. PocketTypeOK'
    <3>1. missed' \in BOOLEAN /\ dtw' \in BOOLEAN
      BY <2>1 DEF PocketTypeOK
    <3> QED BY <2>1, <3>1 DEF PocketTypeOK
  <2>3. PocketInv'
    <3>1. ~missed' => ~missed /\ Told(queue, screen) /\ Told(queue', screen')
      BY <2>1 DEF InOrder, Told
    <3> QED BY <2>1, <3>1 DEF PocketInv, AtRest
  <2> QED BY <1>0, <2>2, <2>3
<1>7. CASE Sensor
  <2>1. UNCHANGED <<connected, screen, queue, hurried, pocket, doze, recent, missed, dtw, ready, registered,
                    doubleTap, leaked>>
    BY <1>7 DEF Sensor, OnSensorChanged, SensorChanges, LeakedReading, vars, wakeVars
  <2>2. CASE OnSensorChanged
    <3>1. /\ reading /\ reading' = FALSE /\ covered' = covered
          /\ fp' = (IF Writable THEN covered ELSE fp)
          /\ touch' = (IF Writable /\ doubleTap THEN covered ELSE touch)
      BY <2>2 DEF OnSensorChanged, SetFPProximityState
    <3>2. PocketTypeOK'
      BY <2>1, <3>1 DEF PocketTypeOK
    <3>3. PocketInv'
      <4>1. ~missed /\ ~leaked => ~Told(queue, screen) /\ pocket
        BY <3>1 DEF PocketInv, AtRest
      <4> QED BY <2>1, <3>1, <4>1 DEF PocketInv
    <3> QED BY <1>0, <3>2, <3>3
  <2>3. CASE SensorChanges
    <3>1. covered' = ~covered /\ reading' = registered /\ UNCHANGED <<fp, touch>>
      BY <2>3 DEF SensorChanges
    <3>2. PocketTypeOK'
      BY <2>1, <3>1 DEF PocketTypeOK
    <3>3. PocketInv'
      BY <2>1, <3>1 DEF PocketInv, AtRest
    <3> QED BY <1>0, <3>2, <3>3
  <2>4. CASE LeakedReading
    <3>1. PICK double \in BOOLEAN :
            /\ fp' = (IF Writable THEN covered ELSE fp)
            /\ touch' = (IF Writable /\ double THEN covered ELSE touch)
      BY <2>4 DEF LeakedReading, SetFPProximityState
    <3>2. leaked /\ UNCHANGED <<covered, reading>>
      BY <2>4 DEF LeakedReading
    <3>3. PocketTypeOK'
      BY <2>1, <3>1, <3>2 DEF PocketTypeOK
    <3>4. PocketInv'
      BY <2>1, <3>1, <3>2 DEF PocketInv
    <3> QED BY <1>0, <3>3, <3>4
  <2> QED BY <1>7, <2>2, <2>3, <2>4 DEF Sensor
<1>8. CASE Dies \/ Destroyed
  <2>1. /\ connected' = FALSE /\ queue' = << >> /\ screen' = screen /\ recent' = FALSE
        /\ missed' \in BOOLEAN /\ leaked' \in BOOLEAN
        /\ ~missed' => ~missed /\ queue = << >> /\ (~leaked' => ~leaked)
        /\ ready' = FALSE /\ registered' = FALSE /\ reading' = FALSE /\ doubleTap' = FALSE
        /\ UNCHANGED <<covered, dtw, fp, touch, pocket, doze>>
    BY <1>8 DEF Dies, Destroyed, Restart, OnDestroy, ProcessDies, ServiceDestroyed, ObjectGoes, Misses,
                user, PocketTypeOK
  <2>2. PocketTypeOK'
    BY <2>1 DEF PocketTypeOK
  <2>3. PocketInv'
    <3>1. ~missed' => ~missed /\ Told(queue', screen') = Told(queue, screen)
      BY <2>1 DEF Told
    <3> QED BY <2>1, <3>1 DEF PocketInv, AtRest
  <2> QED BY <1>0, <2>2, <2>3
<1>9. CASE Backlight
  <2>1. /\ UNCHANGED <<connected, screen, queue, pocket, doze, recent, missed, covered, dtw, ready, registered,
                       reading, doubleTap, fp, touch, leaked>>
        /\ (hurried => hurried')
    <3>1. ForcedChanged \/ EnabledChanged \/ Runnable => UNCHANGED <<connected, screen, queue>>
      BY DEF ForcedChanged, EnabledChanged, Runnable, user
    <3>2. ForcedChanged \/ EnabledChanged \/ Runnable => (hurried => hurried')
      BY DEF ForcedChanged, EnabledChanged, Runnable, Hurries
    <3>3. ASSUME NEW b \in Buttons, Press(b) \/ Release(b)
          PROVE  UNCHANGED <<connected, screen, queue>> /\ (hurried => hurried')
      <4>1. CASE Press(b)
        BY <4>1 DEF Press, Hurries
      <4>2. CASE Release(b)
        BY <4>2 DEF Release
      <4> QED BY <3>3, <4>1, <4>2
    <3> QED BY <1>9, <3>1, <3>2, <3>3 DEF Backlight, wakeVars, pocketVars
  <2>2. PocketTypeOK'
    BY <2>1 DEF PocketTypeOK
  <2>3. PocketInv'
    BY <2>1 DEF PocketInv, AtRest
  <2> QED BY <1>0, <2>2, <2>3
<1>10. CASE UNCHANGED screenVars
  BY <1>0, <1>10 DEF screenVars, vars, wakeVars, pocketVars, PocketTypeOK, PocketInv, AtRest
<1> QED BY <1>1, <1>2, <1>3, <1>4, <1>5, <1>6, <1>7, <1>8, <1>9, <1>10 DEF ScreenNext

-----------------------------------------------------------------------------
\* The inductive invariant holds in every state of every behaviour.
LEMMA Inductive == FairScreenSpec => []IInv
BY IInvInit, IInvNext, PTL DEF FairScreenSpec, ScreenSpec

\* handleKeyEvent never counts a click that no runnable will count down, for any
\* number of buttons and of runnables: clickToShutdown cannot keep the light on.
THEOREM CountsDown == FairScreenSpec => []ClicksCovered
<1>1. IInv => ClicksCovered
  BY DEF IInv, BacklightInv, CountInv, ClicksCovered
<1> QED BY <1>1, Inductive, PTL

\* The backlight "always on" is on while the screen is, once mScreenStateReceiver
\* has handled the last of any number of broadcasts.
THEOREM StaysLit == FairScreenSpec => []ForcedIsLit
<1>1. IInv => ForcedIsLit
  BY DEF IInv, BacklightInv
<1> QED BY <1>1, Inductive, PTL

\* After a screen-off broadcast neither a late runnable nor a release lights the
\* buttons again.
THEOREM GoesDark == FairScreenSpec => []ScreenOffIsDark
<1>1. IInv => ScreenOffIsDark
  BY DEF IInv, BacklightInv
<1> QED BY <1>1, Inductive, PTL

\* disable() of PocketModeService.java and the doze node leave nothing blocked
\* or let through behind a screen that is on.
THEOREM Awake == FairScreenSpec => []AwakeIsUsable
<1>1. IInv => AwakeIsUsable
  BY DEF IInv, PocketInv, AtRest, Told, InOrder, AwakeIsUsable
<1> QED BY <1>1, Inductive, PTL

\* enable() of PocketModeService.java blocks the reader, and double tap if it is
\* set, exactly while the phone is covered; its sensor manager is there.
THEOREM InPocket == FairScreenSpec => []PocketBlocks
<1>1. IInv => PocketBlocks
  BY DEF IInv, PocketInv, Told, InOrder, PocketBlocks
<1> QED BY <1>1, Inductive, PTL
=============================================================================
