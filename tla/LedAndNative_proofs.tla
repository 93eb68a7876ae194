------------------------ MODULE LedAndNative_proofs ------------------------
(* The LED, from the notification to the driver, and the two other native    *)
(* programs.                                                                 *)
(*   light_daemon: for every set of requests, the properties setColor leaves *)
(*     are a cycle of the requested length; however calls and runs of the    *)
(*     daemon overlap, the LED ends up with the whole of the latest colour   *)
(*     unless the last start was ignored, and never with anything but parts  *)
(*     of requests made since the daemon was started (Led, its safety part). *)
(*   LedLightManager: for every set of notifications, titles and             *)
(*     configurations, its parallel lists agree and the last colour set is   *)
(*     that of the latest notification, else of the charging state.          *)
(*   tri-state-key_daemon: for every size of its socket, the audio settings  *)
(*     follow the alert slider.                                              *)
(*   libril-wrapper: for every maximum and every length of version, the shim *)
(*     only copies characters of the vendor's string.                        *)
EXTENDS LightDaemon, LedLightManager, TriStateKey, SequenceTheorems, FiniteSetTheorems,
        NaturalsInduction, WellFoundedInduction, TLAPS

\* The constants and variables of libril-wrapper, under their own names.
CONSTANTS MaxLength, MaxResponse
VARIABLES lib, functions, vendor, reply, garbage

Ril == INSTANCE RilWrapper

-----------------------------------------------------------------------------
\* A channel's cycle fits the requested time and its duty table rises, for
\* every brightness and every blink time (setRedLight and its two siblings).
LEMMA ChannelCorrect ==
  ASSUME NEW n \in Channels, NEW v \in 0 .. 255, NEW on \in Nat, NEW off \in Nat
  PROVE  /\ Fits(Channel(n, v, on, off).pattern, on)
         /\ Rises(Channel(n, v, on, off).pattern, v)
         /\ Channel(n, v, on, off).pattern.startIdx = StartIdx[n]
<1> DEFINE p == Channel(n, v, on, off).pattern
<1>1. p.step = Timing(on).step /\ p.pauseHi = Timing(on).pauseHi /\ p.duty = GetScaledDutyPcts(v)
  BY DEF Channel
<1>2. Fits(p, on)
  <2>1. CASE Ramp > on
    <3>1. p.step = on \div 16 /\ p.pauseHi = 0
      BY <1>1, <2>1 DEF Timing, RAMP_SIZE
    <3>2. 16 * (on \div 16) <= on /\ on - 16 * (on \div 16) < 16
      OBVIOUS
    <3> QED BY <3>1, <3>2 DEF Fits, RAMP_SIZE
  <2>2. CASE ~(Ramp > on)
    <3>1. p.step = 50 /\ p.pauseHi = on - 800 /\ on >= 800
      BY <1>1, <2>2 DEF Timing, Ramp, RAMP_SIZE, RAMP_STEP_DURATION
    <3> QED BY <3>1 DEF Fits, RAMP_SIZE
  <2> QED BY <2>1, <2>2
<1>3. Rises(p, v)
  <2>1. \A i \in 1 .. 8 : p.duty[i] = (BRIGHTNESS_RAMP[i] * v) \div 255
    BY <1>1 DEF GetScaledDutyPcts, RAMP_SIZE
  <2>2. /\ p.duty[1] = (0 * v) \div 255 /\ p.duty[2] = (12 * v) \div 255
        /\ p.duty[3] = (25 * v) \div 255 /\ p.duty[4] = (37 * v) \div 255
        /\ p.duty[5] = (50 * v) \div 255 /\ p.duty[6] = (72 * v) \div 255
        /\ p.duty[7] = (85 * v) \div 255 /\ p.duty[8] = (100 * v) \div 255
    BY <2>1 DEF BRIGHTNESS_RAMP
  <2>3. \A i \in 1 .. 7 : i \in {1, 2, 3, 4, 5, 6, 7}
    OBVIOUS
  <2>4. /\ p.duty[1] <= p.duty[2] /\ p.duty[2] <= p.duty[3] /\ p.duty[3] <= p.duty[4]
        /\ p.duty[4] <= p.duty[5] /\ p.duty[5] <= p.duty[6] /\ p.duty[6] <= p.duty[7]
        /\ p.duty[7] <= p.duty[8]
    BY <2>2
  <2>5. \A i \in 1 .. 7 : p.duty[i] <= p.duty[i + 1]
    <3> HIDE DEF p
    <3> QED BY <2>3, <2>4
  <2>6. p.duty[1] = 0 /\ 255 * p.duty[8] <= 100 * v
    BY <2>2
  <2> QED BY <2>5, <2>6 DEF Rises, RAMP_SIZE
<1>4. p.startIdx = StartIdx[n]
  BY DEF Channel
<1> QED BY <1>2, <1>3, <1>4

-----------------------------------------------------------------------------
\* What setColor has still to write, at each of its steps, and what the daemon
\* has still to do.
Writings == {<<"blink", "red", "green", "blue", "start">>, <<"red", "green", "blue", "start">>,
             <<"green", "blue", "start">>, <<"blue", "start">>, <<"start">>, << >>}
Readings == {<<"red", "blue", "green", "blink", "off", "nodes">>,
             <<"blue", "green", "blink", "off", "nodes">>, <<"green", "blink", "off", "nodes">>,
             <<"blink", "off", "nodes">>, <<"off", "nodes">>, <<"nodes">>, << >>}

\* Name n is still waiting in the sequence.
Waits(n, todo) == \E i \in 1 .. Len(todo) : todo[i] = n

\* setColor: what it has written is of the current request.
WriterInv ==
  /\ request \in Requests
  /\ writing \in Writings
  /\ DOMAIN prop = Names /\ prop = [n \in Names |-> prop[n]]
  /\ \A n \in Names : ~Waits(n, writing) => prop[n] = Value(request, n)

\* The shapes of the sequences, step by step.
LEMMA WritingsStep ==
  ASSUME NEW w \in Writings, w # << >>
  PROVE  /\ Tail(w) \in Writings
         /\ Head(w) \in Names \cup {"start"}
         /\ Head(w) = "start" <=> Tail(w) = << >>
         /\ \A n \in Names : ~Waits(n, Tail(w)) => n = Head(w) \/ ~Waits(n, w)
<1>1. CASE w = <<"blink", "red", "green", "blue", "start">>
  BY <1>1 DEF Writings, Names, Channels, Waits
<1>2. CASE w = <<"red", "green", "blue", "start">>
  BY <1>2 DEF Writings, Names, Channels, Waits
<1>3. CASE w = <<"green", "blue", "start">>
  BY <1>3 DEF Writings, Names, Channels, Waits
<1>4. CASE w = <<"blue", "start">>
  BY <1>4 DEF Writings, Names, Channels, Waits
<1>5. CASE w = <<"start">>
  BY <1>5 DEF Writings, Names, Channels, Waits
<1> QED BY <1>1, <1>2, <1>3, <1>4, <1>5 DEF Writings

\* The daemon's sequence, step by step.
LEMMA ReadingsStep ==
  ASSUME NEW w \in Readings, w # << >>, Head(w) \in Names
  PROVE  /\ Tail(w) \in Readings /\ Tail(w) # << >> /\ Tail(w) # <<"nodes">>
         /\ \A n \in Names : ~Waits(n, Tail(w)) => n = Head(w) \/ ~Waits(n, w)
<1>1. CASE w = <<"red", "blue", "green", "blink", "off", "nodes">>
  BY <1>1 DEF Readings, Names, Channels, Waits
<1>2. CASE w = <<"blue", "green", "blink", "off", "nodes">>
  BY <1>2 DEF Readings, Names, Channels, Waits
<1>3. CASE w = <<"green", "blink", "off", "nodes">>
  BY <1>3 DEF Readings, Names, Channels, Waits
<1>4. CASE w = <<"blink", "off", "nodes">>
  BY <1>4 DEF Readings, Names, Channels, Waits
<1>5. CASE w = <<"off", "nodes">> \/ w = <<"nodes">>
  BY <1>5 DEF Names, Channels
<1> QED BY <1>1, <1>2, <1>3, <1>4, <1>5 DEF Readings

\* The reads are all still to come, or all done.
LEMMA ReadingsEnds ==
  /\ MainOrder \in Readings /\ MainOrder # << >> /\ MainOrder # <<"nodes">>
  /\ \A n \in Names : Waits(n, MainOrder)
  /\ \A n \in Names : ~Waits(n, <<"off", "nodes">>) /\ ~Waits(n, <<"nodes">>)
<1>1. MainOrder = <<"red", "blue", "green", "blink", "off", "nodes">>
  BY DEF MainOrder
<1>2. /\ Len(MainOrder) = 6 /\ MainOrder[1] = "red" /\ MainOrder[2] = "blue"
      /\ MainOrder[3] = "green" /\ MainOrder[4] = "blink"
  BY <1>1
<1>3. \A n \in Names : Waits(n, MainOrder)
  BY <1>2 DEF Waits, Names, Channels
<1>4. \A n \in Names : ~Waits(n, <<"off", "nodes">>) /\ ~Waits(n, <<"nodes">>)
  BY DEF Waits, Names, Channels
<1>5. MainOrder \in Readings /\ MainOrder # << >> /\ MainOrder # <<"nodes">>
  <2>1. Len(<<"nodes">>) = 1 /\ Len(<< >>) = 0
    OBVIOUS
  <2> QED BY <1>1, <1>2, <2>1 DEF Readings
<1> QED BY <1>3, <1>4, <1>5

\* A field of a request has its type.
LEMMA RequestFields ==
  ASSUME NEW r \in Requests
  PROVE  /\ r.blink \in {0, 1} /\ r.onMs \in Nat /\ r.offMs \in Nat
         /\ \A n \in Channels : r[n] \in 0 .. 255
BY RequestsAssumption DEF Channels

LEMMA WriterInit == Init => WriterInv
BY DEF Init, WriterInv, Writings, Values, Waits

\* Only setColor touches request, writing and prop.
LEMMA WriterNext == WriterInv /\ [Next]_vars => WriterInv'
<1> SUFFICES ASSUME WriterInv, [Next]_vars PROVE WriterInv'
  OBVIOUS
<1>1. ASSUME NEW r \in Requests, SetColor(r) PROVE WriterInv'
  <2>1. writing' = <<"blink", "red", "green", "blue", "start">> /\ request' = r /\ prop' = prop
    BY <1>1 DEF SetColor, SetColorOrder
  <2>2. \A n \in Names : Waits(n, <<"blink", "red", "green", "blue", "start">>)
    <3>1. DEFINE w == <<"blink", "red", "green", "blue", "start">>
    <3>2. Len(w) = 5 /\ w[1] = "blink" /\ w[2] = "red" /\ w[3] = "green" /\ w[4] = "blue"
      OBVIOUS
    <3> QED BY <3>2 DEF Waits, Names, Channels
  <2> QED BY <2>1, <2>2 DEF WriterInv, Writings
<1>2. CASE SetProp
  <2>1. Head(writing) \in Names
    BY <1>2, WritingsStep DEF SetProp, WriterInv
  <2>2. /\ writing' = Tail(writing) /\ request' = request
        /\ prop' = [prop EXCEPT ![Head(writing)] = Value(request, Head(writing))]
    BY <1>2 DEF SetProp
  <2>3. DOMAIN prop' = Names /\ prop' = [n \in Names |-> prop'[n]]
    BY <2>1, <2>2 DEF WriterInv
  <2>4. \A n \in Names : ~Waits(n, writing') => prop'[n] = Value(request', n)
    BY <1>2, <2>1, <2>2, WritingsStep DEF SetProp, WriterInv
  <2> QED BY <1>2, <2>2, <2>3, <2>4, WritingsStep DEF SetProp, WriterInv
<1>3. CASE CtlStart
  BY <1>3, WritingsStep DEF CtlStart, WriterInv, Names, Channels
<1>4. CASE Daemon \/ UNCHANGED vars
  BY <1>4 DEF Daemon, GetProp, BlinkOff, WriteNode, Finish, Crash, app, vars, WriterInv
<1> QED BY <1>1, <1>2, <1>3, <1>4 DEF Next, Daemon

\* CyclesFit of LightDaemon for every set of requests: whenever setColor has
\* returned, each channel's blink cycle takes the requested time, its duty
\* table rises and the tables do not overlap.
THEOREM CyclesCorrect == Spec => []CyclesFit
<1>1. WriterInv => CyclesFit
  <2> SUFFICES ASSUME WriterInv, writing = << >> PROVE CyclesFit
    BY DEF CyclesFit
  <2>1. \A n \in Channels : prop[n] = Channel(n, request[n], request.onMs, request.offMs)
    BY DEF WriterInv, Waits, Value, Names, Channels
  <2>2. ASSUME NEW n \in Channels
        PROVE  /\ Fits(prop[n].pattern, request.onMs) /\ Rises(prop[n].pattern, request[n])
               /\ prop[n].pattern.startIdx = StartIdx[n]
    <3>1. request[n] \in 0 .. 255 /\ request.onMs \in Nat /\ request.offMs \in Nat
      BY RequestFields DEF WriterInv
    <3>2. prop[n] = Channel(n, request[n], request.onMs, request.offMs)
      BY <2>1
    <3> DEFINE c == Channel(n, request[n], request.onMs, request.offMs)
    <3>3. /\ Fits(c.pattern, request.onMs) /\ Rises(c.pattern, request[n])
          /\ c.pattern.startIdx = StartIdx[n]
      BY <3>1, ChannelCorrect
    <3> QED BY <3>2, <3>3
  <2>3. \A m, n \in Channels : m # n => Apart(prop[m].pattern, prop[n].pattern)
    <3>2. StartIdx["red"] = 0 /\ StartIdx["green"] = 8 /\ StartIdx["blue"] = 16
      BY DEF StartIdx, RAMP_SIZE
    <3> QED BY <2>2, <3>2 DEF Apart, RAMP_SIZE, Channels
  <2> QED BY <2>2, <2>3 DEF CyclesFit
<1> QED BY <1>1, WriterInit, WriterNext, PTL DEF Spec

-----------------------------------------------------------------------------
(* The daemon.                                                               *)

\* What it has read, but for an overwritten buffer, is of the requests in S.
ReadFrom(S) ==
  \A n \in Names \ {victim} : ~Waits(n, reading) => \E r \in S : buf[n] = Value(r, n)
WrittenFrom(S) == \A n \in Names : \E r \in S : prop[n] = Value(r, n)

\* It has written its buffers to the nodes before the next one.
ReaderInv ==
  /\ reading \in Readings
  /\ DOMAIN buf = Names /\ buf["blink"] \in {0, 1}
  /\ DOMAIN node = Channels \X Fields
  /\ rgbBlink \in {0, 1}
  /\ written \in 0 .. Len(NodesOf(buf["blink"]))
  /\ reading # <<"nodes">> => written = 0
  /\ reading = <<"nodes">> =>
       /\ rgbBlink = 0
       /\ \A i \in 1 .. written :
            node[NodesOf(buf["blink"])[i]] =
              Field(buf[NodesOf(buf["blink"])[i][1]], NodesOf(buf["blink"])[i][2])

\* What it has read is of requests made since it was started; of the latest one,
\* if that was started, and not started too late.
SinceInv ==
  /\ since \subseteq Requests /\ request \in since
  /\ WrittenFrom(Requests)
  /\ reading # << >> => WrittenFrom(since) /\ ReadFrom(since)
FreshInv ==
  outcome = "shown" /\ writing = << >> /\ reading # << >> => ReadFrom({request})

DaemonInv == WriterInv /\ ReaderInv /\ SinceInv /\ FreshInv /\ LatestColorShown

\* The nodes of a steady and of a blinking colour.
LEMMA NodesAre ==
  /\ Len(NodesOf(0)) = 3 /\ Len(NodesOf(1)) = 15
  /\ \A b \in {0, 1} : \A i \in 1 .. Len(NodesOf(b)) :
       /\ NodesOf(b)[i] \in Channels \X Fields
       /\ NodesOf(b)[i][1] \in Channels /\ NodesOf(b)[i][2] \in Fields
  /\ \A n \in Channels : \E i \in 1 .. 3 : NodesOf(0)[i] = <<n, "brightness">>
  /\ \A n \in Channels, f \in PatternFields : \E i \in 1 .. 15 : NodesOf(1)[i] = <<n, f>>
<1>1. NodesOf(0) = SteadyNodes /\ NodesOf(1) = BlinkNodes
  BY DEF NodesOf
<1>2. Len(SteadyNodes) = 3 /\ Len(BlinkNodes) = 15
  BY DEF SteadyNodes, BlinkNodes
<1>3. /\ SteadyNodes[1] = <<"red", "brightness">> /\ SteadyNodes[2] = <<"blue", "brightness">>
      /\ SteadyNodes[3] = <<"green", "brightness">>
  BY DEF SteadyNodes
<1>4. /\ BlinkNodes[1] = <<"red", "startIdx">> /\ BlinkNodes[2] = <<"blue", "startIdx">>
      /\ BlinkNodes[3] = <<"green", "startIdx">>
      /\ BlinkNodes[4] = <<"blue", "duty">> /\ BlinkNodes[5] = <<"red", "duty">>
      /\ BlinkNodes[6] = <<"green", "duty">>
      /\ BlinkNodes[7] = <<"blue", "pauseLo">> /\ BlinkNodes[8] = <<"red", "pauseLo">>
      /\ BlinkNodes[9] = <<"green", "pauseLo">>
      /\ BlinkNodes[10] = <<"blue", "pauseHi">> /\ BlinkNodes[11] = <<"red", "pauseHi">>
      /\ BlinkNodes[12] = <<"green", "pauseHi">>
      /\ BlinkNodes[13] = <<"red", "step">> /\ BlinkNodes[14] = <<"blue", "step">>
      /\ BlinkNodes[15] = <<"green", "step">>
  BY DEF BlinkNodes
<1>5. ASSUME NEW i \in 1 .. 3 PROVE \E n \in Channels : SteadyNodes[i] = <<n, "brightness">>
  <2>1. i = 1 \/ i = 2 \/ i = 3
    OBVIOUS
  <2> QED BY <1>3, <2>1 DEF Channels
<1>6. ASSUME NEW i \in 1 .. 15
      PROVE  \E n \in Channels, f \in PatternFields : BlinkNodes[i] = <<n, f>>
  <2>1. \/ i = 1 \/ i = 2 \/ i = 3 \/ i = 4 \/ i = 5 \/ i = 6 \/ i = 7 \/ i = 8
        \/ i = 9 \/ i = 10 \/ i = 11 \/ i = 12 \/ i = 13 \/ i = 14 \/ i = 15
    OBVIOUS
  <2> QED BY <1>4, <2>1 DEF Channels, PatternFields
<1>7. ASSUME NEW b \in {0, 1}, NEW i \in 1 .. Len(NodesOf(b))
      PROVE  /\ NodesOf(b)[i] \in Channels \X Fields
             /\ NodesOf(b)[i][1] \in Channels /\ NodesOf(b)[i][2] \in Fields
  <2>1. PICK n \in Channels, f \in Fields : NodesOf(b)[i] = <<n, f>>
    <3>1. CASE b = 0
      BY <1>1, <1>2, <1>5, <3>1 DEF Fields
    <3>2. CASE b = 1
      BY <1>1, <1>2, <1>6, <3>2 DEF Fields
    <3> QED BY <3>1, <3>2
  <2> QED BY <2>1
<1>8. ASSUME NEW n \in Channels PROVE \E i \in 1 .. 3 : SteadyNodes[i] = <<n, "brightness">>
  BY <1>3 DEF Channels
<1>9. ASSUME NEW n \in Channels, NEW f \in PatternFields
      PROVE  \E i \in 1 .. 15 : BlinkNodes[i] = <<n, f>>
  BY <1>4 DEF Channels, PatternFields
<1> QED BY <1>1, <1>2, <1>7, <1>8, <1>9

LEMMA NameIs == \A n \in Channels : n \in Names /\ n # "blink"
BY DEF Names, Channels

LEMMA DaemonInit == Init => DaemonInv
<1> SUFFICES ASSUME Init PROVE DaemonInv
  OBVIOUS
<1>1. WriterInv
  BY WriterInit
<1>2. ReaderInv
  <2>1. buf = Blank /\ buf["blink"] = 0
    BY DEF Init, Blank, Names
  <2>2. request.blink \in {0, 1}
    BY RequestFields DEF Init
  <2>3. << >> # <<"nodes">>
    OBVIOUS
  <2> QED BY <2>1, <2>2, <2>3, NodesAre DEF Init, ReaderInv, Readings, Blank
<1>3. SinceInv
  BY DEF Init, SinceInv, WrittenFrom, Values
<1>4. LatestColorShown
  <2> SUFFICES ASSUME NEW n \in Names PROVE Agrees(n, request)
    BY DEF LatestColorShown
  <2>1. CASE n = "blink"
    BY <2>1 DEF Agrees, Init
  <2>2. CASE n \in Channels
    <3>1. ASSUME NEW f \in Fields PROVE node[<<n, f>>] = Field(Value(request, n), f)
      BY <2>2, <3>1, NameIs DEF Init, Values
    <3>2. Looks(n, request)
      BY <3>1 DEF Looks, Fields
    <3> QED BY <2>2, <3>2, NameIs DEF Agrees
  <2> QED BY <2>1, <2>2 DEF Names
<1> QED BY <1>1, <1>2, <1>3, <1>4 DEF DaemonInv, FreshInv, Init

\* The next property is read: if properties and buffers are of requests in S, the
\* buffers still are.
LEMMA ReadsFrom ==
  ASSUME NEW S, ReaderInv, GetProp, WrittenFrom(S), ReadFrom(S)
  PROVE  \A n \in Names \ {victim} : ~Waits(n, reading') => \E r \in S : buf'[n] = Value(r, n)
<1> SUFFICES ASSUME NEW n \in Names \ {victim}, ~Waits(n, reading')
             PROVE  \E r \in S : buf'[n] = Value(r, n)
  OBVIOUS
<1>1. reading \in Readings /\ reading # << >> /\ Head(reading) \in Names /\ reading' = Tail(reading)
  BY DEF ReaderInv, GetProp
<1>2. CASE n = Head(reading)
  <2>1. buf'[n] = prop[n]
    BY <1>2 DEF GetProp
  <2> QED BY <2>1 DEF WrittenFrom
<1>3. CASE n # Head(reading)
  <2>1. ~Waits(n, reading)
    BY <1>1, <1>3, ReadingsStep
  <2>2. buf'[n] = buf[n]
    BY <1>3 DEF GetProp
  <2> QED BY <2>1, <2>2 DEF ReadFrom
<1> QED BY <1>2, <1>3

\* The daemon is done: every part of the LED but an overwritten one looks as a
\* request in S, if its buffers were of those.
LEMMA FinishShows ==
  ASSUME NEW S, S \subseteq Requests, ReaderInv, Finish, ReadFrom(S)
  PROVE  \A n \in Names \ {victim} : \E r \in S : Agrees(n, r)'
<1> SUFFICES ASSUME NEW n \in Names \ {victim} PROVE \E r \in S : Agrees(n, r)'
  OBVIOUS
<1>1. /\ reading = <<"nodes">> /\ written = Len(NodesOf(buf["blink"]))
      /\ rgbBlink' = (IF buf["blink"] = 1 THEN 1 ELSE rgbBlink) /\ node' = node
  BY DEF Finish
<1>2. rgbBlink' = buf["blink"] /\ buf["blink"] \in {0, 1}
  BY <1>1 DEF ReaderInv
<1>3. PICK r \in S : buf[n] = Value(r, n)
  BY <1>1, ReadingsEnds DEF ReadFrom
<1>4. CASE n = "blink"
  BY <1>2, <1>3, <1>4 DEF Agrees, Value
<1>5. CASE n \in Channels
  <2> SUFFICES Looks(n, r)'
    BY <1>5, NameIs DEF Agrees
  <2>1. \A i \in 1 .. Len(NodesOf(buf["blink"])) :
          node[NodesOf(buf["blink"])[i]] =
            Field(buf[NodesOf(buf["blink"])[i][1]], NodesOf(buf["blink"])[i][2])
    BY <1>1 DEF ReaderInv
  <2>2. ASSUME NEW f, NEW i \in 1 .. Len(NodesOf(buf["blink"])), NodesOf(buf["blink"])[i] = <<n, f>>
        PROVE  node'[<<n, f>>] = Field(Value(r, n), f)
    <3>1. <<n, f>>[1] = n /\ <<n, f>>[2] = f
      OBVIOUS
    <3> QED BY <1>1, <1>3, <2>1, <2>2, <3>1
  <2>3. CASE buf["blink"] = 0
    <3>1. node'[<<n, "brightness">>] = Field(Value(r, n), "brightness")
      BY <1>5, <2>2, <2>3, NodesAre
    <3> QED BY <1>2, <2>3, <3>1 DEF Looks
  <2>4. CASE buf["blink"] = 1
    <3>1. ASSUME NEW f \in PatternFields PROVE node'[<<n, f>>] = Field(Value(r, n), f)
      BY <1>5, <2>2, <2>4, NodesAre
    <3> QED BY <1>2, <2>4, <3>1 DEF Looks
  <2> QED BY <1>2, <2>3, <2>4
<1> QED BY <1>4, <1>5 DEF Names

\* A step of the daemon, or none.
LEMMA ReaderNext ==
  ASSUME WriterInv, ReaderInv, SinceInv, [Next]_vars
  PROVE  ReaderInv'
<1>1. CASE SetProp \/ (\E r \in Requests : SetColor(r)) \/ UNCHANGED vars
  BY <1>1 DEF SetProp, SetColor, vars, driver, ReaderInv
<1>2. CASE CtlStart
  <2>1. /\ reading' \in Readings /\ UNCHANGED <<buf, written, rgbBlink, node>>
        /\ reading' = reading \/ (reading = << >> /\ reading' = MainOrder)
    BY <1>2, ReadingsEnds DEF CtlStart, driver, ReaderInv
  <2>2. << >> # <<"nodes">>
    OBVIOUS
  <2> QED BY <2>1, <2>2, ReadingsEnds DEF ReaderInv
<1>3. CASE GetProp
  <2>1. /\ reading' = Tail(reading) /\ reading' \in Readings /\ reading' # <<"nodes">>
        /\ UNCHANGED <<written, rgbBlink, node>> /\ DOMAIN buf' = Names
    BY <1>3, ReadingsStep DEF GetProp, driver, ReaderInv
  <2>2. written = 0
    <3>1. Head(<<"nodes">>) = "nodes"
      OBVIOUS
    <3> QED BY <1>3, <3>1 DEF GetProp, ReaderInv, Names, Channels
  <2>3. buf'["blink"] \in {0, 1}
    <3>1. "blink" \in Names
      BY DEF Names
    <3>2. buf'["blink"] = prop["blink"] \/ buf'["blink"] = buf["blink"]
                                        \/ (Head(reading) = "blink" /\ Head(reading) # "blink")
      BY <1>3, <3>1 DEF GetProp
    <3>3. prop["blink"] \in {0, 1}
      BY <3>1, RequestFields DEF SinceInv, WrittenFrom, Value
    <3> QED BY <3>2, <3>3 DEF ReaderInv
  <2> QED BY <2>1, <2>2, <2>3, NodesAre DEF ReaderInv
<1>4. CASE BlinkOff
  <2>1. <<"off", "nodes">> # <<"nodes">>
    <3>1. Len(<<"off", "nodes">>) = 2 /\ Len(<<"nodes">>) = 1
      OBVIOUS
    <3> QED BY <3>1
  <2>2. /\ reading' = <<"nodes">> /\ reading' \in Readings /\ rgbBlink' = 0 /\ written = 0
        /\ UNCHANGED <<buf, written, node>>
    BY <1>4, <2>1 DEF BlinkOff, ReaderInv, Readings
  <2> QED BY <2>2 DEF ReaderInv
<1>5. CASE WriteNode
  <2> DEFINE N == NodesOf(buf["blink"])
             x == N[written + 1]
  <2>1. /\ reading = <<"nodes">> /\ written < Len(N) /\ node' = [node EXCEPT ![x] = Field(buf[x[1]], x[2])]
        /\ written' = written + 1 /\ UNCHANGED <<reading, buf, rgbBlink>>
    BY <1>5 DEF WriteNode
  <2>2. written \in Nat /\ Len(N) \in Nat /\ written + 1 \in 1 .. Len(N)
    BY <2>1, NodesAre DEF ReaderInv
  <2>3. x \in Channels \X Fields
    BY <2>2, NodesAre DEF ReaderInv
  <2> HIDE DEF N
  <2>4. ASSUME NEW i \in 1 .. written' PROVE node'[N[i]] = Field(buf[N[i][1]], N[i][2])
    <3>1. CASE N[i] = x
      BY <2>1, <2>3, <3>1 DEF ReaderInv
    <3>2. CASE N[i] # x
      <4>1. i \in 1 .. written
        BY <2>1, <2>2, <3>2
      <4>2. node'[N[i]] = node[N[i]]
        BY <2>1, <3>2
      <4> QED BY <2>1, <4>1, <4>2 DEF ReaderInv, N
    <3> QED BY <3>1, <3>2
  <2>5. written' \in 0 .. Len(N) /\ DOMAIN node' = Channels \X Fields
    BY <2>1, <2>2 DEF ReaderInv
  <2> QED BY <2>1, <2>4, <2>5 DEF ReaderInv, N
<1>6. CASE Finish \/ Crash
  <2>1. reading' = << >> /\ buf' = Blank /\ written' = 0 /\ node' = node
    BY <1>6 DEF Finish, Crash, Ends, driver
  <2>2. rgbBlink' \in {0, 1}
    BY <1>6 DEF Finish, Crash, driver, ReaderInv
  <2>3. DOMAIN Blank = Names /\ Blank["blink"] = 0
    BY DEF Blank, Names
  <2>4. << >> # <<"nodes">>
    OBVIOUS
  <2> QED BY <2>1, <2>2, <2>3, <2>4, NodesAre DEF ReaderInv, Readings
<1> QED BY <1>1, <1>2, <1>3, <1>4, <1>5, <1>6 DEF Next

\* The steps that leave the daemon's buffers alone, or end it.
LEMMA BuffersKept ==
  ASSUME ReaderInv, [Next]_vars, ~GetProp, reading # << >>
  PROVE  \/ reading' = << >>
         \/ /\ buf' = buf /\ victim' = victim /\ reading' # << >>
            /\ \A n \in Names : ~Waits(n, reading') => ~Waits(n, reading)
<1>1. CASE SetProp \/ CtlStart \/ WriteNode \/ (\E r \in Requests : SetColor(r)) \/ UNCHANGED vars
  BY <1>1 DEF SetProp, CtlStart, WriteNode, SetColor, vars
<1>2. CASE BlinkOff
  <2>1. <<"nodes">> # << >>
    OBVIOUS
  <2> QED BY <1>2, <2>1, ReadingsEnds DEF BlinkOff
<1>3. CASE Finish \/ Crash
  BY <1>3 DEF Finish, Crash, Ends
<1> QED BY <1>1, <1>2, <1>3 DEF Next

LEMMA SinceNext ==
  ASSUME WriterInv, ReaderInv, SinceInv, [Next]_vars
  PROVE  SinceInv'
<1>0. victim' = victim
  BY DEF Next, SetColor, SetProp, CtlStart, GetProp, BlinkOff, WriteNode, Finish, Crash, vars
<1>1. WriterInv'
  BY WriterNext
<1>2. CASE reading = << >> /\ reading' # << >>
  <2>1. CtlStart
    BY <1>2 DEF Next, SetColor, SetProp, GetProp, BlinkOff, WriteNode, Finish, Crash, Ends, vars
  <2>2. /\ since' = {request} /\ request' = request /\ prop' = prop /\ reading' = MainOrder
    BY <1>2, <2>1 DEF CtlStart
  <2>3. writing' = << >>
    BY <2>1, WritingsStep DEF CtlStart, WriterInv
  <2>4. \A n \in Names : prop'[n] = Value(request', n)
    BY <1>1, <2>3 DEF WriterInv, Waits
  <2> QED BY <1>1, <2>2, <2>4, ReadingsEnds DEF SinceInv, WriterInv, WrittenFrom, ReadFrom
<1> SUFFICES ASSUME ~(reading = << >> /\ reading' # << >>) PROVE SinceInv'
  BY <1>2
<1>3. since \subseteq since' /\ since' \subseteq Requests /\ request' \in since'
  <2>1. CASE CtlStart
    BY <2>1, ReadingsEnds DEF CtlStart, SinceInv
  <2>2. CASE ~CtlStart
    BY <2>2 DEF Next, SetColor, SetProp, GetProp, BlinkOff, WriteNode, Finish, Crash, app, vars, SinceInv
  <2> QED BY <2>1, <2>2
<1>4. ASSUME NEW S, request \in S, WrittenFrom(S) PROVE \A n \in Names : \E r \in S : prop'[n] = Value(r, n)
  <2>1. CASE SetProp
    <3>1. Head(writing) \in Names
      BY <2>1, WritingsStep DEF SetProp, WriterInv
    <3> QED BY <1>4, <2>1, <3>1 DEF SetProp, WrittenFrom, WriterInv
  <2>2. CASE prop' = prop
    BY <1>4, <2>2 DEF WrittenFrom
  <2> QED BY <2>1, <2>2 DEF Next, SetColor, CtlStart, GetProp, BlinkOff, WriteNode, Finish, Crash, app, vars
<1>5. WrittenFrom(Requests)'
  BY <1>4 DEF WrittenFrom, SinceInv, WriterInv
<1>6. ASSUME reading' # << >> PROVE WrittenFrom(since)' /\ ReadFrom(since)'
  <2>1. reading # << >> /\ WrittenFrom(since) /\ ReadFrom(since)
    BY <1>6 DEF SinceInv
  <2>2. \A n \in Names : \E r \in since : prop'[n] = Value(r, n)
    BY <1>4, <2>1 DEF SinceInv
  <2>3. \A n \in Names \ {victim} : ~Waits(n, reading') => \E r \in since : buf'[n] = Value(r, n)
    <3>1. CASE GetProp
      BY <2>1, <3>1, ReadsFrom
    <3>2. CASE ~GetProp
      BY <1>6, <2>1, <3>2, BuffersKept DEF ReadFrom
    <3> QED BY <3>1, <3>2
  <2> QED BY <1>0, <1>3, <2>2, <2>3 DEF WrittenFrom, ReadFrom
<1> QED BY <1>3, <1>5, <1>6 DEF SinceInv

LEMMA FreshNext ==
  ASSUME WriterInv, ReaderInv, SinceInv, FreshInv, [Next]_vars
  PROVE  FreshInv'
<1> SUFFICES ASSUME outcome' = "shown", writing' = << >>, reading' # << >> PROVE ReadFrom({request})'
  BY DEF FreshInv
<1>0. victim' = victim
  BY DEF Next, SetColor, SetProp, CtlStart, GetProp, BlinkOff, WriteNode, Finish, Crash, vars
<1>1. CASE CtlStart
  <2>1. reading' = MainOrder
    BY <1>1 DEF CtlStart
  <2> QED BY <2>1, ReadingsEnds DEF ReadFrom
<1>2. CASE ~CtlStart
  <2>1. writing = << >> /\ outcome = "shown" /\ request' = request /\ prop' = prop /\ reading # << >>
    <3>1. ~SetProp
      <4>1. SetProp => Tail(writing) # << >>
        BY WritingsStep DEF SetProp, WriterInv
      <4> QED BY <4>1 DEF SetProp
    <3>2. \A r : ~SetColor(r)
      BY DEF SetColor, SetColorOrder
    <3> QED BY <1>2, <3>1, <3>2 DEF Next, GetProp, BlinkOff, WriteNode, Finish, Crash, Ends, app, vars
  <2>2. ReadFrom({request}) /\ WrittenFrom({request})
    <3>1. \A n \in Names : prop[n] = Value(request, n)
      BY <2>1 DEF WriterInv, Waits
    <3> QED BY <2>1, <3>1 DEF FreshInv, WrittenFrom
  <2>3. \A n \in Names \ {victim} : ~Waits(n, reading') => \E r \in {request} : buf'[n] = Value(r, n)
    <3>1. CASE GetProp
      BY <2>2, <3>1, ReadsFrom
    <3>2. CASE ~GetProp
      BY <2>1, <2>2, <3>2, BuffersKept DEF ReadFrom
    <3> QED BY <3>1, <3>2
  <2> QED BY <1>0, <2>1, <2>3 DEF ReadFrom
<1> QED BY <1>1, <1>2

LEMMA LatestNext ==
  ASSUME WriterInv, ReaderInv, FreshInv, LatestColorShown, [Next]_vars
  PROVE  LatestColorShown'
<1> SUFFICES ASSUME outcome' = "shown", writing' = << >>, reading' = << >>
             PROVE  \A n \in Names \ {victim'} : Agrees(n, request)'
  BY DEF LatestColorShown, AtRest
<1>1. CASE Finish
  <2>1. /\ outcome = "shown" /\ writing = << >> /\ reading = <<"nodes">>
        /\ request' = request /\ victim' = victim
    BY <1>1 DEF Finish, app
  <2>2. reading # << >>
    BY <2>1
  <2>3. ReadFrom({request}) /\ {request} \subseteq Requests
    BY <2>1, <2>2 DEF FreshInv, WriterInv
  <2>4. \A n \in Names \ {victim} : \E r \in {request} : Agrees(n, r)'
    BY <1>1, <2>3, FinishShows
  <2> QED BY <2>1, <2>4
<1>2. CASE ~Finish
  <2>1. /\ writing = << >> /\ outcome = "shown" /\ reading = << >>
        /\ UNCHANGED <<request, rgbBlink, node, victim>>
    <3>1. ~SetProp
      <4>1. SetProp => Tail(writing) # << >>
        BY WritingsStep DEF SetProp, WriterInv
      <4> QED BY <4>1 DEF SetProp
    <3>2. \A r : ~SetColor(r)
      BY DEF SetColor, SetColorOrder
    <3>3. ~GetProp
      BY ReadingsStep DEF GetProp, ReaderInv
    <3>4. ~CtlStart
      BY ReadingsEnds DEF CtlStart
    <3>5. ~BlinkOff /\ ~WriteNode /\ ~Crash
      BY DEF BlinkOff, WriteNode, Crash
    <3> QED BY <1>2, <3>1, <3>2, <3>3, <3>4, <3>5 DEF Next, vars
  <2>2. \A n \in Names \ {victim} : Agrees(n, request)
    BY <2>1 DEF LatestColorShown, AtRest
  <2> QED BY <2>1, <2>2 DEF Agrees, Looks
<1> QED BY <1>1, <1>2

LEMMA DaemonNext == DaemonInv /\ [Next]_vars => DaemonInv'
BY WriterNext, ReaderNext, SinceNext, FreshNext, LatestNext DEF DaemonInv

\* LatestColorShown of LightDaemon for every set of requests and every build:
\* once setColor and the daemon are done, the LED shows the whole of the latest
\* colour, however calls and runs overlapped before, unless the last start was
\* ignored or the daemon crashed.
THEOREM LatestColorCorrect == Spec => []LatestColorShown
<1>1. DaemonInv => LatestColorShown
  BY DEF DaemonInv
<1> QED BY <1>1, DaemonInit, DaemonNext, PTL DEF Spec

-----------------------------------------------------------------------------
LEMMA LitType == Lit \in [Names -> SUBSET Requests]
BY DEF Lit

\* The first state: the colour set before is shown.
LEMMA RefinesInit == Init => LedImpl!Init
<1> SUFFICES ASSUME Init PROVE LedImpl!Init
  OBVIOUS
<1>1. request \in Requests /\ since = {request} /\ writing = << >> /\ reading = << >>
  BY DEF Init
<1>2. \A n \in Names : Agrees(n, request)
  <2> TAKE n \in Names
  <2>1. CASE n = "blink"
    BY <2>1 DEF Agrees, Init
  <2>2. CASE n \in Channels
    <3>1. ASSUME NEW f \in Fields PROVE node[<<n, f>>] = Field(Value(request, n), f)
      BY <2>2, <3>1, NameIs DEF Init, Values
    <3>2. Looks(n, request)
      BY <3>1 DEF Looks, Fields
    <3> QED BY <2>2, <3>2, NameIs DEF Agrees
  <2> QED BY <2>1, <2>2 DEF Names
<1>3. Lit \in LedImpl!Looks(since)
  BY <1>1, <1>2, LitType DEF LedImpl!Looks, Lit
<1> QED BY <1>1, <1>3 DEF LedImpl!Init

\* A step of setColor or of the daemon is a request, the beginning or the end of a
\* change, the end of a request that falls into one, or invisible.
LEMMA RefinesNext ==
  ASSUME DaemonInv, [Next]_vars
  PROVE  [LedImpl!Next]_LedImpl!vars
<1> USE DEF DaemonInv
<1>0. victim' = victim
  BY DEF Next, SetColor, SetProp, CtlStart, GetProp, BlinkOff, WriteNode, Finish, Crash, vars
<1>1. ASSUME NEW r \in Requests, SetColor(r) PROVE LedImpl!Next
  <2>1. /\ writing = << >> /\ writing' # << >> /\ request' = r /\ since' = since \cup {r}
        /\ UNCHANGED <<reading, rgbBlink, node>>
    BY <1>1 DEF SetColor, SetColorOrder, driver
  <2>2. Lit' = Lit
    BY <2>1 DEF Lit, Agrees, Looks
  <2>3. LedImpl!Request(r)
    BY <1>0, <2>1, <2>2 DEF LedImpl!Request
  <2> QED BY <2>3 DEF LedImpl!Next
<1>2. CASE SetProp \/ UNCHANGED vars
  <2>1. /\ (writing' = << >>) = (writing = << >>)
        /\ UNCHANGED <<request, since, reading, rgbBlink, node>>
    BY <1>2, WritingsStep DEF SetProp, driver, vars, WriterInv
  <2>2. Lit' = Lit
    BY <2>1 DEF Lit, Agrees, Looks
  <2> QED BY <1>0, <2>1, <2>2 DEF LedImpl!vars
<1>3. CASE CtlStart
  <2>1. writing # << >> /\ writing' = << >> /\ request' = request /\ reading' # << >>
    BY <1>3, WritingsStep, ReadingsEnds DEF CtlStart, WriterInv
  <2>2. CASE reading = << >>
    <3>1. since' = {request} /\ Lit' = LedImpl!Nothing
      BY <1>3, <2>1, <2>2 DEF CtlStart, Lit, LedImpl!Nothing
    <3>2. LedImpl!Begin
      BY <1>0, <2>1, <2>2, <3>1 DEF LedImpl!Begin
    <3> QED BY <3>2 DEF LedImpl!Next
  <2>3. CASE reading # << >>
    <3>1. since' = since /\ Lit' = Lit
      BY <1>3, <2>1, <2>3 DEF CtlStart, Lit
    <3>2. LedImpl!Overlap
      BY <1>0, <2>1, <2>3, <3>1 DEF LedImpl!Overlap
    <3> QED BY <3>2 DEF LedImpl!Next
  <2> QED BY <2>2, <2>3
<1>4. CASE GetProp \/ BlinkOff \/ WriteNode
  <2>1. reading # << >> /\ reading' # << >> /\ UNCHANGED <<request, writing, since>>
    <3>1. CASE GetProp
      BY <3>1, ReadingsStep DEF GetProp, app, ReaderInv
    <3>2. CASE BlinkOff \/ WriteNode
      <4>1. <<"nodes">> # << >> /\ <<"off", "nodes">> # << >>
        OBVIOUS
      <4> QED BY <3>2, <4>1 DEF BlinkOff, WriteNode, app
    <3> QED BY <1>4, <3>1, <3>2
  <2>2. Lit' = Lit
    BY <2>1 DEF Lit
  <2> QED BY <1>0, <2>1, <2>2 DEF LedImpl!vars
<1>5. CASE Finish \/ Crash
  <2>1. /\ reading # << >> /\ reading' = << >> /\ UNCHANGED <<request, writing, since>>
    <3>1. <<"nodes">> # << >>
      OBVIOUS
    <3> QED BY <1>5, <3>1 DEF Finish, Crash, Ends, app
  <2>2. Lit' \in [Names -> SUBSET Requests]
    BY DEF Lit
  <2>3. ASSUME victim = "none" PROVE Lit' \in LedImpl!Looks(since)
    <3>1. ReadFrom(since) /\ since \subseteq Requests
      BY <2>1 DEF SinceInv
    <3>2. Names \ {victim} = Names
      BY <2>3 DEF Names, Channels
    <3>3. Finish
      <4>1. CASE Crash
        <5>1. reading = <<"nodes">> /\ \E n \in Channels : buf[n] = Garbage
          BY <4>1 DEF Crash
        <5>2. PICK n \in Channels : buf[n] = Garbage
          BY <5>1
        <5>3. PICK r \in since : buf[n] = Value(r, n)
          BY <3>1, <3>2, <5>1, NameIs, ReadingsEnds DEF ReadFrom
        <5>4. buf[n].value = r[n]
          BY <5>3, NameIs DEF Value, Channel
        <5>5. buf[n].value = -1
          BY <5>2 DEF Garbage
        <5>6. r[n] \in 0 .. 255
          BY <3>1, RequestFields
        <5> QED BY <5>4, <5>5, <5>6
      <4> QED BY <1>5, <4>1
    <3>4. \A n \in Names : \E r \in since : Agrees(n, r)'
      BY <3>1, <3>2, <3>3, FinishShows
    <3>5. \A n \in Names : Lit'[n] = {r \in Requests : Agrees(n, r)'}
      BY <2>1 DEF Lit
    <3>6. \A n \in Names : Lit'[n] \cap since # {}
      BY <3>1, <3>4, <3>5
    <3> QED BY <2>2, <3>6 DEF LedImpl!Looks
  <2>4. LedImpl!End
    BY <1>0, <2>1, <2>2, <2>3 DEF LedImpl!End
  <2> QED BY <2>4 DEF LedImpl!Next
<1> QED BY <1>1, <1>2, <1>3, <1>4, <1>5 DEF Next

\* The safety part of ImplementsLed: for every set of requests and however calls of
\* setColor and runs of the daemon overlap, a change that ends leaves every part
\* of the LED as a request wanted it that was made since the daemon was started,
\* and between changes the LED keeps its look.
THEOREM RefinesLed == Spec => LedImpl!Safe
<1>1. DaemonInv /\ [Next]_vars => [LedImpl!Next]_LedImpl!vars
  BY RefinesNext
<1> QED BY <1>1, RefinesInit, DaemonInit, DaemonNext, PTL DEF Spec, LedImpl!Safe

-----------------------------------------------------------------------------
(* LedLightManager.                                                          *)

\* The entries with the numbers in T, in their order.
Embeds(e, n, T) ==
  /\ e \in [1 .. n -> T]
  /\ \A k, l \in 1 .. n : k < l => e[k] < e[l]
  /\ \A i \in T : \E k \in 1 .. n : e[k] = i

-----------------------------------------------------------------------------
(* The operators of LedLightManager.                                         *)

\* A set of numbers has a least one.
LEMMA Least ==
  ASSUME NEW T \in SUBSET Nat, T # {}
  PROVE  \E k \in T : \A l \in T : ~(l < k)
<1>1. \A l, k \in Nat : l < k => <<l, k>> \in OpToRel(<, Nat)
  BY Zenon DEF OpToRel
<1>2. PICK k \in T : \A l \in T : <<l, k>> \notin OpToRel(<, Nat)
  BY NatLessThanWellFounded, WFMin
<1> QED BY <1>1, <1>2

LEMMA MinIs ==
  ASSUME NEW T \in SUBSET Nat, T # {}
  PROVE  Min(T) \in T
<1>1. PICK k \in T : \A l \in T : ~(l < k)
  BY Least
<1>2. \E x \in T : \A y \in T : x =< y
  BY <1>1
<1> QED BY <1>2 DEF Min

LEMMA MaxIs ==
  ASSUME NEW n \in Nat, NEW T \in SUBSET (0 .. n), T # {}
  PROVE  Max(T) \in T
<1> DEFINE U == {u \in 0 .. n : \A y \in T : y <= u}
<1>1. U \in SUBSET Nat /\ n \in U
  OBVIOUS
<1>2. PICK u \in U : \A v \in U : ~(v < u)
  <2> HIDE DEF U
  <2> QED BY <1>1, Least
<1>3. u \in T
  <2>1. SUFFICES ASSUME u \notin T PROVE FALSE
    OBVIOUS
  <2>2. \A y \in T : y <= u /\ y # u /\ y \in Nat
    BY <1>2, <2>1
  <2>3. u \in Nat /\ u # 0
    <3>1. PICK y \in T : TRUE
      OBVIOUS
    <3> QED BY <1>2, <2>2, <3>1
  <2>4. u - 1 \in U
    BY <1>2, <2>2, <2>3
  <2> QED BY <1>2, <2>3, <2>4
<1>4. \E x \in T : \A y \in T : x >= y
  BY <1>2, <1>3
<1> QED BY <1>4 DEF Max

\* loadConfig: the rules are lines of the configuration.
LEMMA ParsedAre ==
  ASSUME NEW d \in Configs
  PROVE  ParseConfig(d) \in Seq(Lines)
<1>1. d \in Configs /\ d \in Seq({d[i] : i \in DOMAIN d})
  BY LedAssumption
<1>2. Len(d) \in Nat /\ DOMAIN d = 1 .. Len(d)
  BY <1>1, LenProperties
<1>3. \A i \in DOMAIN d : d[i] \in Lines
  BY <1>1 DEF Lines
<1> DEFINE bad == {i \in DOMAIN d : d[i].bad}
<1>4. Max(bad \cup {0}) \in bad \cup {0}
  <2>1. bad \cup {0} \in SUBSET (0 .. Len(d)) /\ bad \cup {0} # {}
    BY <1>2
  <2> HIDE DEF bad
  <2> QED BY <1>2, <2>1, MaxIs
<1> DEFINE a == Max(bad \cup {0})
<1>5. a \in 0 .. Len(d)
  BY <1>2, <1>4
<1> HIDE DEF a
<1>6. SubSeq(d, a + 1, Len(d)) \in Seq(Lines)
  <2>1. a + 1 \in Int /\ Len(d) \in Int /\ \A i \in a + 1 .. Len(d) : d[i] \in Lines
    BY <1>2, <1>3, <1>5
  <2> QED BY <2>1, SubSeqProperties
<1> QED BY <1>6 DEF a, ParseConfig

Matches(title, str) == str = AnyString \/ TitleHas(title, str)

\* onNotificationPosted: the rule chosen is one of the package and matches.
LEMMA MatchIs ==
  ASSUME NEW rs \in Seq(Lines), NEW pkg, NEW title, NEW m, m = Match(rs, pkg, title), m # 0
  PROVE  /\ m \in DOMAIN rs /\ rs[m] \in Lines
         /\ rs[m].pkg = pkg /\ Matches(title, rs[m].str)
<1>1. Len(rs) \in Nat /\ DOMAIN rs = 1 .. Len(rs)
  BY LenProperties
<1> DEFINE of == {i \in DOMAIN rs : rs[i].pkg = pkg}
<1> DEFINE found == {i \in of : TitleHas(title, rs[i].str)}
<1> DEFINE default == {i \in of : rs[i].str = AnyString}
<1>2. found # {} => Min(found) \in found
  <2>1. found \in SUBSET Nat
    BY <1>1
  <2> HIDE DEF found
  <2> QED BY <2>1, MinIs
<1>3. default # {} => Max(default) \in default
  <2>1. default \in SUBSET (0 .. Len(rs))
    BY <1>1
  <2> HIDE DEF default
  <2> QED BY <1>1, <2>1, MaxIs
<1>4. m \in found \cup default
  BY <1>2, <1>3 DEF Match
<1>5. m \in DOMAIN rs /\ rs[m].pkg = pkg /\ Matches(title, rs[m].str)
  BY <1>4 DEF Matches
<1> QED BY <1>1, <1>5, ElementOfSeq

\* How many of T are up to a number.
LEMMA UpTo ==
  ASSUME NEW n \in Nat, NEW T \in SUBSET (1 .. n)
  PROVE  /\ IsFiniteSet(T) /\ Cardinality(T) \in Nat
         /\ \A i \in 0 .. n : Cardinality({j \in T : j <= i}) \in Nat
         /\ Cardinality({j \in T : j <= 0}) = 0
         /\ Cardinality({j \in T : j <= n}) = Cardinality(T)
         /\ \A i \in 1 .. n : Cardinality({j \in T : j <= i}) =
              IF i \in T THEN Cardinality({j \in T : j <= i - 1}) + 1
                         ELSE Cardinality({j \in T : j <= i - 1})
         /\ \A i, k \in 0 .. n : i <= k =>
              Cardinality({j \in T : j <= i}) <= Cardinality({j \in T : j <= k})
<1> DEFINE Up(i) == {j \in T : j <= i}
<1>0. \A j \in T : j \in Int /\ 1 <= j /\ j <= n
  OBVIOUS
<1>2. IsFiniteSet(T) /\ Cardinality(T) \in Nat
  <2>1. IsFiniteSet(1 .. n)
    BY FS_Interval
  <2>2. IsFiniteSet(T)
    BY <2>1, FS_Subset
  <2> QED BY <2>2, FS_CardinalityType
<1>1. ASSUME NEW i PROVE IsFiniteSet(Up(i)) /\ Cardinality(Up(i)) \in Nat
  <2>1. Up(i) \in SUBSET T
    OBVIOUS
  <2> HIDE DEF Up
  <2>2. IsFiniteSet(Up(i))
    BY <1>2, <2>1, FS_Subset
  <2> QED BY <2>2, FS_CardinalityType
<1>3. Up(0) = {} /\ Up(n) = T
  <2>1. \A j \in T : ~(j <= 0) /\ j <= n
    BY <1>0
  <2> QED BY <2>1, Zenon
<1>4. ASSUME NEW i \in 1 .. n
      PROVE  Cardinality(Up(i)) = IF i \in T THEN Cardinality(Up(i - 1)) + 1 ELSE Cardinality(Up(i - 1))
  <2>0. \A j \in T : (j <= i <=> j <= i - 1 \/ j = i) /\ (j <= i - 1 => j # i)
    BY <1>0
  <2>1. CASE i \in T
    <3>1. Up(i) = Up(i - 1) \cup {i} /\ i \notin Up(i - 1)
      <4>1. \A x : x \in Up(i) <=> x \in T /\ x <= i
        BY Zenon
      <4>2. \A x : x \in Up(i - 1) <=> x \in T /\ x <= i - 1
        BY Zenon
      <4> HIDE DEF Up
      <4> QED BY <2>0, <2>1, <4>1, <4>2, Zenon
    <3> HIDE DEF Up
    <3> QED BY <1>1, <2>1, <3>1, FS_AddElement
  <2>2. CASE i \notin T
    <3>1. \A j \in T : j <= i <=> j <= i - 1
      BY <2>0, <2>2
    <3>2. Up(i) = Up(i - 1)
      BY <3>1, Zenon
    <3> QED BY <2>2, <3>2
  <2> QED BY <2>1, <2>2
<1>5. ASSUME NEW i \in 0 .. n, NEW k \in 0 .. n, i <= k
      PROVE  Cardinality(Up(i)) <= Cardinality(Up(k))
  <2>1. \A j \in T : j <= i => j <= k
    BY <1>0, <1>5
  <2>2. Up(i) \in SUBSET Up(k)
    BY <2>1, Zenon
  <2> HIDE DEF Up
  <2> QED BY <1>1, <2>2, FS_Subset
<1>6. Cardinality(Up(0)) = 0
  BY <1>3, FS_EmptySet
<1> QED BY <1>1, <1>2, <1>3, <1>4, <1>5, <1>6

\* InOrder names every element of T, in rising order.
LEMMA InOrderIs ==
  ASSUME NEW n \in Nat, NEW T \in SUBSET (1 .. n)
  PROVE  Cardinality(T) \in Nat /\ Embeds(InOrder(T), Cardinality(T), T)
<1>0. \A j \in T : j \in Nat /\ j \in 1 .. n
  OBVIOUS
<1> DEFINE C(i) == Cardinality({j \in T : j <= i})
<1> DEFINE c == Cardinality(T)
<1>1. /\ c \in Nat /\ C(0) = 0 /\ C(n) = c
      /\ \A i \in 0 .. n : C(i) \in Nat
      /\ \A i \in 1 .. n : C(i) = IF i \in T THEN C(i - 1) + 1 ELSE C(i - 1)
      /\ \A i, k \in 0 .. n : i <= k => C(i) <= C(k)
  BY UpTo
<1> HIDE DEF C, c
<1>2. ASSUME NEW k \in 1 .. c PROVE \E i \in T : C(i) = k
  <2> DEFINE M == {i \in 0 .. n : C(i) >= k}
  <2>1. M \in SUBSET Nat /\ n \in M /\ 0 \notin M
    BY <1>1
  <2>2. PICK i \in M : \A l \in M : ~(l < i)
    <3> HIDE DEF M
    <3> QED BY <2>1, Least
  <2>3. i \in 1 .. n /\ i - 1 \in 0 .. n /\ C(i) >= k
    BY <2>1, <2>2
  <2>4. ~(C(i - 1) >= k)
    BY <2>2, <2>3
  <2> QED BY <1>1, <2>3, <2>4
<1>3. ASSUME NEW i \in T, NEW l \in T, i < l PROVE C(i) < C(l)
  <2>1. i \in 0 .. n /\ l \in 1 .. n /\ l - 1 \in 0 .. n /\ i <= l - 1
    BY <1>3
  <2> QED BY <1>1, <1>3, <2>1
<1>4. \A i \in T : C(i) \in 1 .. c
  <2> TAKE i \in T
  <2>1. i \in 1 .. n /\ i - 1 \in 0 .. n /\ n \in 0 .. n /\ i \in 0 .. n /\ i <= n
    OBVIOUS
  <2> QED BY <1>1, <2>1
<1> DEFINE e == InOrder(T)
<1>5. e = [k \in 1 .. c |-> CHOOSE i \in T : C(i) = k]
  BY DEF InOrder, C, c
<1> HIDE DEF e
<1>6. \A k \in 1 .. c : e[k] \in T /\ C(e[k]) = k
  BY <1>2, <1>5
<1>7. ASSUME NEW k \in 1 .. c, NEW l \in 1 .. c, k < l PROVE e[k] < e[l]
  <2>1. e[k] \in T /\ e[l] \in T /\ e[k] \in Nat /\ e[l] \in Nat /\ C(e[k]) = k /\ C(e[l]) = l
    BY <1>0, <1>6
  <2>2. ~(e[l] < e[k]) /\ e[l] # e[k]
    BY <1>3, <1>7, <2>1
  <2> QED BY <2>1, <2>2
<1>8. ASSUME NEW i \in T PROVE \E k \in 1 .. c : e[k] = i
  <2>1. C(i) \in 1 .. c /\ e[C(i)] \in T /\ C(e[C(i)]) = C(i)
    BY <1>4, <1>6
  <2>2. i \in Nat /\ e[C(i)] \in Nat
    BY <1>0, <2>1
  <2>3. ~(i < e[C(i)]) /\ ~(e[C(i)] < i)
    <3>1. i < e[C(i)] => C(i) < C(e[C(i)])
      BY <1>3, <2>1
    <3>2. e[C(i)] < i => C(e[C(i)]) < C(i)
      BY <1>3, <2>1
    <3> QED BY <2>1, <3>1, <3>2
  <2> QED BY <2>1, <2>2, <2>3
<1>9. e \in [1 .. c -> T]
  BY <1>5, <1>6
<1> QED BY <1>1, <1>7, <1>8, <1>9 DEF Embeds, e, c

\* A list without some entries: the others, in order.
LEMMA WithoutIs ==
  ASSUME NEW S, NEW s \in Seq(S), NEW R
  PROVE  /\ Without(s, R) \in Seq(S)
         /\ Len(Without(s, R)) \in Nat /\ Len(Without(s, R)) = Cardinality(DOMAIN s \ R)
         /\ DOMAIN Without(s, R) = 1 .. Len(Without(s, R))
         /\ Embeds(InOrder(DOMAIN s \ R), Len(Without(s, R)), DOMAIN s \ R)
<1> DEFINE T == DOMAIN s \ R
<1> DEFINE e == InOrder(T)
<1> DEFINE w == Without(s, R)
<1>1. Len(s) \in Nat /\ DOMAIN s = 1 .. Len(s) /\ T \in SUBSET (1 .. Len(s))
  BY LenProperties
<1>2. Cardinality(T) \in Nat /\ Embeds(e, Cardinality(T), T)
  <2> HIDE DEF T
  <2> QED BY <1>1, InOrderIs
<1>3. DOMAIN e = 1 .. Cardinality(T) /\ \A k \in 1 .. Cardinality(T) : e[k] \in T
  <2> HIDE DEF T, e
  <2> QED BY <1>2 DEF Embeds
<1>4. w = [k \in 1 .. Cardinality(T) |-> s[e[k]]]
  <2>1. w = [k \in DOMAIN e |-> s[e[k]]]
    BY DEF Without
  <2> QED BY <1>3, <2>1
<1> HIDE DEF T, e, w
<1>5. \A k \in 1 .. Cardinality(T) : s[e[k]] \in S
  <2>1. \A i \in T : s[i] \in S
    BY <1>1, ElementOfSeq
  <2> QED BY <1>3, <2>1
<1>6. w \in Seq(S) /\ Len(w) = Cardinality(T) /\ DOMAIN w = 1 .. Cardinality(T)
  BY <1>2, <1>4, <1>5
<1> QED BY <1>2, <1>4, <1>6 DEF T, e, w

\* One of them.
LEMMA WithoutAt ==
  ASSUME NEW s, NEW R, NEW k \in DOMAIN Without(s, R)
  PROVE  Without(s, R)[k] = s[InOrder(DOMAIN s \ R)[k]]
BY DEF Without

-----------------------------------------------------------------------------
(* What the history says of the lists.                                       *)

\* Entry i is the last one for its notification.
Final(sh, i) == \A k \in 1 .. Len(sh) : k > i => sh[k] # sh[i]

\* h is the history for the lists sh and ls: one entry per notification, in the
\* order of their final entries, with the colour of its rule.
History(sh, ls, h) ==
  /\ \A i \in 1 .. Len(sh) : \E j \in 1 .. Len(h) : h[j].key = sh[i]
  /\ \A j \in 1 .. Len(h) :
       \E i \in 1 .. Len(sh) : sh[i] = h[j].key /\ Final(sh, i) /\ ls[i].color = h[j].color
  /\ \A j, k \in 1 .. Len(h) : \A i, l \in 1 .. Len(sh) :
       j < k /\ sh[i] = h[j].key /\ Final(sh, i) /\ sh[l] = h[k].key /\ Final(sh, l) => i < l

Entry == [key : Keys, color : RuleColors]

\* The entries of sh, and of h, for the other notifications.
OtherKeys(sh, key) == {i \in 1 .. Len(sh) : sh[i] # key}
Others(h, key) == {j \in 1 .. Len(h) : h[j].key # key}

\* An embedding keeps the order both ways.
LEMMA EmbedsOrder ==
  ASSUME NEW n \in Nat, NEW T \in SUBSET Nat, NEW e, Embeds(e, n, T)
  PROVE  /\ \A k \in 1 .. n : e[k] \in T /\ e[k] \in Nat
         /\ \A k, l \in 1 .. n : (k < l => e[k] < e[l]) /\ (e[k] < e[l] => k < l)
<1>1. \A k \in 1 .. n : e[k] \in T /\ e[k] \in Nat
  BY DEF Embeds
<1>2. ASSUME NEW k \in 1 .. n, NEW l \in 1 .. n PROVE (k < l => e[k] < e[l]) /\ (e[k] < e[l] => k < l)
  <2>1. /\ k < l => e[k] < e[l]
        /\ l < k => e[l] < e[k]
    BY DEF Embeds
  <2> QED BY <1>1, <2>1
<1> QED BY <1>1, <1>2 DEF Embeds

\* onNotificationRemoved: the history stays right when all entries of a
\* notification go.
LEMMA HistoryEmbeds ==
  ASSUME NEW sh \in Seq(Keys), NEW ls, NEW h \in Seq(Entry),
         NEW sh2 \in Seq(Keys), NEW ls2, NEW h2 \in Seq(Entry),
         NEW key, NEW e, NEW f,
         Embeds(e, Len(sh2), OtherKeys(sh, key)),
         Embeds(f, Len(h2), Others(h, key)),
         \A k \in 1 .. Len(sh2) : sh2[k] = sh[e[k]] /\ ls2[k] = ls[e[k]],
         \A k \in 1 .. Len(h2) : h2[k] = h[f[k]],
         History(sh, ls, h)
  PROVE  History(sh2, ls2, h2)
<1>0. Len(sh) \in Nat /\ Len(h) \in Nat /\ Len(sh2) \in Nat /\ Len(h2) \in Nat
  BY LenProperties
<1>1. /\ \A k \in 1 .. Len(sh2) : e[k] \in 1 .. Len(sh) /\ sh[e[k]] # key
      /\ \A k, l \in 1 .. Len(sh2) : (k < l => e[k] < e[l]) /\ (e[k] < e[l] => k < l)
      /\ \A i \in 1 .. Len(sh) : sh[i] # key => \E k \in 1 .. Len(sh2) : e[k] = i
  <2> DEFINE T == {i \in 1 .. Len(sh) : sh[i] # key}
  <2>1. T \in SUBSET Nat /\ Embeds(e, Len(sh2), T)
    BY DEF OtherKeys
  <2>2. \A i \in T : \E k \in 1 .. Len(sh2) : e[k] = i
    BY <2>1 DEF Embeds
  <2>3. /\ \A k \in 1 .. Len(sh2) : e[k] \in T
        /\ \A k, l \in 1 .. Len(sh2) : (k < l => e[k] < e[l]) /\ (e[k] < e[l] => k < l)
    <3> HIDE DEF T
    <3> QED BY <1>0, <2>1, EmbedsOrder
  <2> QED BY <2>2, <2>3
<1>2. /\ \A k \in 1 .. Len(h2) : f[k] \in 1 .. Len(h) /\ h[f[k]].key # key
      /\ \A k, l \in 1 .. Len(h2) : (k < l => f[k] < f[l]) /\ (f[k] < f[l] => k < l)
      /\ \A j \in 1 .. Len(h) : h[j].key # key => \E k \in 1 .. Len(h2) : f[k] = j
  <2> DEFINE T == {j \in 1 .. Len(h) : h[j].key # key}
  <2>1. T \in SUBSET Nat /\ Embeds(f, Len(h2), T)
    BY DEF Others
  <2>2. \A j \in T : \E k \in 1 .. Len(h2) : f[k] = j
    BY <2>1 DEF Embeds
  <2>3. /\ \A k \in 1 .. Len(h2) : f[k] \in T
        /\ \A k, l \in 1 .. Len(h2) : (k < l => f[k] < f[l]) /\ (f[k] < f[l] => k < l)
    <3> HIDE DEF T
    <3> QED BY <1>0, <2>1, EmbedsOrder
  <2> QED BY <2>2, <2>3
<1>3. ASSUME NEW k \in 1 .. Len(sh2) PROVE Final(sh2, k) <=> Final(sh, e[k])
  <2>1. ASSUME Final(sh2, k), NEW i \in 1 .. Len(sh), i > e[k] PROVE sh[i] # sh[e[k]]
    <3>1. SUFFICES ASSUME sh[i] = sh[e[k]] PROVE FALSE
      OBVIOUS
    <3>2. PICK m \in 1 .. Len(sh2) : e[m] = i
      BY <1>1, <3>1
    <3>3. m > k
      BY <1>0, <1>1, <2>1, <3>2
    <3> QED BY <2>1, <3>1, <3>2, <3>3 DEF Final
  <2>2. ASSUME Final(sh, e[k]), NEW m \in 1 .. Len(sh2), m > k PROVE sh2[m] # sh2[k]
    <3>1. e[m] \in 1 .. Len(sh) /\ e[m] > e[k]
      BY <1>0, <1>1, <2>2
    <3> QED BY <2>2, <3>1 DEF Final
  <2> QED BY <2>1, <2>2 DEF Final
<1>4. ASSUME NEW i \in 1 .. Len(sh2) PROVE \E j \in 1 .. Len(h2) : h2[j].key = sh2[i]
  <2>1. PICK j \in 1 .. Len(h) : h[j].key = sh[e[i]]
    BY <1>1 DEF History
  <2>2. PICK m \in 1 .. Len(h2) : f[m] = j
    BY <1>1, <1>2, <2>1
  <2> QED BY <2>1, <2>2
<1>5. ASSUME NEW j \in 1 .. Len(h2)
      PROVE  \E i \in 1 .. Len(sh2) :
               sh2[i] = h2[j].key /\ Final(sh2, i) /\ ls2[i].color = h2[j].color
  <2>1. PICK i \in 1 .. Len(sh) :
           sh[i] = h[f[j]].key /\ Final(sh, i) /\ ls[i].color = h[f[j]].color
    BY <1>2 DEF History
  <2>2. PICK m \in 1 .. Len(sh2) : e[m] = i
    BY <1>1, <1>2, <2>1
  <2> QED BY <1>3, <2>1, <2>2
<1>6. ASSUME NEW j \in 1 .. Len(h2), NEW k \in 1 .. Len(h2),
             NEW i \in 1 .. Len(sh2), NEW l \in 1 .. Len(sh2),
             j < k, sh2[i] = h2[j].key, Final(sh2, i), sh2[l] = h2[k].key, Final(sh2, l)
      PROVE  i < l
  <2>1. f[j] \in 1 .. Len(h) /\ f[k] \in 1 .. Len(h) /\ f[j] < f[k]
    BY <1>2, <1>6
  <2>2. e[i] \in 1 .. Len(sh) /\ e[l] \in 1 .. Len(sh) /\ Final(sh, e[i]) /\ Final(sh, e[l])
    BY <1>1, <1>3, <1>6
  <2>3. sh[e[i]] = h[f[j]].key /\ sh[e[l]] = h[f[k]].key
    BY <1>6
  <2>4. e[i] < e[l]
    BY <2>1, <2>2, <2>3 DEF History
  <2> QED BY <1>1, <2>4
<1> QED BY <1>4, <1>5, <1>6 DEF History

\* onNotificationPosted: the new entry is the latest.
LEMMA HistoryPosted ==
  ASSUME NEW sh \in Seq(Keys), NEW ls \in Seq(Lines), NEW h \in Seq(Entry), NEW h2 \in Seq(Entry),
         NEW key \in Keys, NEW rule \in Lines, NEW f,
         Len(ls) = Len(sh),
         Embeds(f, Len(h2), Others(h, key)),
         \A k \in 1 .. Len(h2) : h2[k] = h[f[k]],
         History(sh, ls, h)
  PROVE  History(Append(sh, key), Append(ls, rule), Append(h2, [key |-> key, color |-> rule.color]))
<1> DEFINE n == Len(sh)
<1> DEFINE q == Len(h2)
<1> DEFINE sh3 == Append(sh, key)
<1> DEFINE ls3 == Append(ls, rule)
<1> DEFINE h3 == Append(h2, [key |-> key, color |-> rule.color])
<1>0. n \in Nat /\ Len(h) \in Nat /\ q \in Nat
  BY LenProperties
<1>1. /\ Len(sh3) = n + 1 /\ sh3[n + 1] = key /\ \A i \in 1 .. n : sh3[i] = sh[i]
      /\ ls3[n + 1] = rule /\ \A i \in 1 .. n : ls3[i] = ls[i]
  BY AppendProperties
<1>2. /\ Len(h3) = q + 1 /\ h3[q + 1].key = key /\ h3[q + 1].color = rule.color
      /\ \A i \in 1 .. q : h3[i] = h2[i]
  <2>1. [key |-> key, color |-> rule.color] \in Entry
    BY DEF Entry, RuleColors
  <2>2. /\ Len(h3) = q + 1 /\ h3[q + 1] = [key |-> key, color |-> rule.color]
        /\ \A i \in 1 .. q : h3[i] = h2[i]
    BY <2>1, AppendProperties
  <2> QED BY <2>2
<1>3. /\ \A k \in 1 .. q : f[k] \in 1 .. Len(h) /\ h[f[k]].key # key
      /\ \A k, l \in 1 .. q : (k < l => f[k] < f[l]) /\ (f[k] < f[l] => k < l)
      /\ \A j \in 1 .. Len(h) : h[j].key # key => \E k \in 1 .. q : f[k] = j
  <2> DEFINE T == {j \in 1 .. Len(h) : h[j].key # key}
  <2>1. T \in SUBSET Nat /\ Embeds(f, q, T)
    BY DEF Others
  <2>2. \A j \in T : \E k \in 1 .. q : f[k] = j
    BY <2>1 DEF Embeds
  <2>3. /\ \A k \in 1 .. q : f[k] \in T
        /\ \A k, l \in 1 .. q : (k < l => f[k] < f[l]) /\ (f[k] < f[l] => k < l)
    <3> HIDE DEF T, q
    <3> QED BY <1>0, <2>1, EmbedsOrder
  <2> QED BY <2>2, <2>3
<1> HIDE DEF n, q, sh3, ls3, h3
<1>4. ASSUME NEW i \in 1 .. n + 1, sh3[i] # key
      PROVE  i \in 1 .. n /\ (Final(sh3, i) <=> Final(sh, i))
  <2>1. i \in 1 .. n
    BY <1>0, <1>1, <1>4
  <2>2. ASSUME NEW k \in 1 .. n + 1, k > i, Final(sh, i) PROVE sh3[k] # sh3[i]
    <3>1. CASE k \in 1 .. n
      BY <1>0, <1>1, <2>1, <2>2, <3>1 DEF Final, n
    <3>2. CASE k \notin 1 .. n
      <4>1. k = n + 1
        BY <1>0, <3>2
      <4> QED BY <1>1, <1>4, <4>1
    <3> QED BY <3>1, <3>2
  <2>3. ASSUME NEW k \in 1 .. n, k > i, Final(sh3, i) PROVE sh[k] # sh[i]
    <3>1. k \in 1 .. n + 1
      BY <1>0
    <3> QED BY <1>1, <2>1, <2>3, <3>1 DEF Final
  <2> QED BY <1>1, <2>1, <2>2, <2>3 DEF Final, n
<1>5. ASSUME NEW i \in 1 .. n + 1 PROVE \E j \in 1 .. q + 1 : h3[j].key = sh3[i]
  <2>1. CASE sh3[i] = key
    BY <1>0, <1>2, <2>1
  <2>2. CASE sh3[i] # key
    <3>1. i \in 1 .. n
      BY <1>4, <2>2
    <3>2. PICK j \in 1 .. Len(h) : h[j].key = sh[i]
      BY <3>1 DEF History, n
    <3>3. PICK m \in 1 .. q : f[m] = j
      BY <1>1, <1>3, <2>2, <3>1, <3>2
    <3>4. h3[m].key = sh3[i] /\ m \in 1 .. q + 1
      BY <1>0, <1>1, <1>2, <3>1, <3>2, <3>3 DEF q
    <3> QED BY <3>4
  <2> QED BY <2>1, <2>2
<1>6. Final(sh3, n + 1)
  BY <1>0, <1>1 DEF Final
<1>7. ASSUME NEW j \in 1 .. q PROVE h3[j] = h[f[j]] /\ h3[j].key # key /\ f[j] \in 1 .. Len(h)
  BY <1>2, <1>3 DEF q
<1>8. ASSUME NEW j \in 1 .. q + 1
      PROVE  \E i \in 1 .. n + 1 :
               sh3[i] = h3[j].key /\ Final(sh3, i) /\ ls3[i].color = h3[j].color
  <2>1. CASE j \in 1 .. q
    <3>1. PICK i \in 1 .. n :
             sh[i] = h[f[j]].key /\ Final(sh, i) /\ ls[i].color = h[f[j]].color
      BY <1>7, <2>1 DEF History, n
    <3>2. i \in 1 .. n + 1 /\ sh3[i] = h3[j].key /\ sh3[i] # key /\ ls3[i].color = h3[j].color
      BY <1>0, <1>1, <1>7, <2>1, <3>1
    <3> QED BY <1>4, <3>1, <3>2
  <2>2. CASE j \notin 1 .. q
    <3>1. j = q + 1 /\ n + 1 \in 1 .. n + 1
      BY <1>0, <2>2
    <3> QED BY <1>1, <1>2, <1>6, <3>1
  <2> QED BY <2>1, <2>2
<1>9. ASSUME NEW j \in 1 .. q + 1, NEW k \in 1 .. q + 1,
             NEW i \in 1 .. n + 1, NEW l \in 1 .. n + 1,
             j < k, sh3[i] = h3[j].key, Final(sh3, i), sh3[l] = h3[k].key, Final(sh3, l)
      PROVE  i < l
  <2>1. j \in 1 .. q
    BY <1>0, <1>9
  <2>2. i \in 1 .. n /\ Final(sh, i) /\ sh[i] = h[f[j]].key /\ f[j] \in 1 .. Len(h)
    BY <1>1, <1>4, <1>7, <1>9, <2>1
  <2>3. CASE k \in 1 .. q
    <3>1. l \in 1 .. n /\ Final(sh, l) /\ sh[l] = h[f[k]].key /\ f[k] \in 1 .. Len(h)
      BY <1>1, <1>4, <1>7, <1>9, <2>3
    <3>2. f[j] < f[k]
      BY <1>3, <1>9, <2>1, <2>3
    <3> QED BY <2>2, <3>1, <3>2 DEF History, n
  <2>4. CASE k \notin 1 .. q
    <3>1. sh3[l] = key
      <4>1. k = q + 1
        BY <1>0, <2>4
      <4> QED BY <1>2, <1>9, <4>1
    <3>2. ~(n + 1 > l)
      <4>1. n + 1 \in 1 .. Len(sh3)
        BY <1>0, <1>1
      <4> QED BY <1>1, <1>9, <3>1, <4>1 DEF Final
    <3> QED BY <1>0, <2>2, <3>2
  <2> QED BY <2>3, <2>4
<1> QED BY <1>1, <1>2, <1>5, <1>8, <1>9 DEF History, n, q, sh3, ls3, h3

\* No entries, no history.
LEMMA HistoryEmpty == History(<< >>, << >>, << >>)
<1>1. Len(<< >>) = 0 /\ \A i : i \notin 1 .. 0
  BY EmptySeq
<1> QED BY <1>1 DEF History

\* With a history, the last entry's colour is that of the latest notification.
LEMMA HistoryLast ==
  ASSUME NEW sh \in Seq(Keys), NEW ls, NEW h \in Seq(Entry), History(sh, ls, h), Len(sh) # 0
  PROVE  Len(h) # 0 /\ ls[Len(sh)].color = h[Len(h)].color
<1>0. Len(sh) \in Nat /\ Len(h) \in Nat /\ Len(sh) \in 1 .. Len(sh)
  BY LenProperties
<1>1. PICK j \in 1 .. Len(h) : h[j].key = sh[Len(sh)]
  BY <1>0 DEF History
<1>2. Len(h) \in 1 .. Len(h)
  BY <1>0, <1>1
<1>3. PICK i \in 1 .. Len(sh) :
        sh[i] = h[Len(h)].key /\ Final(sh, i) /\ ls[i].color = h[Len(h)].color
  BY <1>2 DEF History
<1>4. Final(sh, Len(sh))
  BY <1>0 DEF Final
<1>5. j = Len(h)
  <2>1. SUFFICES ASSUME j < Len(h) PROVE FALSE
    BY <1>0
  <2>2. Len(sh) < i
    BY <1>0, <1>1, <1>2, <1>3, <1>4, <2>1 DEF History
  <2> QED BY <1>0, <2>2
<1>6. ~(Len(sh) > i)
  BY <1>0, <1>1, <1>3, <1>5 DEF Final
<1>7. i = Len(sh)
  BY <1>0, <1>6
<1> QED BY <1>0, <1>2, <1>3, <1>7

-----------------------------------------------------------------------------
(* What the callbacks in flight will say.                                    *)

IsRemoval(c, key) == c.kind = "removed" /\ c.key = key

\* From callback n of q on, the listener hears of notification key under title t
\* only, up to its removal; without one in flight, that is its title now.
Told(q, n, key, now, t) ==
  /\ \A m \in n .. Len(q) :
       IsRemoval(q[m], key) /\ (\A l \in n .. m - 1 : ~IsRemoval(q[l], key)) => q[m].title = t
  /\ (\A m \in n .. Len(q) : ~IsRemoval(q[m], key)) => now = t

Called == [kind : {"posted", "removed"}, key : Keys, title : Titles \cup {NoTitle}]

\* A callback that was handled is no longer in flight.
LEMMA ToldTail ==
  ASSUME NEW q \in Seq(Called), q # << >>, NEW n \in Nat \ {0}, NEW key, NEW now, NEW t,
         Told(q, n + 1, key, now, t)
  PROVE  Told(Tail(q), n, key, now, t)
<1>1. /\ Len(q) \in Nat \ {0} /\ Len(Tail(q)) = Len(q) - 1
      /\ \A i \in 1 .. Len(q) - 1 : Tail(q)[i] = q[i + 1]
  BY HeadTailProperties, LenProperties, EmptySeq
<1>2. \A i \in n .. Len(q) - 1 : i + 1 \in n + 1 .. Len(q) /\ Tail(q)[i] = q[i + 1]
  BY <1>1
<1>3. ASSUME NEW m \in n .. Len(q) - 1, IsRemoval(Tail(q)[m], key),
             \A l \in n .. m - 1 : ~IsRemoval(Tail(q)[l], key)
      PROVE  Tail(q)[m].title = t
  <2>1. ASSUME NEW l \in n + 1 .. m PROVE ~IsRemoval(q[l], key)
    <3>1. l - 1 \in n .. m - 1 /\ l - 1 \in n .. Len(q) - 1 /\ (l - 1) + 1 = l
      BY <1>1
    <3> QED BY <1>2, <1>3, <3>1
  <2>2. m + 1 \in n + 1 .. Len(q) /\ (m + 1) - 1 = m /\ Tail(q)[m] = q[m + 1]
    BY <1>1, <1>2
  <2> QED BY <1>3, <2>1, <2>2 DEF Told
<1>4. ASSUME \A m \in n .. Len(q) - 1 : ~IsRemoval(Tail(q)[m], key) PROVE now = t
  <2>1. ASSUME NEW m \in n + 1 .. Len(q) PROVE ~IsRemoval(q[m], key)
    <3>1. m - 1 \in n .. Len(q) - 1 /\ (m - 1) + 1 = m
      BY <1>1
    <3> QED BY <1>2, <1>4, <3>1
  <2> QED BY <2>1 DEF Told
<1> QED BY <1>1, <1>3, <1>4 DEF Told

\* The next callback removes the notification under its title, or the others
\* will.
LEMMA ToldHead ==
  ASSUME NEW q \in Seq(Called), q # << >>, NEW key, NEW now, NEW t, Told(q, 1, key, now, t)
  PROVE  /\ IsRemoval(q[1], key) => q[1].title = t
         /\ ~IsRemoval(q[1], key) => Told(Tail(q), 1, key, now, t)
<1>1. Len(q) \in Nat \ {0}
  BY LenProperties, EmptySeq
<1>2. IsRemoval(q[1], key) => q[1].title = t
  <2>1. 1 \in 1 .. Len(q) /\ \A l : l \notin 1 .. 1 - 1
    BY <1>1
  <2> QED BY <2>1 DEF Told
<1>3. ASSUME ~IsRemoval(q[1], key) PROVE Told(q, 2, key, now, t)
  <2>1. \A m \in 1 .. Len(q) : m = 1 \/ m \in 2 .. Len(q)
    BY <1>1
  <2>2. \A m \in 2 .. Len(q) : m \in 1 .. Len(q)
    BY <1>1
  <2>3. \A m \in 2 .. Len(q) : \A l \in 1 .. m - 1 : l = 1 \/ l \in 2 .. m - 1
    BY <1>1
  <2>4. ASSUME NEW m \in 2 .. Len(q), IsRemoval(q[m], key),
               \A l \in 2 .. m - 1 : ~IsRemoval(q[l], key)
        PROVE  q[m].title = t
    <3>1. \A l \in 1 .. m - 1 : ~IsRemoval(q[l], key)
      BY <1>3, <2>3, <2>4
    <3> QED BY <2>2, <2>4, <3>1 DEF Told
  <2>5. ASSUME \A m \in 2 .. Len(q) : ~IsRemoval(q[m], key) PROVE now = t
    BY <1>3, <2>1, <2>5 DEF Told
  <2> QED BY <2>4, <2>5 DEF Told
<1>4. Told(q, 2, key, now, t) => Told(Tail(q), 1, key, now, t)
  BY ToldTail
<1> QED BY <1>2, <1>3, <1>4

\* A new callback goes to the end of the queue.
LEMMA ToldAppend ==
  ASSUME NEW q \in Seq(Called), NEW c \in Called, NEW n \in Nat \ {0}, n <= Len(q) + 1,
         NEW key, NEW now, NEW new, NEW t, Told(q, n, key, now, t),
         now = t => IF IsRemoval(c, key) THEN c.title = t ELSE new = t
  PROVE  Told(Append(q, c), n, key, new, t)
<1> DEFINE q2 == Append(q, c)
<1>1. /\ Len(q) \in Nat /\ Len(q2) = Len(q) + 1 /\ q2[Len(q) + 1] = c
      /\ \A i \in 1 .. Len(q) : q2[i] = q[i]
  BY LenProperties, AppendProperties
<1> HIDE DEF q2
<1>2. \A i \in n .. Len(q) : i \in n .. Len(q) + 1 /\ q2[i] = q[i]
  BY <1>1
<1>3. \A i \in n .. Len(q) + 1 : i \in n .. Len(q) \/ i = Len(q) + 1
  BY <1>1
<1>4. CASE \A m \in n .. Len(q) : ~IsRemoval(q[m], key)
  <2>1. now = t
    BY <1>4 DEF Told
  <2>2. ASSUME NEW m \in n .. Len(q) + 1, IsRemoval(q2[m], key) PROVE q2[m].title = t
    BY <1>1, <1>2, <1>3, <1>4, <2>1, <2>2
  <2>3. ASSUME \A m \in n .. Len(q) + 1 : ~IsRemoval(q2[m], key) PROVE new = t
    <3>1. Len(q) + 1 \in n .. Len(q) + 1
      BY <1>1
    <3>2. ~IsRemoval(c, key)
      BY <1>1, <2>3, <3>1
    <3> QED BY <2>1, <3>2
  <2> QED BY <1>1, <2>2, <2>3 DEF Told, q2
<1>5. CASE \E m \in n .. Len(q) : IsRemoval(q[m], key)
  <2>1. PICK k \in n .. Len(q) : IsRemoval(q[k], key)
    BY <1>5
  <2>2. ASSUME NEW m \in n .. Len(q) + 1, IsRemoval(q2[m], key),
               \A l \in n .. m - 1 : ~IsRemoval(q2[l], key)
        PROVE  q2[m].title = t
    <3>1. k \notin n .. m - 1
      BY <1>2, <2>1, <2>2
    <3>2. m \in n .. Len(q)
      BY <1>1, <3>1
    <3>3. \A l \in n .. m - 1 : l \in n .. Len(q)
      BY <1>1, <3>2
    <3>4. \A l \in n .. m - 1 : ~IsRemoval(q[l], key)
      BY <1>2, <2>2, <3>3
    <3> QED BY <1>2, <2>2, <3>2, <3>4 DEF Told
  <2>3. ~(\A m \in n .. Len(q) + 1 : ~IsRemoval(q2[m], key))
    BY <1>2, <2>1
  <2> QED BY <1>1, <2>2, <2>3 DEF Told, q2
<1> QED BY <1>4, <1>5

\* A notification just posted has the title it was posted with.
LEMMA ToldNow ==
  ASSUME NEW q \in Seq(Called), NEW n \in Nat, n > Len(q), NEW key, NEW t
  PROVE  Told(q, n, key, t, t)
<1>1. Len(q) \in Nat
  BY LenProperties
<1>2. \A m : m \notin n .. Len(q)
  BY <1>1
<1> QED BY <1>2 DEF Told

-----------------------------------------------------------------------------
(* The inductive invariant.                                                  *)

\* Without a listener there is nothing, and the LED is off.
AbsentInv ==
  listener # "connected" =>
    /\ shown = << >> /\ leds = << >> /\ latest = << >> /\ callbacks = << >> /\ intents = << >>
    /\ "died" \notin irregular => led = "off"

Regular == "unmatched" \notin irregular /\ "retitled" \notin irregular

\* Every notification has one title from its post to its removal.
TitleInv ==
  "retitled" \notin irregular =>
    \A n \in 1 .. Len(callbacks) :
      callbacks[n].kind = "posted" =>
        Told(callbacks, n + 1, callbacks[n].key, active[callbacks[n].key], callbacks[n].title)

\* The rule of an entry is one that the title of its notification matches.
RuleInv ==
  Regular =>
    \A i \in 1 .. Len(shown) :
      \E t \in Titles \cup {NoTitle} :
        Told(callbacks, 1, shown[i], active[shown[i]], t) /\ Matches(t, leds[i].str)

LatestInv == Regular => History(shown, leds, latest)

\* The power broadcasts in flight will bring the LED to the battery's state.
IntentInv == power.plugged /\ intents # << >> => intents[Len(intents)] # "disconnected"
PowerInv ==
  listener = "connected" /\ irregular = {} /\ shown = << >> =>
    /\ power.plugged /\ intents = << >> => led = PowerColor("off")
    /\ ~power.plugged => led = "off" \/ \E k \in 1 .. Len(intents) : intents[k] = "disconnected"

\* The LED shows the last entry.
LedInv ==
  listener = "connected" /\ irregular = {} /\ shown # << >> => led = leds[Len(leds)].color

\* The invariant, without the types.
ManagerInv ==
  /\ RulesNeedPackages /\ ListsAligned
  /\ AbsentInv /\ TitleInv /\ RuleInv /\ LatestInv /\ IntentInv /\ PowerInv /\ LedInv

-----------------------------------------------------------------------------
(* The actions, case by case.                                                *)

\* getDataFromSharedPref leaves a configuration, or nothing yet; loadConfig
\* leaves lines of a configuration.
LEMMA LoadIs ==
  ASSUME ManagerTypeOK
  PROVE  /\ Saved \in Configs \cup {NoConfig} /\ Loaded \in Seq(Lines)
         /\ LoadConfig => /\ saved' \in Configs \cup {NoConfig} /\ loaded' \in BOOLEAN
                          /\ rules' \in Seq(Lines)
<1>1. Saved \in Configs \cup {NoConfig}
  BY DEF ManagerTypeOK, Saved
<1>2. Loaded \in Seq(Lines)
  <2>1. CASE Saved \in {NoConfig, << >>}
    BY <2>1 DEF Loaded, ManagerTypeOK
  <2>2. CASE Saved \notin {NoConfig, << >>}
    <3>1. Saved \in Configs
      BY <1>1, <2>2
    <3>2. ParseConfig(Saved) \in Seq(Lines)
      BY <3>1, ParsedAre
    <3> QED BY <2>2, <3>2 DEF Loaded
  <2> QED BY <2>1, <2>2
<1>3. loaded \in BOOLEAN /\ decrypted \in BOOLEAN
  BY DEF ManagerTypeOK
<1> QED BY <1>1, <1>2, <1>3 DEF LoadConfig

\* A rule matched: every list grows.
MatchedPost(key, title) ==
  \E rule \in Lines :
    /\ rule.pkg = key.pkg /\ Matches(title, rule.str)
    /\ shown' = Append(shown, key) /\ leds' = Append(leds, rule) /\ led' = rule.color
    /\ latest' = Append(Without(latest, Of(key)), [key |-> key, color |-> rule.color])
    /\ irregular' = irregular \ {"died"}
\* The package has rules, and none matched.
UnmatchedPost(key) ==
  /\ shown' = Append(shown, key) /\ leds' = leds /\ led' = led /\ latest' = latest
  /\ irregular' = irregular \cup {"unmatched"}
\* Nothing changes.
Ignored == shown' = shown /\ leds' = leds /\ led' = led /\ latest' = latest /\ irregular' = irregular

\* onNotificationPosted, by what became of the notification.
LEMMA PostedIs ==
  ASSUME ManagerTypeOK, NEW key \in Keys, NEW title, OnNotificationPosted(key, title)
  PROVE  MatchedPost(key, title) \/ UnmatchedPost(key) \/ Ignored
<1>1. PICK rs \in Seq(Lines) : rs = Loaded
  BY LoadIs
<1>2. PICK m : m = Match(rs, key.pkg, title)
  OBVIOUS
<1> DEFINE listed == \E i \in DOMAIN rs : rs[i].pkg = key.pkg
<1>3. /\ shown' = IF listed THEN Append(shown, key) ELSE shown
      /\ IF listed /\ m = 0 THEN irregular' = irregular \cup {"unmatched"} ELSE Repairs(m # 0)
      /\ IF m = 0 THEN leds' = leds /\ led' = led /\ latest' = latest
         ELSE /\ leds' = Append(leds, rs[m])
              /\ led' = rs[m].color
              /\ latest' = Append(Without(latest, Of(key)),
                                  [key |-> key, color |-> rs[m].color])
  BY <1>1, <1>2 DEF OnNotificationPosted
<1>4. CASE m = 0
  <2>1. CASE listed
    BY <1>3, <1>4, <2>1 DEF UnmatchedPost
  <2>2. CASE ~listed
    BY <1>3, <1>4, <2>2 DEF Ignored, Repairs
  <2> QED BY <2>1, <2>2
<1>5. CASE m # 0
  <2>1. /\ m \in DOMAIN rs /\ rs[m] \in Lines
        /\ rs[m].pkg = key.pkg /\ Matches(title, rs[m].str)
    BY <1>2, <1>5, MatchIs
  <2>2. listed
    BY <2>1
  <2>3. irregular' = irregular \ {"died"}
    BY <1>3, <1>5 DEF Repairs
  <2> QED BY <1>3, <1>5, <2>1, <2>2, <2>3 DEF MatchedPost
<1> QED BY <1>4, <1>5

\* No entry of the package.
NotThere(key) ==
  /\ \A i \in DOMAIN shown : shown[i].pkg # key.pkg
  /\ shown' = shown /\ leds' = leds
  /\ led' = IF shown = << >> THEN PowerColor(led) ELSE led
  /\ irregular' = IF shown = << >> /\ power.plugged THEN irregular \ {"died"} ELSE irregular
\* Some rules are left.
SomeLeft(key, title) ==
  /\ shown' = Without(shown, Removed(key, title)) /\ leds' = Without(leds, Removed(key, title))
  /\ leds' # << >> /\ led' = leds'[Len(leds')].color
  /\ irregular' = irregular \ {"died"}
\* No rule is left: disableLed.
NoneLeft(key, title) ==
  /\ Without(leds, Removed(key, title)) = << >>
  /\ shown' = << >> /\ leds' = << >> /\ led' = PowerColor("off")
  /\ irregular' = irregular \ {"died"}

\* onNotificationRemoved, by what is left.
LEMMA RemovedIs ==
  ASSUME NEW key \in Keys, NEW title, OnNotificationRemoved(key, title)
  PROVE  /\ latest' = Without(latest, Of(key)) /\ saved' = saved /\ loaded' = loaded
         /\ rules' \in {rules, << >>}
         /\ NotThere(key) \/ SomeLeft(key, title) \/ NoneLeft(key, title)
<1>1. latest' = Without(latest, Of(key)) /\ saved' = saved /\ loaded' = loaded
  BY DEF OnNotificationRemoved
<1>4. rules' \in {rules, << >>}
  <2>1. CASE Occurrences(key.pkg) = {}
    BY <2>1 DEF OnNotificationRemoved
  <2>2. CASE Occurrences(key.pkg) # {}
    BY <2>2 DEF OnNotificationRemoved
  <2> QED BY <2>1, <2>2
<1>2. CASE Occurrences(key.pkg) = {}
  <2>1. \A i \in DOMAIN shown : shown[i].pkg # key.pkg
    BY <1>2 DEF Occurrences
  <2>2. /\ shown' = shown /\ leds' = leds
        /\ led' = IF shown = << >> THEN PowerColor(led) ELSE led
        /\ Repairs(Occurrences(key.pkg) # {} \/ (shown = << >> /\ power.plugged))
    BY <1>2 DEF OnNotificationRemoved, lists
  <2>3. irregular' = IF shown = << >> /\ power.plugged THEN irregular \ {"died"} ELSE irregular
    BY <1>2, <2>2 DEF Repairs
  <2> QED BY <1>1, <1>4, <2>1, <2>2, <2>3 DEF NotThere
<1>3. CASE Occurrences(key.pkg) # {}
  <2>1. irregular' = irregular \ {"died"}
    BY <1>3 DEF OnNotificationRemoved, Repairs
  <2>2. CASE Without(leds, Removed(key, title)) # << >>
    BY <1>1, <1>3, <1>4, <2>1, <2>2 DEF OnNotificationRemoved, SomeLeft
  <2>3. CASE Without(leds, Removed(key, title)) = << >>
    BY <1>1, <1>3, <1>4, <2>1, <2>3 DEF OnNotificationRemoved, NoneLeft
  <2> QED BY <2>2, <2>3
<1> QED BY <1>1, <1>2, <1>3, <1>4

Handled == callbacks' = Tail(callbacks) /\ UNCHANGED <<listener, world, intents>>

\* The callbacks, by kind.
LEMMA CallbackIs ==
  ASSUME ManagerTypeOK, Callback
  PROVE  /\ listener = "connected" /\ callbacks # << >>
         /\ \/ listener' = "crashed" /\ ProcessDies /\ saved' \in {saved, Saved}
            \/ \E key \in Keys, title \in Titles \cup {NoTitle} :
                 /\ Handled
                 /\ \/ /\ callbacks[1] = [kind |-> "posted", key |-> key, title |-> title]
                       /\ OnNotificationPosted(key, title)
                    \/ /\ callbacks[1] = [kind |-> "removed", key |-> key, title |-> title]
                       /\ OnNotificationRemoved(key, title)
<1>1. listener = "connected" /\ callbacks # << >>
  BY DEF Callback
<1>2. callbacks \in Seq(Called)
  BY DEF ManagerTypeOK, Called
<1>3. Head(callbacks) = callbacks[1] /\ Head(callbacks) \in Called
  BY <1>1, <1>2, HeadTailProperties
<1>4. PICK key \in Keys, title \in Titles \cup {NoTitle} :
        /\ callbacks[1] = [kind |-> callbacks[1].kind, key |-> key, title |-> title]
        /\ Head(callbacks).key = key /\ Head(callbacks).title = title
  BY <1>3 DEF Called
<1>5. Head(callbacks).kind = callbacks[1].kind
  BY <1>3
<1>6. \/ listener' = "crashed" /\ ProcessDies /\ saved' \in {saved, Saved}
      \/ /\ Head(callbacks).kind = "posted" /\ Handled /\ OnNotificationPosted(key, title)
      \/ /\ Head(callbacks).kind = "removed" /\ Handled /\ OnNotificationRemoved(key, title)
  BY <1>4 DEF Callback, Handled
<1> QED BY <1>1, <1>4, <1>5, <1>6

-----------------------------------------------------------------------------
(* Types.                                                                    *)

\* A queue or list that grew, or lost its head.
LEMMA Grows ==
  ASSUME NEW S, NEW s \in Seq(S), NEW x \in S
  PROVE  Append(s, x) \in Seq(S)
BY AppendProperties

LEMMA Shrinks ==
  ASSUME NEW S, NEW s \in Seq(S), s # << >>
  PROVE  Tail(s) \in Seq(S)
BY HeadTailProperties

\* The charging state's colour is a colour.
LEMMA PowerColorIs ==
  ASSUME NEW c \in Colors
  PROVE  PowerColor(c) \in Colors
BY DEF PowerColor, Colors

\* A handled callback leaves values of the right types.
LEMMA CallbackType ==
  ASSUME ManagerTypeOK, Callback
  PROVE  ManagerTypeOK'
<1> USE DEF ManagerTypeOK
<1>0. "off" \in Colors /\ led \in Colors
  BY DEF Colors
<1>1. CASE listener' = "crashed" /\ ProcessDies /\ saved' \in {saved, Saved}
  <2>1. irregular' \subseteq Irregularities
    BY <1>1 DEF ProcessDies, Irregularities
  <2>2. /\ shown' = << >> /\ leds' = << >> /\ loaded' = FALSE /\ rules' = << >>
        /\ callbacks' = << >> /\ intents' = << >> /\ latest' = << >>
        /\ UNCHANGED <<file, decrypted, power, active, led>>
    BY <1>1 DEF ProcessDies, InstanceEnds, world
  <2>3. saved' \in Configs \cup {NoConfig}
    BY <1>1, LoadIs
  <2> QED BY <1>1, <2>1, <2>2, <2>3, EmptySeq
<1>2. ASSUME NEW key \in Keys, NEW title \in Titles \cup {NoTitle}, Handled, callbacks # << >>,
             OnNotificationPosted(key, title)
      PROVE  ManagerTypeOK'
  <2>1. saved' \in Configs \cup {NoConfig} /\ loaded' \in BOOLEAN /\ rules' \in Seq(Lines)
    BY <1>2, LoadIs DEF OnNotificationPosted
  <2>2. callbacks' \in Seq(Called)
    <3>1. callbacks \in Seq(Called)
      BY DEF Called
    <3> QED BY <1>2, <3>1, Shrinks DEF Handled
  <2>3. shown' \in Seq(Keys) /\ leds' \in Seq(Lines) /\ led' \in Colors /\ latest' \in Seq(Entry)
    <3>0. latest \in Seq(Entry)
      BY DEF Entry
    <3>1. CASE MatchedPost(key, title)
      <4>1. PICK rule \in Lines :
              /\ shown' = Append(shown, key) /\ leds' = Append(leds, rule) /\ led' = rule.color
              /\ latest' = Append(Without(latest, Of(key)), [key |-> key, color |-> rule.color])
        BY <3>1 DEF MatchedPost
      <4>2. [key |-> key, color |-> rule.color] \in Entry /\ rule.color \in Colors
        BY DEF Entry, RuleColors, Colors
      <4>3. Without(latest, Of(key)) \in Seq(Entry)
        BY <3>0, WithoutIs
      <4> QED BY <4>1, <4>2, <4>3, Grows
    <3>2. CASE UnmatchedPost(key)
      BY <3>0, <3>2, Grows DEF UnmatchedPost
    <3>3. CASE Ignored
      BY <3>0, <3>3 DEF Ignored
    <3> QED BY <1>2, <3>1, <3>2, <3>3, PostedIs
  <2>4. irregular' \subseteq Irregularities
    BY <1>2, PostedIs DEF MatchedPost, UnmatchedPost, Ignored, Irregularities
  <2> QED BY <1>2, <2>1, <2>2, <2>3, <2>4 DEF Handled, world, Called, Entry
<1>3. ASSUME NEW key \in Keys, NEW title \in Titles \cup {NoTitle}, Handled, callbacks # << >>,
             OnNotificationRemoved(key, title)
      PROVE  ManagerTypeOK'
  <2>1. /\ latest' = Without(latest, Of(key)) /\ saved' = saved /\ loaded' = loaded
        /\ NotThere(key) \/ SomeLeft(key, title) \/ NoneLeft(key, title)
    BY <1>3, RemovedIs
  <2>6. rules' \in Seq(Lines)
    <3>1. rules' \in {rules, << >>}
      BY <1>3, RemovedIs
    <3> QED BY <3>1, EmptySeq
  <2>2. callbacks' \in Seq(Called)
    <3>1. callbacks \in Seq(Called)
      BY DEF Called
    <3> QED BY <1>3, <3>1, Shrinks DEF Handled
  <2>3. latest' \in Seq(Entry)
    <3>0. latest \in Seq(Entry)
      BY DEF Entry
    <3> QED BY <2>1, <3>0, WithoutIs
  <2>4. shown' \in Seq(Keys) /\ leds' \in Seq(Lines) /\ led' \in Colors
    <3>1. CASE NotThere(key)
      BY <1>0, <3>1, PowerColorIs DEF NotThere
    <3>2. CASE SomeLeft(key, title)
      <4>1. shown' \in Seq(Keys) /\ leds' \in Seq(Lines)
        BY <3>2, WithoutIs DEF SomeLeft
      <4>2. PICK ls \in Seq(Lines) : ls = leds'
        BY <4>1
      <4>3. ls # << >> /\ led' = ls[Len(ls)].color
        BY <3>2, <4>2 DEF SomeLeft
      <4>4. Len(ls) \in 1 .. Len(ls)
        BY <4>3, LenProperties, EmptySeq
      <4>5. ls[Len(ls)] \in Lines
        BY <4>4, ElementOfSeq
      <4> QED BY <4>1, <4>3, <4>5 DEF Colors, RuleColors
    <3>3. CASE NoneLeft(key, title)
      BY <1>0, <3>3, PowerColorIs, EmptySeq DEF NoneLeft
    <3> QED BY <2>1, <3>1, <3>2, <3>3
  <2>5. irregular' \subseteq Irregularities
    BY <2>1 DEF NotThere, SomeLeft, NoneLeft
  <2> QED BY <1>3, <2>1, <2>2, <2>3, <2>4, <2>5, <2>6 DEF Handled, world, Called, Entry
<1> QED BY <1>1, <1>2, <1>3, CallbackIs

\* So does every step.
LEMMA ManagerTypeNext == ManagerTypeOK /\ [ManagerNext]_managerVars => ManagerTypeOK'
<1> SUFFICES ASSUME ManagerTypeOK, [ManagerNext]_managerVars PROVE ManagerTypeOK'
  OBVIOUS
<1>0. "off" \in Colors /\ led \in Colors
  BY DEF Colors, ManagerTypeOK
<1>1. CASE OnListenerConnected
  <2>1. saved' \in Configs \cup {NoConfig} /\ loaded' \in BOOLEAN /\ rules' \in Seq(Lines)
    BY <1>1, LoadIs DEF OnListenerConnected
  <2>2. led' \in Colors
    BY <1>0, <1>1, PowerColorIs DEF OnListenerConnected
  <2>3. irregular' \subseteq Irregularities
    BY <1>1 DEF OnListenerConnected, Repairs, ManagerTypeOK
  <2> QED BY <1>1, <2>1, <2>2, <2>3 DEF OnListenerConnected, ManagerTypeOK, lists, world
<1>2. CASE OnListenerDisconnected
  <2>1. irregular' \subseteq Irregularities
    BY <1>2 DEF OnListenerDisconnected, Repairs, ManagerTypeOK
  <2> QED BY <1>0, <1>2, <2>1, EmptySeq
          DEF OnListenerDisconnected, InstanceEnds, ManagerTypeOK, world
<1>3. CASE Killed
  <2>1. irregular' \subseteq Irregularities
    BY <1>3 DEF Killed, ProcessDies, Irregularities, ManagerTypeOK
  <2> QED BY <1>3, <2>1, EmptySeq DEF Killed, ProcessDies, InstanceEnds, ManagerTypeOK, world
<1>4. CASE Rebound
  BY <1>4 DEF Rebound, ManagerTypeOK, lists, configuration
<1>5. CASE Callback
  BY <1>5, CallbackType
<1>6. CASE Intent
  <2>1. led' \in Colors
    BY <1>0, <1>6, PowerColorIs DEF Intent, PowerReceiver
  <2>2. irregular' \subseteq Irregularities
    BY <1>6 DEF Intent, Repairs, ManagerTypeOK
  <2>3. intents' \in Seq(Actions)
    BY <1>6, Shrinks DEF Intent, ManagerTypeOK
  <2> QED BY <1>6, <2>1, <2>2, <2>3 DEF Intent, ManagerTypeOK, lists, world
<1>7. ASSUME NEW key \in Keys, NEW title \in Titles \cup {NoTitle}, Post(key, title)
      PROVE  ManagerTypeOK'
  <2>1. callbacks' \in Seq(Called)
    <3>1. callbacks \in Seq(Called) /\ [kind |-> "posted", key |-> key, title |-> title] \in Called
      BY DEF ManagerTypeOK, Called
    <3> QED BY <1>7, <3>1, Grows DEF Post, Tell
  <2>2. irregular' \subseteq Irregularities
    BY <1>7 DEF Post, Irregularities, ManagerTypeOK
  <2>3. active' \in [Keys -> Titles \cup {NoTitle, Gone}]
    BY <1>7 DEF Post, ManagerTypeOK
  <2> QED BY <1>7, <2>1, <2>2, <2>3 DEF Post, ManagerTypeOK, Called, lists, configuration
<1>8. ASSUME NEW key \in Keys, Cancel(key) PROVE ManagerTypeOK'
  <2>1. callbacks' \in Seq(Called)
    <3>1. active[key] \in Titles \cup {NoTitle}
      BY <1>8 DEF Cancel, ManagerTypeOK
    <3>2. /\ callbacks \in Seq(Called)
          /\ [kind |-> "removed", key |-> key, title |-> active[key]] \in Called
      BY <3>1 DEF ManagerTypeOK, Called
    <3> QED BY <1>8, <3>2, Grows DEF Cancel, Tell
  <2>2. active' \in [Keys -> Titles \cup {NoTitle, Gone}]
    BY <1>8 DEF Cancel, ManagerTypeOK
  <2> QED BY <1>8, <2>1, <2>2 DEF Cancel, ManagerTypeOK, Called, lists, configuration
<1>9. ASSUME NEW p \in [plugged : BOOLEAN, full : BOOLEAN], NEW i \in Actions, SetPower(p, i)
      PROVE  ManagerTypeOK'
  <2>1. intents' \in Seq(Actions)
    <3>1. intents \in Seq(Actions) /\ Append(intents, i) \in Seq(Actions)
      BY Grows DEF ManagerTypeOK
    <3>2. intents' = Append(intents, i) \/ intents' = intents
      BY <1>9 DEF SetPower
    <3> QED BY <3>1, <3>2
  <2> QED BY <1>9, <2>1 DEF SetPower, ManagerTypeOK, lists, configuration
<1>10. CASE Plug
  <2>1. [power EXCEPT !.plugged = ~@] \in [plugged : BOOLEAN, full : BOOLEAN]
    BY DEF ManagerTypeOK
  <2>2. "disconnected" \in Actions /\ "connected" \in Actions
    BY DEF Actions
  <2> QED BY <1>9, <1>10, <2>1, <2>2 DEF Plug
<1>11. CASE BatteryLevel
  <2>1. [power EXCEPT !.full = ~@] \in [plugged : BOOLEAN, full : BOOLEAN]
    BY DEF ManagerTypeOK
  <2>2. "battery" \in Actions
    BY DEF Actions
  <2> QED BY <1>9, <1>11, <2>1, <2>2 DEF BatteryLevel
<1>12. CASE FileChanges
  BY <1>12 DEF FileChanges, ManagerTypeOK, lists
<1>13. CASE UNCHANGED managerVars
  BY <1>13 DEF managerVars, ManagerTypeOK
<1> QED BY <1>1, <1>2, <1>3, <1>4, <1>5, <1>6, <1>7, <1>8, <1>10, <1>11, <1>12, <1>13
        DEF ManagerNext

-----------------------------------------------------------------------------
(* The callbacks keep the invariant.                                         *)

\* The lists without some entries still agree.
LEMMA KeptIs ==
  ASSUME ManagerTypeOK, ListsAligned, "unmatched" \notin irregular, NEW R
  PROVE  \E e : LET sh == Without(shown, R)
                    ls == Without(leds, R)
                IN  /\ sh \in Seq(Keys) /\ Len(sh) \in Nat /\ Len(ls) = Len(sh)
                    /\ DOMAIN ls = 1 .. Len(sh)
                    /\ Embeds(e, Len(sh), (1 .. Len(shown)) \ R)
                    /\ \A k \in 1 .. Len(sh) : /\ e[k] \in (1 .. Len(shown)) \ R
                                               /\ sh[k] = shown[e[k]] /\ ls[k] = leds[e[k]]
<1>1. /\ shown \in Seq(Keys) /\ leds \in Seq(Lines) /\ Len(leds) = Len(shown)
      /\ DOMAIN shown = 1 .. Len(shown) /\ DOMAIN leds = 1 .. Len(leds)
  BY LenProperties DEF ManagerTypeOK, ListsAligned
<1> DEFINE T == (1 .. Len(shown)) \ R
<1> DEFINE e == InOrder(T)
<1> DEFINE sh == Without(shown, R)
<1> DEFINE ls == Without(leds, R)
<1>2. DOMAIN shown \ R = T /\ DOMAIN leds \ R = T
  BY <1>1
<1>3. /\ sh \in Seq(Keys) /\ Len(sh) = Cardinality(T) /\ Len(sh) \in Nat
      /\ Embeds(e, Len(sh), T) /\ \A k \in 1 .. Len(sh) : sh[k] = shown[e[k]]
  <2>0. shown \in Seq(Keys)
    BY <1>1
  <2>1. /\ sh \in Seq(Keys) /\ Len(sh) = Cardinality(DOMAIN shown \ R) /\ Len(sh) \in Nat
        /\ DOMAIN sh = 1 .. Len(sh)
        /\ Embeds(InOrder(DOMAIN shown \ R), Len(sh), DOMAIN shown \ R)
    BY <2>0, WithoutIs
  <2>2. \A k \in 1 .. Len(sh) : sh[k] = shown[InOrder(DOMAIN shown \ R)[k]]
    BY <2>1, WithoutAt
  <2> HIDE DEF T, sh
  <2> QED BY <1>2, <2>1, <2>2
<1>4. /\ Len(ls) = Cardinality(T) /\ DOMAIN ls = 1 .. Len(ls)
      /\ \A k \in 1 .. Len(ls) : ls[k] = leds[e[k]]
  <2>0. leds \in Seq(Lines)
    BY <1>1
  <2>1. Len(ls) = Cardinality(DOMAIN leds \ R) /\ DOMAIN ls = 1 .. Len(ls)
    BY <2>0, WithoutIs
  <2>2. \A k \in 1 .. Len(ls) : ls[k] = leds[InOrder(DOMAIN leds \ R)[k]]
    BY <2>1, WithoutAt
  <2> HIDE DEF T, ls
  <2> QED BY <1>2, <2>1, <2>2
<1>5. \A k \in 1 .. Len(sh) : e[k] \in T
  BY <1>3 DEF Embeds
<1> HIDE DEF T, e, sh, ls
<1>6. /\ sh \in Seq(Keys) /\ Len(sh) \in Nat /\ Len(ls) = Len(sh)
      /\ DOMAIN ls = 1 .. Len(sh)
      /\ Embeds(e, Len(sh), T)
      /\ \A k \in 1 .. Len(sh) : e[k] \in T /\ sh[k] = shown[e[k]] /\ ls[k] = leds[e[k]]
  BY <1>3, <1>4, <1>5
<1> QED BY <1>6 DEF T, sh, ls

\* The history without a notification.
LEMMA LatestWithout ==
  ASSUME ManagerTypeOK, NEW key
  PROVE  \E f : LET h == Without(latest, Of(key))
                IN  /\ h \in Seq(Entry) /\ Len(h) \in Nat
                    /\ Embeds(f, Len(h), Others(latest, key))
                    /\ \A k \in 1 .. Len(h) : h[k] = latest[f[k]]
<1>1. latest \in Seq(Entry) /\ DOMAIN latest = 1 .. Len(latest)
  BY LenProperties DEF ManagerTypeOK, Entry
<1>2. DOMAIN latest \ Of(key) = Others(latest, key)
  BY <1>1 DEF Of, Others
<1> DEFINE T == Others(latest, key)
<1> DEFINE h == Without(latest, Of(key))
<1>3. /\ h \in Seq(Entry) /\ Len(h) \in Nat /\ DOMAIN h = 1 .. Len(h)
      /\ Embeds(InOrder(DOMAIN latest \ Of(key)), Len(h), DOMAIN latest \ Of(key))
  BY <1>1, WithoutIs
<1>4. \A k \in 1 .. Len(h) : h[k] = latest[InOrder(DOMAIN latest \ Of(key))[k]]
  BY <1>3, WithoutAt
<1>5. /\ h \in Seq(Entry) /\ Len(h) \in Nat
      /\ Embeds(InOrder(T), Len(h), T)
      /\ \A k \in 1 .. Len(h) : h[k] = latest[InOrder(T)[k]]
  <2> HIDE DEF T, h
  <2> QED BY <1>2, <1>3, <1>4 DEF T
<1> HIDE DEF h
<1> QED BY <1>5 DEF h

\* The titles in flight, one callback later.
LEMMA TitleTail ==
  ASSUME ManagerTypeOK, TitleInv, callbacks # << >>, callbacks' = Tail(callbacks),
         active' = active, "retitled" \in irregular => "retitled" \in irregular'
  PROVE  TitleInv'
<1> SUFFICES ASSUME "retitled" \notin irregular', NEW n \in 1 .. Len(callbacks'),
                    callbacks'[n].kind = "posted"
             PROVE  Told(callbacks', n + 1, callbacks'[n].key, active'[callbacks'[n].key],
                         callbacks'[n].title)
  BY DEF TitleInv
<1>1. callbacks \in Seq(Called)
  BY DEF ManagerTypeOK, Called
<1>2. /\ Len(callbacks) \in Nat \ {0} /\ Len(callbacks') = Len(callbacks) - 1
      /\ \A i \in 1 .. Len(callbacks) - 1 : callbacks'[i] = callbacks[i + 1]
  BY <1>1, HeadTailProperties, LenProperties, EmptySeq
<1>3. /\ n + 1 \in 1 .. Len(callbacks) /\ n + 1 \in Nat \ {0}
      /\ callbacks'[n] = callbacks[n + 1]
  BY <1>2
<1>4. PICK c : c = callbacks[n + 1]
  OBVIOUS
<1>5. Told(callbacks, (n + 1) + 1, c.key, active[c.key], c.title)
  BY <1>3, <1>4 DEF TitleInv
<1>6. Told(Tail(callbacks), n + 1, c.key, active[c.key], c.title)
  BY <1>1, <1>3, <1>5, ToldTail
<1> QED BY <1>3, <1>4, <1>6

\* A handled callback, of a kind that is not the entry's removal, leaves the
\* rule of an entry matching.
LEMMA RuleTail ==
  ASSUME ManagerTypeOK, RuleInv, Regular, callbacks # << >>,
         NEW i \in 1 .. Len(shown), ~IsRemoval(callbacks[1], shown[i])
  PROVE  \E t \in Titles \cup {NoTitle} :
           Told(Tail(callbacks), 1, shown[i], active[shown[i]], t) /\ Matches(t, leds[i].str)
<1>1. callbacks \in Seq(Called)
  BY DEF ManagerTypeOK, Called
<1>2. PICK t \in Titles \cup {NoTitle} :
        Told(callbacks, 1, shown[i], active[shown[i]], t) /\ Matches(t, leds[i].str)
  BY DEF RuleInv
<1>3. Told(Tail(callbacks), 1, shown[i], active[shown[i]], t)
  BY <1>1, <1>2, ToldHead
<1> QED BY <1>2, <1>3

\* onNotificationPosted keeps the invariant.
LEMMA PostedInv ==
  ASSUME ManagerTypeOK, ManagerInv, listener = "connected", callbacks # << >>,
         NEW key \in Keys, NEW title \in Titles \cup {NoTitle}, Handled,
         callbacks[1] = [kind |-> "posted", key |-> key, title |-> title],
         OnNotificationPosted(key, title)
  PROVE  ManagerInv'
<1>0. /\ listener' = "connected" /\ power' = power /\ active' = active /\ intents' = intents
      /\ callbacks' = Tail(callbacks)
  BY DEF Handled, world
<1>1. MatchedPost(key, title) \/ UnmatchedPost(key) \/ Ignored
  BY PostedIs
<1>2. callbacks \in Seq(Called) /\ shown \in Seq(Keys) /\ leds \in Seq(Lines) /\ latest \in Seq(Entry)
  BY DEF ManagerTypeOK, Called, Entry
<1>3. /\ Len(callbacks) \in Nat \ {0} /\ Len(shown) \in Nat /\ Len(leds) \in Nat
      /\ DOMAIN leds = 1 .. Len(leds)
  BY <1>2, LenProperties, EmptySeq
<1>4. AbsentInv' /\ IntentInv'
  BY <1>0 DEF ManagerInv, AbsentInv, IntentInv
<1>5. TitleInv'
  <2>1. "retitled" \in irregular => "retitled" \in irregular'
    BY <1>1 DEF MatchedPost, UnmatchedPost, Ignored
  <2> QED BY <1>0, <2>1, TitleTail DEF ManagerInv
<1>6. \A i \in 1 .. Len(shown) : ~IsRemoval(callbacks[1], shown[i])
  BY DEF IsRemoval
<1>7. CASE MatchedPost(key, title)
  <2>1. PICK rule \in Lines :
          /\ rule.pkg = key.pkg /\ Matches(title, rule.str)
          /\ shown' = Append(shown, key) /\ leds' = Append(leds, rule) /\ led' = rule.color
          /\ latest' = Append(Without(latest, Of(key)), [key |-> key, color |-> rule.color])
          /\ irregular' = irregular \ {"died"}
    BY <1>7 DEF MatchedPost
  <2>2. /\ Len(shown') = Len(shown) + 1 /\ shown'[Len(shown) + 1] = key
        /\ \A i \in 1 .. Len(shown) : shown'[i] = shown[i]
    BY <1>2, <2>1, AppendProperties
  <2>3. /\ Len(leds') = Len(leds) + 1 /\ leds'[Len(leds) + 1] = rule
        /\ \A i \in 1 .. Len(leds) : leds'[i] = leds[i]
        /\ DOMAIN leds' = 1 .. Len(leds) + 1
    BY <1>2, <2>1, AppendProperties
  <2>4. /\ "unmatched" \notin irregular' => "unmatched" \notin irregular
        /\ "retitled" \notin irregular' => "retitled" \notin irregular
    BY <2>1
  <2>5. RulesNeedPackages'
    BY <1>3, <2>2, <2>3 DEF ManagerInv, RulesNeedPackages
  <2>6. ListsAligned'
    <3>1. SUFFICES ASSUME "unmatched" \notin irregular'
                   PROVE  /\ Len(leds') = Len(shown')
                          /\ \A i \in DOMAIN leds' : leds'[i].pkg = shown'[i].pkg
      BY DEF ListsAligned
    <3>2. Len(leds) = Len(shown) /\ \A i \in 1 .. Len(leds) : leds[i].pkg = shown[i].pkg
      BY <1>3, <2>4, <3>1 DEF ManagerInv, ListsAligned
    <3>3. \A i \in 1 .. Len(leds) + 1 : i \in 1 .. Len(leds) \/ i = Len(leds) + 1
      BY <1>3
    <3> QED BY <2>1, <2>2, <2>3, <3>2, <3>3
  <2>7. RuleInv'
    <3>1. SUFFICES ASSUME Regular', NEW i \in 1 .. Len(shown')
                   PROVE  \E t \in Titles \cup {NoTitle} :
                            /\ Told(callbacks', 1, shown'[i], active'[shown'[i]], t)
                            /\ Matches(t, leds'[i].str)
      BY DEF RuleInv, Matches, TitleHas
    <3>2. Regular /\ Len(leds) = Len(shown)
      BY <2>4, <3>1 DEF Regular, ManagerInv, ListsAligned
    <3>3. CASE i \in 1 .. Len(shown)
      <4>1. shown'[i] = shown[i] /\ leds'[i] = leds[i]
        BY <2>2, <2>3, <3>2, <3>3
      <4>2. \E t \in Titles \cup {NoTitle} :
              Told(Tail(callbacks), 1, shown[i], active[shown[i]], t) /\ Matches(t, leds[i].str)
        BY <1>6, <3>2, <3>3, RuleTail DEF ManagerInv
      <4> QED BY <1>0, <4>1, <4>2
    <3>4. CASE i \notin 1 .. Len(shown)
      <4>1. i = Len(shown) + 1
        BY <1>3, <2>2, <3>4
      <4>2. shown'[i] = key /\ leds'[i] = rule
        BY <2>2, <2>3, <3>2, <4>1
      <4>3. Told(callbacks, 1 + 1, key, active[key], title)
        <5>1. 1 \in 1 .. Len(callbacks)
          BY <1>3
        <5> QED BY <3>2, <5>1 DEF ManagerInv, TitleInv, Regular
      <4>4. Told(Tail(callbacks), 1, key, active[key], title)
        BY <1>2, <4>3, ToldTail
      <4> QED BY <1>0, <2>1, <4>2, <4>4
    <3> QED BY <3>3, <3>4
  <2>8. LatestInv'
    <3>1. SUFFICES ASSUME Regular' PROVE History(shown', leds', latest')
      BY DEF LatestInv
    <3>2. Regular /\ Len(leds) = Len(shown) /\ History(shown, leds, latest)
      BY <2>4, <3>1 DEF Regular, ManagerInv, ListsAligned, LatestInv
    <3> DEFINE h == Without(latest, Of(key))
    <3>3. PICK f : /\ h \in Seq(Entry) /\ Len(h) \in Nat
                   /\ Embeds(f, Len(h), Others(latest, key))
                   /\ \A k \in 1 .. Len(h) : h[k] = latest[f[k]]
      BY LatestWithout
    <3>4. latest' = Append(h, [key |-> key, color |-> rule.color])
      BY <2>1
    <3> HIDE DEF h
    <3>5. History(Append(shown, key), Append(leds, rule),
                  Append(h, [key |-> key, color |-> rule.color]))
      BY <1>2, <3>2, <3>3, HistoryPosted
    <3> QED BY <2>1, <3>4, <3>5
  <2>9. PowerInv'
    <3>1. shown' # << >>
      BY <1>3, <2>2, EmptySeq
    <3> QED BY <3>1 DEF PowerInv
  <2>10. LedInv'
    BY <2>1, <2>3 DEF LedInv
  <2> QED BY <1>4, <1>5, <2>5, <2>6, <2>7, <2>8, <2>9, <2>10 DEF ManagerInv
<1>8. CASE UnmatchedPost(key)
  <2>1. /\ shown' = Append(shown, key) /\ leds' = leds
        /\ "unmatched" \in irregular'
    BY <1>8 DEF UnmatchedPost
  <2>2. RulesNeedPackages'
    <3>1. Len(shown') = Len(shown) + 1
      BY <1>2, <2>1, AppendProperties
    <3> QED BY <1>3, <2>1, <3>1 DEF ManagerInv, RulesNeedPackages
  <2>3. ListsAligned' /\ RuleInv' /\ LatestInv' /\ PowerInv' /\ LedInv'
    <3>1. ~Regular' /\ irregular' # {}
      BY <2>1 DEF Regular
    <3> QED BY <2>1, <3>1 DEF ListsAligned, RuleInv, LatestInv, PowerInv, LedInv
  <2> QED BY <1>4, <1>5, <2>2, <2>3 DEF ManagerInv
<1>9. CASE Ignored
  <2>1. shown' = shown /\ leds' = leds /\ led' = led /\ latest' = latest /\ irregular' = irregular
    BY <1>9 DEF Ignored
  <2>2. RulesNeedPackages' /\ ListsAligned' /\ LatestInv'
    BY <2>1 DEF ManagerInv, RulesNeedPackages, ListsAligned, LatestInv, Regular
  <2>3. RuleInv'
    <3>1. Regular' <=> Regular
      BY <2>1 DEF Regular
    <3>2. SUFFICES ASSUME Regular, NEW i \in 1 .. Len(shown)
                   PROVE  \E t \in Titles \cup {NoTitle} :
                            /\ Told(callbacks', 1, shown'[i], active'[shown'[i]], t)
                            /\ Matches(t, leds'[i].str)
      BY <2>1, <3>1 DEF RuleInv, Matches, TitleHas
    <3>3. \E t \in Titles \cup {NoTitle} :
            Told(Tail(callbacks), 1, shown[i], active[shown[i]], t) /\ Matches(t, leds[i].str)
      BY <1>6, <3>2, RuleTail DEF ManagerInv
    <3> QED BY <1>0, <2>1, <3>3
  <2>4. PowerInv' /\ LedInv'
    BY <1>0, <2>1 DEF ManagerInv, PowerInv, LedInv, PowerColor
  <2> QED BY <1>4, <1>5, <2>2, <2>3, <2>4 DEF ManagerInv
<1> QED BY <1>1, <1>7, <1>8, <1>9

\* While everything is regular, the entries that onNotificationRemoved removes
\* are those of the notification.
LEMMA RemovesAll ==
  ASSUME ManagerTypeOK, ManagerInv, Regular, callbacks # << >>,
         NEW key \in Keys, NEW title \in Titles \cup {NoTitle},
         callbacks[1] = [kind |-> "removed", key |-> key, title |-> title],
         NEW i \in 1 .. Len(shown)
  PROVE  i \in Removed(key, title) <=> shown[i] = key
<1>1. shown \in Seq(Keys) /\ DOMAIN shown = 1 .. Len(shown) /\ shown[i] \in Keys
  BY LenProperties, ElementOfSeq DEF ManagerTypeOK
<1>2. ASSUME i \in Removed(key, title) PROVE shown[i] = key
  BY <1>1, <1>2, LedAssumption DEF Removed, Occurrences
<1>3. ASSUME shown[i] = key PROVE i \in Removed(key, title)
  <2>1. PICK t \in Titles \cup {NoTitle} :
          Told(callbacks, 1, key, active[key], t) /\ Matches(t, leds[i].str)
    BY <1>3 DEF ManagerInv, RuleInv
  <2>2. callbacks \in Seq(Called) /\ IsRemoval(callbacks[1], key) /\ callbacks[1].title = title
    BY DEF ManagerTypeOK, Called, IsRemoval
  <2>3. t = title
    BY <2>1, <2>2, ToldHead
  <2> QED BY <1>1, <1>3, <2>1, <2>3 DEF Removed, Occurrences, Matches
<1> QED BY <1>2, <1>3

\* onNotificationRemoved keeps the invariant.
LEMMA RemovedInv ==
  ASSUME ManagerTypeOK, ManagerInv, listener = "connected", callbacks # << >>,
         NEW key \in Keys, NEW title \in Titles \cup {NoTitle}, Handled,
         callbacks[1] = [kind |-> "removed", key |-> key, title |-> title],
         OnNotificationRemoved(key, title)
  PROVE  ManagerInv'
<1>0. /\ listener' = "connected" /\ power' = power /\ active' = active /\ intents' = intents
      /\ callbacks' = Tail(callbacks)
  BY DEF Handled, world
<1>1. /\ latest' = Without(latest, Of(key))
      /\ NotThere(key) \/ SomeLeft(key, title) \/ NoneLeft(key, title)
  BY RemovedIs
<1>2. callbacks \in Seq(Called) /\ shown \in Seq(Keys) /\ leds \in Seq(Lines) /\ latest \in Seq(Entry)
  BY DEF ManagerTypeOK, Called, Entry
<1>3. /\ Len(callbacks) \in Nat \ {0} /\ Len(shown) \in Nat /\ Len(leds) \in Nat
      /\ DOMAIN leds = 1 .. Len(leds) /\ DOMAIN shown = 1 .. Len(shown)
  BY <1>2, LenProperties, EmptySeq
<1>4. AbsentInv' /\ IntentInv'
  BY <1>0 DEF ManagerInv, AbsentInv, IntentInv
<1>5. /\ "retitled" \in irregular => "retitled" \in irregular'
      /\ "unmatched" \in irregular => "unmatched" \in irregular'
      /\ Regular' => Regular
  BY <1>1 DEF NotThere, SomeLeft, NoneLeft, Regular
<1>6. TitleInv'
  BY <1>0, <1>5, TitleTail DEF ManagerInv
<1>7. PICK f : LET h == Without(latest, Of(key))
               IN  /\ h \in Seq(Entry) /\ Len(h) \in Nat
                   /\ Embeds(f, Len(h), Others(latest, key))
                   /\ \A k \in 1 .. Len(h) : h[k] = latest[f[k]]
  BY LatestWithout
<1>8. PICK h2 \in Seq(Entry) : /\ latest' = h2
                               /\ Embeds(f, Len(h2), Others(latest, key))
                               /\ \A k \in 1 .. Len(h2) : h2[k] = latest[f[k]]
  BY <1>1, <1>7
<1>9. CASE NotThere(key)
  <2>1. /\ \A i \in 1 .. Len(shown) : shown[i] # key
        /\ shown' = shown /\ leds' = leds
        /\ led' = IF shown = << >> THEN PowerColor(led) ELSE led
        /\ irregular' = IF shown = << >> /\ power.plugged THEN irregular \ {"died"} ELSE irregular
    BY <1>3, <1>9 DEF NotThere
  <2>2. RulesNeedPackages' /\ ListsAligned'
    BY <1>5, <2>1 DEF ManagerInv, RulesNeedPackages, ListsAligned
  <2>3. RuleInv'
    <3>1. SUFFICES ASSUME Regular, NEW i \in 1 .. Len(shown)
                   PROVE  \E t \in Titles \cup {NoTitle} :
                            /\ Told(callbacks', 1, shown'[i], active'[shown'[i]], t)
                            /\ Matches(t, leds'[i].str)
      BY <1>5, <2>1 DEF RuleInv, Matches, TitleHas
    <3>2. ~IsRemoval(callbacks[1], shown[i])
      BY <2>1 DEF IsRemoval
    <3>3. \E t \in Titles \cup {NoTitle} :
            Told(Tail(callbacks), 1, shown[i], active[shown[i]], t) /\ Matches(t, leds[i].str)
      BY <3>1, <3>2, RuleTail DEF ManagerInv
    <3> QED BY <1>0, <2>1, <3>3
  <2>4. LatestInv'
    <3>1. SUFFICES ASSUME Regular PROVE History(shown, leds, h2)
      BY <1>5, <1>8, <2>1 DEF LatestInv
    <3>2. History(shown, leds, latest)
      BY <3>1 DEF ManagerInv, LatestInv
    <3> DEFINE e == [i \in 1 .. Len(shown) |-> i]
    <3>3. OtherKeys(shown, key) = 1 .. Len(shown)
      BY <2>1 DEF OtherKeys
    <3>4. Embeds(e, Len(shown), 1 .. Len(shown)) /\ \A k \in 1 .. Len(shown) : e[k] = k
      BY <1>3 DEF Embeds
    <3> HIDE DEF e
    <3>5. /\ Embeds(e, Len(shown), OtherKeys(shown, key))
          /\ \A k \in 1 .. Len(shown) : shown[k] = shown[e[k]] /\ leds[k] = leds[e[k]]
      BY <3>3, <3>4
    <3> QED BY <1>2, <1>8, <3>2, <3>5, HistoryEmbeds
  <2>5. PowerInv'
    <3>1. SUFFICES ASSUME irregular' = {}, shown = << >>
                   PROVE  /\ power.plugged /\ intents = << >> => led' = PowerColor("off")
                          /\ ~power.plugged => \/ led' = "off"
                                               \/ \E k \in 1 .. Len(intents) : intents[k] = "disconnected"
      BY <1>0, <2>1 DEF PowerInv, PowerColor
    <3>2. led' = PowerColor(led)
      BY <2>1, <3>1
    <3>3. CASE power.plugged
      BY <3>2, <3>3 DEF PowerColor
    <3>4. CASE ~power.plugged
      <4>1. led' = led /\ irregular = {}
        BY <2>1, <3>1, <3>2, <3>4 DEF PowerColor
      <4> QED BY <3>1, <3>4, <4>1 DEF ManagerInv, PowerInv
    <3> QED BY <3>3, <3>4
  <2>6. LedInv'
    BY <2>1 DEF ManagerInv, LedInv
  <2> QED BY <1>4, <1>6, <2>2, <2>3, <2>4, <2>5, <2>6 DEF ManagerInv
<1> DEFINE R == Removed(key, title)
<1>10. ASSUME SomeLeft(key, title) \/ NoneLeft(key, title), "unmatched" \notin irregular
       PROVE  \E e : /\ shown' \in Seq(Keys) /\ Len(shown') \in Nat /\ Len(leds') = Len(shown')
                     /\ DOMAIN leds' = 1 .. Len(shown')
                     /\ Embeds(e, Len(shown'), (1 .. Len(shown)) \ R)
                     /\ \A k \in 1 .. Len(shown') : /\ e[k] \in (1 .. Len(shown)) \ R
                                                   /\ shown'[k] = shown[e[k]] /\ leds'[k] = leds[e[k]]
  <2>1. PICK e : LET sh == Without(shown, R)
                     ls == Without(leds, R)
                 IN  /\ sh \in Seq(Keys) /\ Len(sh) \in Nat /\ Len(ls) = Len(sh)
                     /\ DOMAIN ls = 1 .. Len(sh)
                     /\ Embeds(e, Len(sh), (1 .. Len(shown)) \ R)
                     /\ \A k \in 1 .. Len(sh) : /\ e[k] \in (1 .. Len(shown)) \ R
                                                /\ sh[k] = shown[e[k]] /\ ls[k] = leds[e[k]]
    <3> HIDE DEF R
    <3> QED BY <1>10, KeptIs DEF ManagerInv
  <2>2. CASE SomeLeft(key, title)
    <3>1. shown' = Without(shown, R) /\ leds' = Without(leds, R)
      BY <2>2 DEF SomeLeft
    <3> HIDE DEF R
    <3> QED BY <2>1, <3>1
  <2>3. CASE NoneLeft(key, title)
    <3>1. Without(leds, R) = << >> /\ shown' = << >> /\ leds' = << >>
      BY <2>3 DEF NoneLeft
    <3>2. Len(Without(shown, R)) = 0 /\ Without(shown, R) \in Seq(Keys)
      <4> HIDE DEF R
      <4> QED BY <2>1, <3>1, EmptySeq
    <3>3. shown' = Without(shown, R) /\ leds' = Without(leds, R)
      <4> HIDE DEF R
      <4> QED BY <3>1, <3>2, EmptySeq
    <3> HIDE DEF R
    <3> QED BY <2>1, <3>3
  <2> QED BY <1>10, <2>2, <2>3
<1>11. CASE SomeLeft(key, title) \/ NoneLeft(key, title)
  <2>1. RulesNeedPackages'
    <3>1. CASE SomeLeft(key, title)
      <4>1. Len(leds') = Cardinality(DOMAIN leds \ R) /\ Len(shown') = Cardinality(DOMAIN shown \ R)
        BY <1>2, <3>1, WithoutIs DEF SomeLeft
      <4>2. DOMAIN leds \ R \in SUBSET (DOMAIN shown \ R)
        <5>1. \A j \in 1 .. Len(leds) : j \in 1 .. Len(shown)
          BY <1>3 DEF ManagerInv, RulesNeedPackages
        <5> HIDE DEF R
        <5> QED BY <1>3, <5>1
      <4>3. IsFiniteSet(DOMAIN shown \ R)
        <5>1. IsFiniteSet(1 .. Len(shown))
          BY <1>3, FS_Interval
        <5> QED BY <1>3, <5>1, FS_Subset
      <4>4. Cardinality(DOMAIN leds \ R) <= Cardinality(DOMAIN shown \ R)
        <5> HIDE DEF R
        <5> QED BY <4>2, <4>3, FS_Subset
      <4> QED BY <4>1, <4>4 DEF RulesNeedPackages
    <3>2. CASE NoneLeft(key, title)
      BY <3>2, EmptySeq DEF NoneLeft, RulesNeedPackages
    <3> QED BY <1>11, <3>1, <3>2
  <2>2. ListsAligned'
    <3>1. SUFFICES ASSUME "unmatched" \notin irregular
                   PROVE  /\ Len(leds') = Len(shown')
                          /\ \A i \in DOMAIN leds' : leds'[i].pkg = shown'[i].pkg
      BY <1>5 DEF ListsAligned
    <3>2. PICK e : /\ Len(leds') = Len(shown') /\ DOMAIN leds' = 1 .. Len(shown')
                   /\ \A k \in 1 .. Len(shown') : /\ e[k] \in 1 .. Len(shown)
                                                 /\ shown'[k] = shown[e[k]] /\ leds'[k] = leds[e[k]]
      <4> HIDE DEF R
      <4> QED BY <1>10, <1>11, <3>1
    <3>3. \A i \in 1 .. Len(shown) : leds[i].pkg = shown[i].pkg
      BY <1>3, <3>1 DEF ManagerInv, ListsAligned
    <3> QED BY <3>2, <3>3
  <2>3. RuleInv'
    <3>1. SUFFICES ASSUME Regular, NEW i \in 1 .. Len(shown')
                   PROVE  \E t \in Titles \cup {NoTitle} :
                            /\ Told(callbacks', 1, shown'[i], active'[shown'[i]], t)
                            /\ Matches(t, leds'[i].str)
      BY <1>5 DEF RuleInv, Matches, TitleHas
    <3>2. PICK k \in (1 .. Len(shown)) \ R : shown'[i] = shown[k] /\ leds'[i] = leds[k]
      <4> HIDE DEF R
      <4> QED BY <1>10, <1>11, <3>1 DEF Regular
    <3>3. ~IsRemoval(callbacks[1], shown[k])
      BY <3>1, <3>2, RemovesAll DEF IsRemoval
    <3>4. \E t \in Titles \cup {NoTitle} :
            Told(Tail(callbacks), 1, shown[k], active[shown[k]], t) /\ Matches(t, leds[k].str)
      BY <3>1, <3>3, RuleTail DEF ManagerInv
    <3> QED BY <1>0, <3>2, <3>4
  <2>4. LatestInv'
    <3>1. SUFFICES ASSUME Regular PROVE History(shown', leds', latest')
      BY <1>5 DEF LatestInv
    <3>2. History(shown, leds, latest)
      BY <3>1 DEF ManagerInv, LatestInv
    <3>3. OtherKeys(shown, key) = (1 .. Len(shown)) \ R
      <4>1. \A i \in 1 .. Len(shown) : i \in R <=> shown[i] = key
        BY <3>1, RemovesAll
      <4> HIDE DEF R
      <4> QED BY <4>1, Zenon DEF OtherKeys
    <3>4. PICK e : /\ shown' \in Seq(Keys)
                   /\ Embeds(e, Len(shown'), (1 .. Len(shown)) \ R)
                   /\ \A k \in 1 .. Len(shown') : shown'[k] = shown[e[k]] /\ leds'[k] = leds[e[k]]
      <4> HIDE DEF R
      <4> QED BY <1>10, <1>11, <3>1 DEF Regular
    <3>5. PICK sh2 \in Seq(Keys) : shown' = sh2
      BY <3>4
    <3>6. PICK ls2 : leds' = ls2
      OBVIOUS
    <3>7. /\ Embeds(e, Len(sh2), OtherKeys(shown, key))
          /\ \A k \in 1 .. Len(sh2) : sh2[k] = shown[e[k]] /\ ls2[k] = leds[e[k]]
      BY <3>3, <3>4, <3>5, <3>6
    <3>8. History(sh2, ls2, h2)
      <4> HIDE DEF R
      <4> QED BY <1>2, <1>8, <3>2, <3>7, HistoryEmbeds
    <3> QED BY <1>8, <3>5, <3>6, <3>8
  <2>5. PowerInv' /\ LedInv'
    <3>1. CASE SomeLeft(key, title)
      <4>1. shown' # << >>
        <5>1. PICK ls \in Seq(Lines) : ls = leds'
          BY <1>2, <3>1, WithoutIs DEF SomeLeft
        <5>2. ls # << >> /\ Len(ls) \in Nat
          BY <3>1, <5>1, LenProperties DEF SomeLeft
        <5>3. Len(ls) # 0
          BY <5>2, EmptySeq
        <5>4. ~(Len(leds') <= Len(<< >>))
          BY <5>1, <5>2, <5>3, EmptySeq
        <5> QED BY <2>1, <5>4 DEF RulesNeedPackages
      <4>2. led' = leds'[Len(leds')].color
        BY <3>1 DEF SomeLeft
      <4> QED BY <4>1, <4>2 DEF PowerInv, LedInv
    <3>2. CASE NoneLeft(key, title)
      BY <1>0, <3>2 DEF NoneLeft, PowerInv, LedInv, PowerColor
    <3> QED BY <1>11, <3>1, <3>2
  <2> QED BY <1>4, <1>6, <2>1, <2>2, <2>3, <2>4, <2>5 DEF ManagerInv
<1> QED BY <1>1, <1>9, <1>11

-----------------------------------------------------------------------------
(* The other actions, and the theorems.                                      *)

\* Without an instance there is nothing to be wrong.
LEMMA EndsInv ==
  ASSUME InstanceEnds, listener' # "connected", "died" \in irregular' \/ led' = "off"
  PROVE  ManagerInv'
<1>1. /\ shown' = << >> /\ leds' = << >> /\ callbacks' = << >> /\ intents' = << >>
      /\ latest' = << >>
  BY DEF InstanceEnds
<1>2. Len(<< >>) = 0 /\ DOMAIN << >> = {} /\ \A i : i \notin 1 .. 0
  BY EmptySeq
<1>3. RulesNeedPackages' /\ ListsAligned'
  BY <1>1, <1>2 DEF RulesNeedPackages, ListsAligned
<1>4. TitleInv' /\ RuleInv'
  BY <1>1, <1>2 DEF TitleInv, RuleInv
<1>5. LatestInv'
  BY <1>1, HistoryEmpty DEF LatestInv
<1>6. AbsentInv' /\ IntentInv' /\ PowerInv' /\ LedInv'
  BY <1>1 DEF AbsentInv, IntentInv, PowerInv, LedInv
<1> QED BY <1>3, <1>4, <1>5, <1>6 DEF ManagerInv

\* What a step that leaves the lists and the titles alone keeps.
LEMMA ListsKept ==
  ASSUME ManagerInv, UNCHANGED <<shown, leds, latest, callbacks, active>>,
         "unmatched" \in irregular => "unmatched" \in irregular',
         "retitled" \in irregular => "retitled" \in irregular'
  PROVE  RulesNeedPackages' /\ ListsAligned' /\ TitleInv' /\ RuleInv' /\ LatestInv'
<1>1. RulesNeedPackages' /\ ListsAligned'
  BY DEF ManagerInv, RulesNeedPackages, ListsAligned
<1>2. TitleInv'
  BY DEF ManagerInv, TitleInv
<1>3. Regular' => Regular
  BY DEF Regular
<1>4. RuleInv'
  BY <1>3 DEF ManagerInv, RuleInv, Matches, TitleHas
<1>5. LatestInv'
  BY <1>3 DEF ManagerInv, LatestInv
<1> QED BY <1>1, <1>2, <1>4, <1>5

\* A step of the notification manager: one more callback, and a title that
\* changes.
LEMMA TellInv ==
  ASSUME ManagerTypeOK, ManagerInv,
         NEW c \in Called, NEW new,
         active' = [active EXCEPT ![c.key] = new],
         c.kind = "posted" => new = c.title,
         c.kind = "removed" => active[c.key] = c.title,
         IF listener = "connected" THEN callbacks' = Append(callbacks, c) ELSE callbacks' = callbacks,
         UNCHANGED <<listener, shown, leds, led, power, intents, latest>>,
         irregular' = irregular \/ irregular' = irregular \cup {"retitled"},
         c.kind = "posted" /\ "retitled" \notin irregular' => active[c.key] \in {Gone, c.title}
  PROVE  ManagerInv'
<1>1. /\ "unmatched" \in irregular => "unmatched" \in irregular'
      /\ "retitled" \in irregular => "retitled" \in irregular'
      /\ "died" \in irregular <=> "died" \in irregular'
      /\ irregular' = {} => irregular = {}
      /\ Regular' => Regular
  BY DEF Regular
<1>2. RulesNeedPackages' /\ ListsAligned' /\ LatestInv' /\ IntentInv'
  BY <1>1 DEF ManagerInv, RulesNeedPackages, ListsAligned, LatestInv, IntentInv
<1>3. PowerInv' /\ LedInv'
  BY <1>1 DEF ManagerInv, PowerInv, LedInv, PowerColor
<1>4. AbsentInv'
  BY <1>1 DEF ManagerInv, AbsentInv
<1>5. CASE listener # "connected"
  <2>1. callbacks' = << >> /\ shown' = << >>
    BY <1>5 DEF ManagerInv, AbsentInv
  <2>2. Len(<< >>) = 0 /\ \A i : i \notin 1 .. 0
    BY EmptySeq
  <2>3. TitleInv' /\ RuleInv'
    BY <2>1, <2>2 DEF TitleInv, RuleInv
  <2> QED BY <1>2, <1>3, <1>4, <2>3 DEF ManagerInv
<1>6. CASE listener = "connected"
  <2>0. callbacks' = Append(callbacks, c)
    BY <1>6
  <2>1. callbacks \in Seq(Called) /\ shown \in Seq(Keys) /\ Len(callbacks) \in Nat
    BY LenProperties DEF ManagerTypeOK, Called
  <2>2. /\ Len(callbacks') = Len(callbacks) + 1 /\ callbacks'[Len(callbacks) + 1] = c
        /\ \A n \in 1 .. Len(callbacks) : callbacks'[n] = callbacks[n]
    BY <2>0, <2>1, AppendProperties
  <2>3. ASSUME NEW key \in Keys, NEW n \in 1 .. Len(callbacks) + 1,
               NEW t \in Titles \cup {NoTitle}, "retitled" \notin irregular',
               Told(callbacks, n, key, active[key], t)
        PROVE  Told(callbacks', n, key, active'[key], t)
    <3>1. c.kind \in {"posted", "removed"} /\ c.key \in Keys
      BY DEF Called
    <3>2. t # Gone
      BY LedAssumption
    <3>3. active[key] = t => IF IsRemoval(c, key) THEN c.title = t ELSE active'[key] = t
      <4>1. CASE key # c.key
        <5>1. active'[key] = active[key] /\ ~IsRemoval(c, key)
          BY <4>1 DEF ManagerTypeOK, IsRemoval
        <5> QED BY <5>1
      <4>2. CASE key = c.key /\ c.kind = "posted"
        <5>1. active'[key] = c.title /\ ~IsRemoval(c, key)
          BY <3>1, <4>2 DEF ManagerTypeOK, IsRemoval
        <5>2. active[key] \in {Gone, c.title}
          BY <2>3, <4>2
        <5> QED BY <3>2, <5>1, <5>2
      <4>3. CASE key = c.key /\ c.kind = "removed"
        BY <4>3 DEF IsRemoval
      <4> QED BY <3>1, <4>1, <4>2, <4>3
    <3>4. n \in Nat \ {0} /\ n <= Len(callbacks) + 1
      BY <2>1
    <3>5. PICK now : now = active'[key]
      OBVIOUS
    <3>6. Told(Append(callbacks, c), n, key, now, t)
      BY <2>1, <2>3, <3>3, <3>4, <3>5, ToldAppend
    <3> QED BY <2>0, <3>5, <3>6
  <2>4. TitleInv'
    <3>1. SUFFICES ASSUME "retitled" \notin irregular', NEW n \in 1 .. Len(callbacks'),
                          callbacks'[n].kind = "posted"
                   PROVE  Told(callbacks', n + 1, callbacks'[n].key, active'[callbacks'[n].key],
                               callbacks'[n].title)
      BY DEF TitleInv
    <3>2. CASE n \in 1 .. Len(callbacks)
      <4>1. PICK d \in Called : d = callbacks[n] /\ d = callbacks'[n]
        BY <2>1, <2>2, <3>2, ElementOfSeq
      <4>2. Told(callbacks, n + 1, d.key, active[d.key], d.title)
        BY <1>1, <3>1, <3>2, <4>1 DEF ManagerInv, TitleInv
      <4>3. /\ n + 1 \in 1 .. Len(callbacks) + 1
            /\ d.key \in Keys /\ d.title \in Titles \cup {NoTitle}
        BY <2>1, <3>2 DEF Called
      <4>4. Told(callbacks', n + 1, d.key, active'[d.key], d.title)
        BY <2>3, <3>1, <4>2, <4>3
      <4> QED BY <4>1, <4>4
    <3>3. CASE n \notin 1 .. Len(callbacks)
      <4>1. n = Len(callbacks) + 1 /\ n + 1 \in Nat /\ n + 1 > Len(callbacks')
        BY <2>1, <2>2, <3>3
      <4>2. callbacks'[n] = c /\ active'[c.key] = c.title
        BY <2>2, <3>1, <4>1 DEF ManagerTypeOK, Called
      <4>3. PICK q \in Seq(Called) : q = callbacks'
        BY <2>0, <2>1, Grows
      <4>4. Told(q, n + 1, c.key, c.title, c.title)
        BY <4>1, <4>3, ToldNow
      <4> QED BY <4>2, <4>3, <4>4
    <3> QED BY <3>2, <3>3
  <2>5. RuleInv'
    <3>1. SUFFICES ASSUME Regular', NEW i \in 1 .. Len(shown)
                   PROVE  \E t \in Titles \cup {NoTitle} :
                            Told(callbacks', 1, shown[i], active'[shown[i]], t) /\ Matches(t, leds[i].str)
      BY DEF RuleInv, Matches, TitleHas
    <3>2. PICK t \in Titles \cup {NoTitle} :
            Told(callbacks, 1, shown[i], active[shown[i]], t) /\ Matches(t, leds[i].str)
      BY <1>1, <3>1 DEF ManagerInv, RuleInv
    <3>3. shown[i] \in Keys /\ 1 \in 1 .. Len(callbacks) + 1 /\ "retitled" \notin irregular'
      BY <2>1, <3>1, ElementOfSeq DEF Regular
    <3>4. Told(callbacks', 1, shown[i], active'[shown[i]], t)
      BY <2>3, <3>2, <3>3
    <3> QED BY <3>2, <3>4
  <2> QED BY <1>2, <1>3, <1>4, <2>4, <2>5 DEF ManagerInv
<1> QED BY <1>5, <1>6

\* onListenerConnected keeps the invariant: nothing is listed, and the LED is off
\* or shows the charging state.
LEMMA ConnectedInv ==
  ASSUME ManagerTypeOK, ManagerInv, OnListenerConnected
  PROVE  ManagerInv'
<1>1. /\ listener = "disconnected" /\ listener' = "connected" /\ led' = PowerColor(led)
      /\ UNCHANGED <<shown, leds, latest, callbacks, active, power, intents>>
      /\ irregular' = IF power.plugged THEN irregular \ {"died"} ELSE irregular
  BY DEF OnListenerConnected, lists, world, Repairs
<1>2. /\ shown = << >> /\ intents = << >>
      /\ "died" \notin irregular => led = "off"
  BY <1>1 DEF ManagerInv, AbsentInv
<1>3. RulesNeedPackages' /\ ListsAligned' /\ TitleInv' /\ RuleInv' /\ LatestInv'
  BY <1>1, ListsKept
<1>4. AbsentInv' /\ IntentInv' /\ LedInv'
  BY <1>1, <1>2 DEF AbsentInv, IntentInv, LedInv
<1>5. PowerInv'
  <2>1. CASE power.plugged
    BY <1>1, <2>1 DEF PowerInv, PowerColor
  <2>2. CASE ~power.plugged
    BY <1>1, <1>2, <2>2 DEF PowerInv, PowerColor
  <2> QED BY <2>1, <2>2
<1> QED BY <1>3, <1>4, <1>5 DEF ManagerInv

\* mPowerReceiver keeps the invariant.
LEMMA IntentKeeps ==
  ASSUME ManagerTypeOK, ManagerInv, Intent
  PROVE  ManagerInv'
<1>1. /\ listener = "connected" /\ listener' = "connected" /\ intents # << >>
      /\ intents' = Tail(intents)
      /\ UNCHANGED <<shown, leds, latest, callbacks, active, power>>
  BY DEF Intent, lists, world
<1>2. intents \in Seq(Actions)
  BY DEF ManagerTypeOK
<1>3. /\ Len(intents) \in Nat \ {0} /\ Head(intents) = intents[1]
      /\ Len(intents') = Len(intents) - 1
      /\ \A k \in 1 .. Len(intents) - 1 : intents'[k] = intents[k + 1]
  BY <1>1, <1>2, HeadTailProperties, LenProperties, EmptySeq
<1>4. intents' \in Seq(Actions)
  BY <1>1, <1>2, Shrinks
<1>5. /\ intents' # << >> => intents'[Len(intents')] = intents[Len(intents)]
      /\ intents' = << >> => Len(intents) = 1
  <2>1. PICK s \in Seq(Actions) : s = intents'
    BY <1>4
  <2>2. s # << >> => Len(s) \in 1 .. Len(s)
    BY LenProperties, EmptySeq
  <2>3. s = << >> => Len(s) = 0
    BY EmptySeq
  <2>4. Len(s) \in 1 .. Len(s) => Len(s) \in 1 .. Len(intents) - 1 /\ Len(s) + 1 = Len(intents)
    BY <1>3, <2>1
  <2>5. Len(s) = 0 => Len(intents) = 1
    BY <1>3, <2>1
  <2> QED BY <1>3, <2>1, <2>2, <2>3, <2>4, <2>5
<1>6. irregular' = irregular \/ irregular' = irregular \ {"died"}
  BY DEF Intent, Repairs
<1>7. RulesNeedPackages' /\ ListsAligned' /\ TitleInv' /\ RuleInv' /\ LatestInv'
  BY <1>1, <1>6, ListsKept
<1>8. AbsentInv' /\ IntentInv'
  <2>1. AbsentInv'
    BY <1>1 DEF AbsentInv
  <2>2. power.plugged => intents[Len(intents)] # "disconnected"
    BY <1>1 DEF ManagerInv, IntentInv
  <2> QED BY <1>1, <1>5, <2>1, <2>2 DEF IntentInv
<1>9. CASE shown # << >>
  <2>1. led' = led /\ irregular' = irregular
    BY <1>9 DEF Intent, PowerReceiver, Repairs
  <2>2. PowerInv' /\ LedInv'
    BY <1>1, <1>9, <2>1 DEF ManagerInv, PowerInv, LedInv
  <2> QED BY <1>7, <1>8, <2>2 DEF ManagerInv
<1>10. CASE shown = << >>
  <2>1. LedInv'
    BY <1>1, <1>10 DEF LedInv
  <2>2. CASE intents[1] = "disconnected"
    <3>1. led' = "off"
      BY <1>3, <1>10, <2>2 DEF Intent, PowerReceiver
    <3>2. ~(power.plugged /\ intents' = << >>)
      BY <1>1, <1>5, <2>2 DEF ManagerInv, IntentInv
    <3>3. PowerInv'
      BY <1>1, <3>1, <3>2 DEF PowerInv
    <3> QED BY <1>7, <1>8, <2>1, <3>3 DEF ManagerInv
  <2>3. CASE intents[1] # "disconnected"
    <3>1. led' = PowerColor(led) /\ Repairs(power.plugged)
      BY <1>3, <1>10, <2>3 DEF Intent, PowerReceiver, Repairs
    <3>2. CASE power.plugged
      BY <1>1, <1>7, <1>8, <2>1, <3>1, <3>2 DEF ManagerInv, PowerInv, PowerColor
    <3>3. CASE ~power.plugged
      <4>1. led' = led /\ irregular' = irregular
        BY <3>1, <3>3 DEF PowerColor, Repairs
      <4>2. ASSUME NEW k \in 1 .. Len(intents), intents[k] = "disconnected"
            PROVE  \E j \in 1 .. Len(intents') : intents'[j] = "disconnected"
        <5>1. k # 1
          BY <2>3, <4>2
        <5>2. k - 1 \in 1 .. Len(intents) - 1 /\ (k - 1) + 1 = k
          BY <1>3, <5>1
        <5> QED BY <1>3, <4>2, <5>2
      <4>3. PowerInv'
        BY <1>1, <1>10, <3>3, <4>1, <4>2 DEF ManagerInv, PowerInv
      <4> QED BY <1>7, <1>8, <2>1, <4>3 DEF ManagerInv
    <3> QED BY <3>2, <3>3
  <2> QED BY <2>2, <2>3
<1> QED BY <1>9, <1>10

\* A change of the battery state, told to a listener that is there.
LEMMA SetPowerInv ==
  ASSUME ManagerTypeOK, ManagerInv, NEW p, NEW a \in Actions, SetPower(p, a),
         p.plugged => a # "disconnected",
         ~p.plugged => a = "disconnected" \/ ~power.plugged
  PROVE  ManagerInv'
<1>1. /\ power' = p
      /\ UNCHANGED <<listener, shown, leds, led, latest, callbacks, active, irregular>>
  BY DEF SetPower, lists
<1>2. RulesNeedPackages' /\ ListsAligned' /\ TitleInv' /\ RuleInv' /\ LatestInv'
  BY <1>1, ListsKept
<1>3. LedInv'
  BY <1>1 DEF ManagerInv, LedInv
<1>4. CASE listener # "connected"
  <2>1. intents' = intents /\ intents = << >>
    BY <1>4 DEF SetPower, ManagerInv, AbsentInv
  <2>2. AbsentInv' /\ IntentInv' /\ PowerInv'
    BY <1>1, <1>4, <2>1 DEF ManagerInv, AbsentInv, IntentInv, PowerInv
  <2> QED BY <1>2, <1>3, <2>2 DEF ManagerInv
<1>5. CASE listener = "connected"
  <2>1. intents \in Seq(Actions) /\ intents' = Append(intents, a) /\ Len(intents) \in Nat
    BY <1>5, LenProperties DEF SetPower, ManagerTypeOK
  <2>2. /\ Len(intents') = Len(intents) + 1 /\ intents'[Len(intents) + 1] = a
        /\ \A k \in 1 .. Len(intents) : intents'[k] = intents[k]
    BY <2>1, AppendProperties
  <2>3. intents' # << >>
    BY <2>1, <2>2, EmptySeq
  <2>4. AbsentInv' /\ IntentInv'
    BY <1>1, <1>5, <2>2 DEF AbsentInv, IntentInv
  <2>5. /\ Len(intents) + 1 \in 1 .. Len(intents')
        /\ \A k \in 1 .. Len(intents) : k \in 1 .. Len(intents')
    BY <2>1, <2>2
  <2>6. PowerInv'
    <3>1. SUFFICES ASSUME irregular = {}, shown = << >>, ~p.plugged
                   PROVE  led = "off" \/ \E k \in 1 .. Len(intents') : intents'[k] = "disconnected"
      BY <1>1, <2>3 DEF PowerInv
    <3>2. CASE a = "disconnected"
      BY <2>2, <2>5, <3>2
    <3>3. CASE ~power.plugged
      <4>1. led = "off" \/ \E k \in 1 .. Len(intents) : intents[k] = "disconnected"
        BY <1>5, <3>1, <3>3 DEF ManagerInv, PowerInv
      <4> QED BY <2>2, <2>5, <4>1
    <3> QED BY <3>1, <3>2, <3>3
  <2> QED BY <1>2, <1>3, <2>4, <2>6 DEF ManagerInv
<1> QED BY <1>4, <1>5

\* Every step keeps the invariant.
LEMMA ManagerInvNext == ManagerTypeOK /\ ManagerInv /\ [ManagerNext]_managerVars => ManagerInv'
<1> SUFFICES ASSUME ManagerTypeOK, ManagerInv, [ManagerNext]_managerVars PROVE ManagerInv'
  OBVIOUS
<1>1. CASE OnListenerConnected
  BY <1>1, ConnectedInv
<1>2. CASE OnListenerDisconnected
  BY <1>2, EndsInv DEF OnListenerDisconnected
<1>3. CASE Killed
  BY <1>3, EndsInv DEF Killed, ProcessDies
<1>4. CASE Rebound
  <2>1. /\ listener = "crashed" /\ listener' = "disconnected"
        /\ UNCHANGED <<shown, leds, led, latest, callbacks, active, power, intents, irregular>>
    BY <1>4 DEF Rebound, lists
  <2>2. RulesNeedPackages' /\ ListsAligned' /\ TitleInv' /\ RuleInv' /\ LatestInv'
    BY <2>1, ListsKept
  <2>3. AbsentInv' /\ IntentInv' /\ PowerInv' /\ LedInv'
    BY <2>1 DEF ManagerInv, AbsentInv, IntentInv, PowerInv, LedInv
  <2> QED BY <2>2, <2>3 DEF ManagerInv
<1>5. CASE Callback
  <2>1. /\ listener = "connected" /\ callbacks # << >>
        /\ \/ listener' = "crashed" /\ ProcessDies
           \/ \E key \in Keys, title \in Titles \cup {NoTitle} :
                /\ Handled
                /\ \/ /\ callbacks[1] = [kind |-> "posted", key |-> key, title |-> title]
                      /\ OnNotificationPosted(key, title)
                   \/ /\ callbacks[1] = [kind |-> "removed", key |-> key, title |-> title]
                      /\ OnNotificationRemoved(key, title)
    BY <1>5, CallbackIs
  <2>2. CASE listener' = "crashed" /\ ProcessDies
    BY <2>2, EndsInv DEF ProcessDies
  <2> QED BY <2>1, <2>2, PostedInv, RemovedInv
<1>6. CASE Intent
  BY <1>6, IntentKeeps
<1>7. ASSUME NEW key \in Keys, NEW title \in Titles \cup {NoTitle}, Post(key, title)
      PROVE  ManagerInv'
  <2> DEFINE c == [kind |-> "posted", key |-> key, title |-> title]
  <2>1. c \in Called /\ c.key = key /\ c.kind = "posted" /\ c.title = title
    BY DEF Called
  <2>2. /\ active' = [active EXCEPT ![key] = title]
        /\ IF listener = "connected" THEN callbacks' = Append(callbacks, c)
                                     ELSE callbacks' = callbacks
        /\ UNCHANGED <<listener, shown, leds, led, power, intents, latest>>
    BY <1>7 DEF Post, Tell, lists
  <2>3. /\ irregular' = irregular \/ irregular' = irregular \cup {"retitled"}
        /\ "retitled" \notin irregular' => active[key] \in {Gone, title}
    BY <1>7 DEF Post
  <2> HIDE DEF c
  <2> QED BY <2>1, <2>2, <2>3, TellInv
<1>8. ASSUME NEW key \in Keys, Cancel(key) PROVE ManagerInv'
  <2> DEFINE c == [kind |-> "removed", key |-> key, title |-> active[key]]
  <2>1. c \in Called /\ c.key = key /\ c.kind = "removed" /\ c.title = active[key]
    BY <1>8 DEF Called, Cancel, ManagerTypeOK
  <2>2. /\ active' = [active EXCEPT ![key] = Gone]
        /\ IF listener = "connected" THEN callbacks' = Append(callbacks, c)
                                     ELSE callbacks' = callbacks
        /\ UNCHANGED <<listener, shown, leds, led, power, intents, latest, irregular>>
    BY <1>8 DEF Cancel, Tell, lists
  <2> HIDE DEF c
  <2> QED BY <2>1, <2>2, TellInv
<1>9. CASE Plug
  <2>1. CASE power.plugged
    <3>1. SetPower([power EXCEPT !.plugged = ~@], "disconnected")
      BY <1>9, <2>1 DEF Plug
    <3>2. ~[power EXCEPT !.plugged = ~@].plugged /\ "disconnected" \in Actions
      BY <2>1 DEF ManagerTypeOK, Actions
    <3> QED BY <3>1, <3>2, SetPowerInv
  <2>2. CASE ~power.plugged
    <3>1. SetPower([power EXCEPT !.plugged = ~@], "connected")
      BY <1>9, <2>2 DEF Plug
    <3>2. [power EXCEPT !.plugged = ~@].plugged /\ "connected" \in Actions
      BY <2>2 DEF ManagerTypeOK, Actions
    <3> QED BY <3>1, <3>2, SetPowerInv
  <2> QED BY <2>1, <2>2
<1>10. CASE BatteryLevel
  <2>1. SetPower([power EXCEPT !.full = ~@], "battery")
    BY <1>10 DEF BatteryLevel
  <2>2. [power EXCEPT !.full = ~@].plugged = power.plugged /\ "battery" \in Actions
    BY DEF ManagerTypeOK, Actions
  <2> QED BY <2>1, <2>2, SetPowerInv
<1>11. CASE FileChanges \/ UNCHANGED managerVars
  <2>1. UNCHANGED <<listener, shown, leds, led, latest, callbacks, active, power, intents, irregular>>
    BY <1>11 DEF FileChanges, managerVars, lists
  <2>2. RulesNeedPackages' /\ ListsAligned' /\ TitleInv' /\ RuleInv' /\ LatestInv'
    BY <2>1, ListsKept
  <2>3. AbsentInv' /\ IntentInv' /\ PowerInv' /\ LedInv'
    BY <2>1 DEF ManagerInv, AbsentInv, IntentInv, PowerInv, LedInv, PowerColor
  <2> QED BY <2>2, <2>3 DEF ManagerInv
<1> QED BY <1>1, <1>2, <1>3, <1>4, <1>5, <1>6, <1>7, <1>8, <1>9, <1>10, <1>11 DEF ManagerNext

\* The initial states satisfy types and invariant.
LEMMA ManagerStart == ManagerInit => ManagerTypeOK /\ ManagerInv
<1> SUFFICES ASSUME ManagerInit PROVE ManagerTypeOK /\ ManagerInv
  OBVIOUS
<1>1. /\ shown = << >> /\ leds = << >> /\ callbacks = << >> /\ intents = << >> /\ latest = << >>
      /\ listener = "disconnected" /\ led = "off" /\ irregular = {}
  BY DEF ManagerInit
<1>2. Len(<< >>) = 0 /\ DOMAIN << >> = {} /\ \A i : i \notin 1 .. 0
  BY EmptySeq
<1>3. ManagerTypeOK
  BY <1>1, EmptySeq DEF ManagerInit, ManagerTypeOK, Colors
<1>4. RulesNeedPackages /\ ListsAligned /\ TitleInv /\ RuleInv
  BY <1>1, <1>2 DEF RulesNeedPackages, ListsAligned, TitleInv, RuleInv
<1>5. LatestInv
  BY <1>1, HistoryEmpty DEF LatestInv
<1>6. AbsentInv /\ IntentInv /\ PowerInv /\ LedInv
  BY <1>1 DEF AbsentInv, IntentInv, PowerInv, LedInv
<1> QED BY <1>3, <1>4, <1>5, <1>6 DEF ManagerInv

\* Types and invariant hold in every behaviour of the LED manager.
LEMMA ManagerInductive == ManagerSpec => [](ManagerTypeOK /\ ManagerInv)
<1>1. ManagerTypeOK /\ ManagerInv /\ [ManagerNext]_managerVars => (ManagerTypeOK /\ ManagerInv)'
  BY ManagerTypeNext, ManagerInvNext
<1> QED BY <1>1, ManagerStart, PTL DEF ManagerSpec

\* Every handler of LedLightManager leaves its lists, preferences, queues and LED
\* with values of their types, for every set of notifications, titles and
\* configuration files, and for lists and queues of every length.
THEOREM ManagerTypeCorrect == ManagerSpec => []ManagerTypeOK
BY ManagerInductive, PTL

\* The parallel lists of onNotificationPosted and onNotificationRemoved agree,
\* entry by entry, as long as every notification of a listed package matched a
\* rule, whatever becomes of titles, configuration and process.
THEOREM KeepsAligned == ManagerSpec => []ListsAligned
<1>1. ManagerTypeOK /\ ManagerInv => ListsAligned
  BY DEF ManagerInv
<1> QED BY <1>1, ManagerInductive, PTL

\* The rule lists never outgrow the package list, with no condition at all: with
\* no package recorded there is no notification colour left to fall back to.
THEOREM PackagesCoverRules == ManagerSpec => []RulesNeedPackages
<1>1. ManagerTypeOK /\ ManagerInv => RulesNeedPackages
  BY DEF ManagerInv
<1> QED BY <1>1, ManagerInductive, PTL

\* "Set the color of the latest notification available": with nothing in flight
\* and nothing irregular, the last colour set is that of the latest notification
\* that is still there, else that of the charging state, else none, however many
\* notifications, callbacks and power broadcasts there were.
THEOREM LatestIsShown == ManagerSpec => []ShowsLatest
<1>1. ManagerTypeOK /\ ManagerInv => ShowsLatest
  <2> SUFFICES ASSUME ManagerTypeOK, ManagerInv, Settled, irregular = {}
               PROVE  led = IF latest # << >> THEN latest[Len(latest)].color ELSE PowerColor("off")
    BY DEF ShowsLatest
  <2>1. listener = "connected" /\ intents = << >>
    BY DEF Settled
  <2>2. /\ shown \in Seq(Keys) /\ latest \in Seq(Entry) /\ History(shown, leds, latest)
        /\ Len(leds) = Len(shown)
    BY DEF ManagerTypeOK, ManagerInv, LatestInv, Regular, ListsAligned, Entry
  <2>3. CASE shown # << >>
    <3>1. Len(shown) # 0
      BY <2>2, <2>3, EmptySeq
    <3>2. Len(latest) # 0 /\ leds[Len(shown)].color = latest[Len(latest)].color
      BY <2>2, <3>1, HistoryLast
    <3>3. latest # << >>
      BY <3>2, EmptySeq
    <3>4. led = leds[Len(leds)].color
      BY <2>1, <2>3 DEF ManagerInv, LedInv
    <3> QED BY <2>2, <3>2, <3>3, <3>4
  <2>4. CASE shown = << >>
    <3>1. Len(shown) = 0 /\ \A i : i \notin 1 .. 0
      BY <2>4, EmptySeq
    <3>2. \A j \in 1 .. Len(latest) : FALSE
      BY <2>2, <3>1 DEF History
    <3>3. Len(latest) \in Nat
      BY <2>2, LenProperties
    <3>4. Len(latest) = 0
      BY <3>2, <3>3
    <3>5. latest = << >>
      BY <2>2, <3>4, EmptySeq
    <3>6. CASE power.plugged
      BY <2>1, <2>4, <3>5, <3>6 DEF ManagerInv, PowerInv
    <3>7. CASE ~power.plugged
      <4>1. \A k : k \notin 1 .. Len(intents)
        BY <2>1, EmptySeq
      <4>2. led = "off"
        BY <2>1, <2>4, <3>7, <4>1 DEF ManagerInv, PowerInv
      <4> QED BY <3>5, <3>7, <4>2 DEF PowerColor
    <3> QED BY <3>6, <3>7
  <2> QED BY <2>3, <2>4
<1> QED BY <1>1, ManagerInductive, PTL

\* The process crashes only on a colour or a time of the configuration that
\* cannot be parsed, or after a notification of a listed package matched no rule.
CrashesOnlyUnmatched ==
  listener = "crashed" => "unmatched" \in irregular \/ \E line \in Lines : line.broken

\* In onNotificationRemoved every index is in range while the lists are aligned.
LEMMA CrashNext ==
  ASSUME ManagerTypeOK, ManagerInv, CrashesOnlyUnmatched, [ManagerNext]_managerVars
  PROVE  CrashesOnlyUnmatched'
<1>1. CASE Callback
  <2>1. SUFFICES ASSUME listener' = "crashed", "unmatched" \notin irregular,
                        ~\E line \in Lines : line.broken
                 PROVE  FALSE
    <3>1. listener' = "crashed" => irregular' = irregular \cup {"died"}
      BY <1>1 DEF Callback, ProcessDies
    <3> QED BY <3>1 DEF CrashesOnlyUnmatched
  <2>4. ASSUME NEW key, NEW title, Throws(key, title) PROVE FALSE
    <3>1. PICK rs \in Seq(Lines) : rs = Loaded
      BY LoadIs
    <3>2. PICK m : m = Match(rs, key.pkg, title)
      OBVIOUS
    <3>3. m # 0 /\ rs[m].broken
      BY <2>4, <3>1, <3>2 DEF Throws
    <3>4. rs[m] \in Lines
      BY <3>2, <3>3, MatchIs
    <3> QED BY <2>1, <3>3, <3>4
  <2>2. PICK i \in Occurrences(Head(callbacks).key.pkg) : i > Len(leds)
    BY <1>1, <2>1, <2>4 DEF Callback
  <2>3. i \in 1 .. Len(shown) /\ Len(leds) = Len(shown) /\ Len(shown) \in Nat
    BY <2>1, <2>2, LenProperties DEF Occurrences, ManagerTypeOK, ManagerInv, ListsAligned
  <2> QED BY <2>2, <2>3
<1>2. CASE OnListenerConnected \/ OnListenerDisconnected \/ Killed \/ Rebound
  BY <1>2 DEF OnListenerConnected, OnListenerDisconnected, Killed, Rebound, CrashesOnlyUnmatched
<1>3. CASE Intent
  BY <1>3 DEF Intent, CrashesOnlyUnmatched
<1>4. ASSUME NEW key \in Keys, NEW title \in Titles \cup {NoTitle}, Post(key, title)
      PROVE  CrashesOnlyUnmatched'
  BY <1>4 DEF Post, CrashesOnlyUnmatched
<1>5. ASSUME NEW key \in Keys, Cancel(key) PROVE CrashesOnlyUnmatched'
  BY <1>5 DEF Cancel, CrashesOnlyUnmatched
<1>6. CASE Plug \/ BatteryLevel
  BY <1>6 DEF Plug, BatteryLevel, SetPower, CrashesOnlyUnmatched
<1>7. CASE FileChanges \/ UNCHANGED managerVars
  BY <1>7 DEF FileChanges, managerVars, CrashesOnlyUnmatched
<1> QED BY <1>1, <1>2, <1>3, <1>4, <1>5, <1>6, <1>7 DEF ManagerNext

\* onNotificationRemoved never indexes a rule list out of bounds unless
\* onNotificationPosted has recorded a notification without a rule before: that
\* is the only way to an uncaught exception, for lists of every length, when the
\* configuration's colours and times can be parsed.
THEOREM CrashesNeedUnmatched == ManagerSpec => []CrashesOnlyUnmatched
<1>1. ManagerInit => CrashesOnlyUnmatched
  BY DEF ManagerInit, CrashesOnlyUnmatched
<1>2. /\ ManagerTypeOK /\ ManagerInv /\ CrashesOnlyUnmatched
      /\ [ManagerNext]_managerVars
      => CrashesOnlyUnmatched'
  BY CrashNext
<1> QED BY <1>1, <1>2, ManagerInductive, PTL DEF ManagerSpec

-----------------------------------------------------------------------------
\* The calls that are left of a handler: all, or the last one of Apply.
Reads == << <<"state">> >>
Rings(position) == << <<"ringer", Ringer(position)>> >>

\* Process p has read position and has still to set the ringer for it.
Applying(w, position) == w = SetPosition(position) \/ w = Rings(position)

WorkInv ==
  \A p \in Processes :
    \/ work[p] = << >> \/ work[p] = Reads
    \/ \E position \in Positions : Applying(work[p], position)

\* Somebody will read the position again, or the news of a move is lost.
Unread ==
  \/ \E p \in Processes : work[p] = Reads
  \/ \E k \in DOMAIN socket : socket[k] = "key"
  \/ dropped

\* Otherwise whoever is applying applies the position of the slider, and what
\* is not yet set is among the calls still to make.
AppliesSlider ==
  \A p \in Processes, position \in Positions :
    Applying(work[p], position) => position = slider
AudioInv ==
  booted \/ (\E p \in Processes : Applying(work[p], slider)) =>
    /\ muted = Muted(slider) \/ \E p \in Processes : work[p] = SetPosition(slider)
    /\ ringer = Ringer(slider) \/ \E p \in Processes : Applying(work[p], slider)

SliderInv ==
  /\ SliderTypeOK /\ WorkInv
  /\ ~Unread /\ ~raced => AppliesSlider /\ AudioInv

-----------------------------------------------------------------------------
\* The three shapes are told apart, and name their position.
LEMMA Shapes ==
  ASSUME NEW p \in Positions
  PROVE  /\ SetPosition(p) # << >> /\ Rings(p) # << >> /\ Reads # << >>
         /\ Head(SetPosition(p)) = <<"mute", Muted(p)>> /\ Tail(SetPosition(p)) = Rings(p)
         /\ Head(Rings(p)) = <<"ringer", Ringer(p)>> /\ Tail(Rings(p)) = << >>
         /\ Head(Reads) = <<"state">>
         /\ SetPosition(p)[Len(SetPosition(p))] = <<"ringer", Ringer(p)>>
         /\ Rings(p)[Len(Rings(p))] = <<"ringer", Ringer(p)>>
         /\ SetPosition(p) \in Seq(Calls)
         /\ Rings(p) \in Seq(Calls) /\ Reads \in Seq(Calls)
         /\ Muted(p) \in BOOLEAN /\ Ringer(p) \in Ringers
<1>1. Muted(p) \in BOOLEAN
  BY DEF Muted
<1>2. Ringer(p) \in Ringers
  BY DEF Ringer, Ringers, Positions
<1>3. /\ <<"mute", Muted(p)>> \in Calls
      /\ <<"ringer", Ringer(p)>> \in Calls /\ <<"state">> \in Calls
  BY <1>1, <1>2 DEF Calls
<1> QED
  BY <1>1, <1>2, <1>3 DEF SetPosition, Rings, Reads

LEMMA RingerNames ==
  ASSUME NEW p \in Positions, NEW q \in Positions, Ringer(p) = Ringer(q)
  PROVE  p = q
BY DEF Ringer, Positions

\* What the next call says about the work left.
LEMMA NextCall ==
  ASSUME WorkInv, NEW p \in Processes, work[p] # << >>
  PROVE  /\ Head(work[p])[1] = "state" => work[p] = Reads
         /\ Head(work[p])[1] = "mute" =>
              \E position \in Positions : work[p] = SetPosition(position)
         /\ Head(work[p])[1] = "ringer" =>
              \E position \in Positions : work[p] = Rings(position)
         /\ Head(work[p])[1] # "state" =>
              \E position \in Positions : Applying(work[p], position)
<1>1. CASE work[p] = Reads
  <2>1. Head(Reads) = <<"state">>
    BY DEF Reads
  <2> QED
    BY <1>1, <2>1
<1>2. ASSUME NEW position \in Positions, work[p] = SetPosition(position)
      PROVE  Head(work[p])[1] = "mute"
  BY <1>2, Shapes
<1>3. ASSUME NEW position \in Positions, work[p] = Rings(position)
      PROVE  Head(work[p])[1] = "ringer"
  BY <1>3, Shapes
<1> QED
  BY <1>1, <1>2, <1>3 DEF WorkInv, Applying

\* A process applies one position, and is then not about to read it.
LEMMA ApplyingOne ==
  ASSUME NEW w, NEW p \in Positions, NEW q \in Positions, Applying(w, p)
  PROVE  w # Reads /\ w # << >> /\ (Applying(w, q) => p = q)
<1>1. w[Len(w)] = <<"ringer", Ringer(p)>> /\ w # << >>
  BY Shapes DEF Applying
<1>2. Applying(w, q) => w[Len(w)] = <<"ringer", Ringer(q)>>
  BY Shapes DEF Applying
<1>3. Reads[Len(Reads)] = <<"state">>
  BY DEF Reads
<1> QED
  BY <1>1, <1>2, <1>3, RingerNames

LEMMA SliderInvInit == SliderInit => SliderInv
<1> SUFFICES ASSUME SliderInit PROVE SliderInv
  OBVIOUS
<1>1. socket \in Seq(Messages) /\ work \in [Processes -> Seq(Calls)]
  BY DEF SliderInit
<1>2. SliderTypeOK
  BY <1>1 DEF SliderInit, SliderTypeOK
<1>3. WorkInv /\ \A p \in Processes : work[p] = << >>
  BY DEF SliderInit, WorkInv
<1>4. \A p \in Processes, position \in Positions : ~Applying(work[p], position)
  BY <1>3, Shapes DEF Applying
<1>5. AppliesSlider /\ AudioInv
  BY <1>4 DEF AppliesSlider, AudioInv, SliderInit
<1> QED
  BY <1>2, <1>3, <1>5 DEF SliderInv

\* While nobody's work, position and audio change, there is at most more to read.
LEMMA MoreToRead ==
  ASSUME SliderInv, SliderTypeOK', slider' = slider, work' = work, muted' = muted,
         ringer' = ringer, booted' = booted, raced' = raced, Unread => Unread'
  PROVE  SliderInv'
<1>1. WorkInv'
  BY DEF SliderInv, WorkInv
<1>2. AppliesSlider => AppliesSlider'
  BY DEF AppliesSlider
<1>3. AudioInv => AudioInv'
  BY DEF AudioInv
<1> QED
  BY <1>1, <1>2, <1>3 DEF SliderInv

LEMMA KernelSendsMore ==
  ASSUME SliderTypeOK, NEW m \in Messages, KernelSends(m)
  PROVE  /\ socket' \in Seq(Messages) /\ overrun' \in BOOLEAN
         /\ \A k \in DOMAIN socket : k \in DOMAIN socket' /\ socket'[k] = socket[k]
         /\ Len(socket) < MaxSocket => \E k \in DOMAIN socket' : socket'[k] = m
<1>1. socket \in Seq(Messages) /\ Len(socket) \in Nat
  BY DEF SliderTypeOK
<1>2. CASE Len(socket) < MaxSocket
  <2>1. socket' = Append(socket, m)
    BY <1>2 DEF KernelSends
  <2>2. socket' \in Seq(Messages) /\ Len(socket') = Len(socket) + 1
        /\ socket'[Len(socket) + 1] = m
        /\ \A k \in 1 .. Len(socket) : socket'[k] = socket[k]
    BY <1>1, <2>1, AppendProperties
  <2> QED
    BY <1>1, <2>2 DEF KernelSends, SliderTypeOK
<1>3. CASE ~(Len(socket) < MaxSocket)
  BY <1>1, <1>3 DEF KernelSends, SliderTypeOK
<1> QED
  BY <1>2, <1>3

LEMMA MoveInv ==
  ASSUME SliderInv, NEW position \in Positions, Move(position)
  PROVE  SliderInv'
<1>1. SliderTypeOK /\ KernelSends("key") /\ "key" \in Messages
  BY DEF SliderInv, Move, Messages
<1>2. /\ socket' \in Seq(Messages) /\ overrun' \in BOOLEAN
      /\ Len(socket) < MaxSocket => \E k \in DOMAIN socket' : socket'[k] = "key"
  BY <1>1, KernelSendsMore
<1>3. dropped' \in BOOLEAN /\ (~(Len(socket) < MaxSocket) => dropped')
  <2>1. Len(socket) \in Nat /\ MaxSocket \in Nat
    BY <1>1, SliderAssumption DEF SliderTypeOK
  <2>2. ~(Len(socket) < MaxSocket) <=> Len(socket) >= MaxSocket
    BY <2>1
  <2> QED
    BY <1>1, <2>2 DEF Move, SliderTypeOK
<1>4. Unread'
  BY <1>2, <1>3 DEF Unread
<1>5. SliderTypeOK'
  BY <1>1, <1>2, <1>3 DEF Move, SliderTypeOK, audio
<1>6. WorkInv'
  BY DEF SliderInv, WorkInv, Move
<1> QED
  BY <1>4, <1>5, <1>6 DEF SliderInv

LEMMA OtherUeventInv ==
  ASSUME SliderInv, NEW m \in Messages, OtherUevent(m)
  PROVE  SliderInv'
<1>1. SliderTypeOK /\ KernelSends(m)
  BY DEF SliderInv, OtherUevent
<1>2. /\ socket' \in Seq(Messages) /\ overrun' \in BOOLEAN
      /\ \A k \in DOMAIN socket : k \in DOMAIN socket' /\ socket'[k] = socket[k]
  BY <1>1, KernelSendsMore
<1>3. SliderTypeOK'
  BY <1>1, <1>2 DEF OtherUevent, SliderTypeOK, audio, history
<1>4. Unread => Unread'
  BY <1>2 DEF Unread, OtherUevent, history
<1> QED
  BY <1>3, <1>4, MoreToRead DEF OtherUevent, audio, history

LEMMA PollAgainInv ==
  ASSUME SliderInv, PollAgain
  PROVE  SliderInv'
<1>1. SliderTypeOK'
  BY DEF SliderInv, PollAgain, SliderTypeOK, audio, history
<1>2. Unread => Unread'
  BY DEF Unread, PollAgain, history
<1> QED
  BY <1>1, <1>2, MoreToRead DEF PollAgain, audio, history

LEMMA ServiceConnectedInv ==
  ASSUME SliderInv, ServiceConnected
  PROVE  SliderInv'
<1>1. work' = [work EXCEPT !["service"] = Reads] /\ "service" \in Processes
  BY DEF ServiceConnected, Reads, Processes
<1>2. Reads \in Seq(Calls)
  BY DEF Reads, Calls
<1>3. SliderTypeOK'
  BY <1>1, <1>2 DEF SliderInv, ServiceConnected, SliderTypeOK, audio,
         history, netlink
<1>4. work'["service"] = Reads /\ \A p \in Processes : p # "service" => work'[p] = work[p]
  BY <1>1 DEF SliderInv, SliderTypeOK
<1>5. WorkInv'
  BY <1>4 DEF SliderInv, WorkInv
<1>6. Unread'
  BY <1>1, <1>4 DEF Unread
<1> QED
  BY <1>3, <1>5, <1>6 DEF SliderInv

\* The daemon takes a uevent: if it was a move's, it will read the position.
LEMMA ReadUeventInv ==
  ASSUME SliderInv, ReadUevent
  PROVE  SliderInv'
<1>1. /\ socket \in Seq(Messages) /\ socket # << >> /\ socket' = Tail(socket)
      /\ work["daemon"] = << >> /\ "daemon" \in Processes
  BY DEF SliderInv, SliderTypeOK, ReadUevent, Idle, Processes
<1>2. /\ Len(socket) \in Nat /\ Len(socket) >= 1
      /\ Head(socket) = socket[1] /\ Head(socket) \in Messages
      /\ Tail(socket) \in Seq(Messages) /\ Len(Tail(socket)) = Len(socket) - 1
      /\ \A k \in 1 .. Len(Tail(socket)) : Tail(socket)[k] = socket[k + 1]
  BY <1>1, HeadTailProperties
<1>3. uevent' \in Messages \cup {"none"} /\ (Head(socket) = "key" => uevent' = "key")
  BY <1>2 DEF ReadUevent, Parsed, SliderInv, SliderTypeOK
<1>4. PICK w : w = IF uevent' = "key" THEN Reads ELSE << >>
  OBVIOUS
<1>5. work' = [work EXCEPT !["daemon"] = w]
  BY <1>4 DEF ReadUevent, Reads
<1>6. w \in Seq(Calls)
  <2>1. <<"state">> \in Calls
    BY DEF Calls
  <2>2. Reads \in Seq(Calls)
    BY <2>1 DEF Reads
  <2>3. CASE w = Reads
    BY <2>2, <2>3
  <2>4. CASE w = << >>
    BY <2>4
  <2> QED
    BY <1>4, <2>3, <2>4
<1>7. SliderTypeOK'
  <2>1. socket' \in Seq(Messages)
    BY <1>1, <1>2
  <2>2. work' \in [Processes -> Seq(Calls)]
    BY <1>5, <1>6 DEF SliderInv, SliderTypeOK
  <2>3. UNCHANGED <<slider, overrun, muted, ringer, booted, raced, dropped>>
    BY DEF ReadUevent, audio, history
  <2> QED
    BY <1>3, <2>1, <2>2, <2>3 DEF SliderInv, SliderTypeOK
<1>8. work'["daemon"] = w /\ \A p \in Processes : p # "daemon" => work'[p] = work[p]
  BY <1>1, <1>5 DEF SliderInv, SliderTypeOK
<1>9. WorkInv'
  BY <1>4, <1>8 DEF SliderInv, WorkInv
<1>10. CASE w = Reads
  BY <1>1, <1>7, <1>8, <1>9, <1>10 DEF SliderInv, Unread
<1>11. CASE w = << >>
  <2>1. work' = work
    BY <1>1, <1>5, <1>11 DEF SliderInv, SliderTypeOK
  <2>2. Head(socket) # "key"
    BY <1>3, <1>4, <1>11 DEF Reads
  <2>3. \A k \in DOMAIN socket : socket[k] = "key" => \E j \in DOMAIN socket' : socket'[j] = "key"
    <3> SUFFICES ASSUME NEW k \in DOMAIN socket, socket[k] = "key"
                 PROVE  \E j \in DOMAIN socket' : socket'[j] = "key"
      OBVIOUS
    <3>1. k \in 1 .. Len(socket) /\ k # 1
      BY <1>1, <1>2, <2>2
    <3>2. k - 1 \in 1 .. Len(Tail(socket)) /\ (k - 1) + 1 = k
      BY <1>2, <3>1
    <3>3. k - 1 \in DOMAIN socket' /\ socket'[k - 1] = socket[k]
      BY <1>1, <1>2, <3>2
    <3> QED
      BY <3>3
  <2>4. Unread => Unread'
    BY <2>1, <2>3 DEF Unread, ReadUevent, history
  <2> QED
    BY <1>7, <2>1, <2>4, MoreToRead DEF ReadUevent, audio, history
<1> QED
  BY <1>4, <1>10, <1>11

\* The position is read: now the reader, and whoever else is applying unless
\* they race, applies the position of the slider.
LEMMA ReadStateInv ==
  ASSUME SliderInv, NEW p \in Processes, ReadState(p)
  PROVE  SliderInv'
<1>1. slider \in Positions /\ slider' = slider
  BY DEF SliderInv, SliderTypeOK, ReadState
<1>2. work' = [work EXCEPT ![p] = SetPosition(slider)]
  BY DEF ReadState
<1>3. /\ SetPosition(slider) \in Seq(Calls)
      /\ SetPosition(slider) # << >> /\ SetPosition(slider) # Reads
  BY <1>1, Shapes, ApplyingOne DEF Applying
<1>4. work'[p] = SetPosition(slider) /\ \A q \in Processes : q # p => work'[q] = work[q]
  BY <1>2 DEF SliderInv, SliderTypeOK
<1>5. raced' \in BOOLEAN /\ (~raced' => ~OtherApplies(p))
  BY DEF ReadState, OtherApplies
<1>6. SliderTypeOK'
  BY <1>1, <1>2, <1>3, <1>5 DEF SliderInv, SliderTypeOK, ReadState, netlink,
         audio
<1>7. WorkInv'
  BY <1>1, <1>4 DEF SliderInv, WorkInv, Applying
<1>8. ASSUME ~Unread', ~raced' PROVE AppliesSlider' /\ AudioInv'
  <2>1. ASSUME NEW q \in Processes,
         NEW position \in Positions, Applying(work'[q], position)
        PROVE  position = slider
    <3>1. CASE q = p
      BY <1>1, <1>4, <2>1, <3>1, ApplyingOne DEF Applying
    <3>2. CASE q # p
      <4>1. work'[q] = work[q] /\ q \in Processes \ {p}
        BY <1>4, <3>2
      <4>2. ~Idle(q) /\ Head(work[q])[1] # "state"
            /\ work[q][Len(work[q])] = <<"ringer", Ringer(position)>>
        BY <2>1, <4>1, Shapes DEF Applying, Idle
      <4>3. work[q][Len(work[q])] = <<"ringer", Ringer(slider)>>
        BY <1>5, <1>8, <4>1, <4>2 DEF OtherApplies
      <4> QED
        BY <1>1, <4>2, <4>3, RingerNames
    <3> QED
      BY <3>1, <3>2
  <2>2. AppliesSlider'
    BY <1>1, <2>1 DEF AppliesSlider
  <2>3. AudioInv'
    BY <1>1, <1>4 DEF AudioInv, Applying
  <2> QED
    BY <2>2, <2>3
<1> QED
  BY <1>6, <1>7, <1>8 DEF SliderInv

\* The position could not be read: whatever is set now may be out of date.
LEMMA ReadFailsInv ==
  ASSUME SliderInv, NEW p \in Processes, ReadFails(p)
  PROVE  SliderInv'
<1>1. /\ work' = [work EXCEPT ![p] = << >>] /\ dropped' = TRUE
      /\ UNCHANGED <<slider, socket, overrun, uevent, muted, ringer, booted, raced>>
  BY DEF ReadFails, netlink, audio
<1>2. work'[p] = << >> /\ \A q \in Processes : q # p => work'[q] = work[q]
  BY <1>1 DEF SliderInv, SliderTypeOK
<1>3. SliderTypeOK'
  <2>1. work' \in [Processes -> Seq(Calls)]
    BY <1>1, EmptySeq DEF SliderInv, SliderTypeOK
  <2> QED BY <1>1, <2>1 DEF SliderInv, SliderTypeOK
<1>4. WorkInv'
  BY <1>2 DEF SliderInv, WorkInv
<1>5. Unread'
  BY <1>1 DEF Unread
<1> QED BY <1>3, <1>4, <1>5 DEF SliderInv

LEMMA AdjustStreamVolumeInv ==
  ASSUME SliderInv, NEW p \in Processes, AdjustStreamVolume(p)
  PROVE  SliderInv'
<1>1. PICK position \in Positions : work[p] = SetPosition(position)
  BY NextCall DEF SliderInv, AdjustStreamVolume, Call, Idle
<1>2. Head(work[p])[2] = Muted(position) /\ Tail(work[p]) = Rings(position)
      /\ Rings(position) \in Seq(Calls) /\ Muted(position) \in BOOLEAN
  BY <1>1, Shapes
<1>3. muted' = Muted(position) /\ work' = [work EXCEPT ![p] = Rings(position)]
  BY <1>2 DEF AdjustStreamVolume
<1>4. work'[p] = Rings(position) /\ \A q \in Processes : q # p => work'[q] = work[q]
  BY <1>3 DEF SliderInv, SliderTypeOK
<1>5. /\ slider' = slider /\ slider \in Positions /\ ringer' = ringer /\ booted' = booted
      /\ raced' = raced /\ dropped' = dropped /\ socket' = socket
  BY DEF SliderInv, SliderTypeOK, AdjustStreamVolume, netlink, history
<1>6. SliderTypeOK'
  BY <1>2, <1>3, <1>5 DEF SliderInv, SliderTypeOK, AdjustStreamVolume, netlink,
         history
<1>7. WorkInv'
  BY <1>4 DEF SliderInv, WorkInv, Applying
<1>8. ~Unread' => ~Unread
  <2>1. work[p] # Reads
    BY <1>1, ApplyingOne DEF Applying
  <2> QED
    BY <1>4, <1>5, <2>1 DEF Unread
<1>9. ASSUME ~Unread', ~raced' PROVE AppliesSlider' /\ AudioInv'
  <2>1. AppliesSlider /\ AudioInv
    BY <1>5, <1>8, <1>9 DEF SliderInv
  <2>2. position = slider
    BY <1>1, <2>1 DEF AppliesSlider, Applying
  <2>3. AppliesSlider'
    <3>1. ASSUME NEW q \in Processes, NEW l \in Positions, Applying(work'[q], l)
          PROVE  l = slider
      <4>1. CASE q = p
        <5>1. Applying(Rings(position), l) /\ Applying(Rings(position), position)
          BY <1>4, <3>1, <4>1 DEF Applying
        <5>2. position = l
          BY <5>1, ApplyingOne
        <5> QED
          BY <2>2, <5>2
      <4>2. CASE q # p
        BY <1>4, <2>1, <3>1, <4>2 DEF AppliesSlider
      <4> QED
        BY <4>1, <4>2
    <3> QED
      BY <1>5, <3>1 DEF AppliesSlider
  <2>4. muted' = Muted(slider) /\ Applying(work'[p], slider)
    BY <1>3, <1>4, <2>2 DEF Applying
  <2>5. AudioInv'
    BY <1>5, <2>4 DEF AudioInv
  <2> QED
    BY <2>3, <2>5
<1> QED
  BY <1>6, <1>7, <1>9 DEF SliderInv

LEMMA SetRingerModeInternalInv ==
  ASSUME SliderInv, NEW p \in Processes, SetRingerModeInternal(p)
  PROVE  SliderInv'
<1>1. PICK position \in Positions : work[p] = Rings(position)
  BY NextCall DEF SliderInv, SetRingerModeInternal, Call, Idle
<1>2. /\ Head(work[p])[2] = Ringer(position) /\ Tail(work[p]) = << >>
      /\ Ringer(position) \in Ringers
      /\ << >> \in Seq(Calls)
  BY <1>1, Shapes
<1>3. ringer' = Ringer(position) /\ work' = [work EXCEPT ![p] = << >>]
  BY <1>2 DEF SetRingerModeInternal
<1>4. work'[p] = << >> /\ \A q \in Processes : q # p => work'[q] = work[q]
  BY <1>3 DEF SliderInv, SliderTypeOK
<1>5. /\ slider' = slider /\ slider \in Positions /\ muted' = muted
      /\ raced' = raced /\ dropped' = dropped /\ socket' = socket
  BY DEF SliderInv, SliderTypeOK, SetRingerModeInternal, netlink
<1>6. SliderTypeOK'
  BY <1>2, <1>3, <1>5 DEF SliderInv, SliderTypeOK, SetRingerModeInternal, netlink
<1>7. WorkInv'
  BY <1>4 DEF SliderInv, WorkInv
<1>8. ~Unread' => ~Unread
  <2>1. work[p] # Reads
    BY <1>1, ApplyingOne DEF Applying
  <2> QED
    BY <1>4, <1>5, <2>1 DEF Unread
<1>9. ASSUME ~Unread', ~raced' PROVE AppliesSlider' /\ AudioInv'
  <2>1. AppliesSlider /\ AudioInv
    BY <1>5, <1>8, <1>9 DEF SliderInv
  <2>2. position = slider
    BY <1>1, <2>1 DEF AppliesSlider, Applying
  <2>3. AppliesSlider'
    <3>1. ASSUME NEW q \in Processes, NEW l \in Positions, Applying(work'[q], l)
          PROVE  l = slider
      <4>1. CASE q = p
        BY <1>4, <3>1, <4>1, ApplyingOne
      <4>2. CASE q # p
        BY <1>4, <2>1, <3>1, <4>2 DEF AppliesSlider
      <4> QED
        BY <4>1, <4>2
    <3> QED
      BY <1>5, <3>1 DEF AppliesSlider
  <2>4. work[p] # SetPosition(slider)
    <3>1. Head(Rings(slider))[1] = "ringer" /\ Head(SetPosition(slider))[1] = "mute"
      BY <1>5, Shapes
    <3> QED
      BY <1>1, <2>2, <3>1
  <2>5. muted' = Muted(slider) \/ \E q \in Processes : work'[q] = SetPosition(slider)
    BY <1>1, <1>4, <1>5, <2>1, <2>2, <2>4 DEF AudioInv, Applying
  <2>6. ringer' = Ringer(slider)
    BY <1>3, <2>2
  <2>7. AudioInv'
    BY <1>5, <2>5, <2>6 DEF AudioInv
  <2> QED
    BY <2>3, <2>7
<1> QED
  BY <1>6, <1>7, <1>9 DEF SliderInv

LEMMA SliderInvNext == SliderInv /\ [SliderNext]_sliderVars => SliderInv'
<1> SUFFICES ASSUME SliderInv, [SliderNext]_sliderVars PROVE SliderInv'
  OBVIOUS
<1>1. CASE \E position \in Positions : Move(position)
  BY <1>1, MoveInv
<1>2. CASE \E m \in Messages : OtherUevent(m)
  BY <1>2, OtherUeventInv
<1>3. CASE ReadUevent
  BY <1>3, ReadUeventInv
<1>4. CASE PollAgain
  BY <1>4, PollAgainInv
<1>5. CASE ServiceConnected
  BY <1>5, ServiceConnectedInv
<1>6. CASE \E p \in Processes : Step(p)
  BY <1>6, ReadStateInv, ReadFailsInv, AdjustStreamVolumeInv, SetRingerModeInternalInv DEF Step
<1>7. CASE UNCHANGED sliderVars
  <2>1. SliderTypeOK'
    BY <1>7 DEF SliderInv, SliderTypeOK, sliderVars, netlink, history
  <2>2. Unread => Unread'
    BY <1>7 DEF Unread, sliderVars, netlink, history
  <2> QED
    BY <1>7, <2>1, <2>2, MoreToRead DEF sliderVars, netlink, history
<1> QED
  BY <1>1, <1>2, <1>3, <1>4, <1>5, <1>6, <1>7 DEF SliderNext

\* AudioFollowsSlider of TriStateKey for a socket of any size: with no uevent
\* unread, no audio call still to make, no dropped move and no race between the
\* daemon and onServiceConnected, music stream and ringer are those of the slider.
THEOREM SliderFollowed == SliderSpec => []AudioFollowsSlider
<1>1. SliderInv => AudioFollowsSlider
  <2> SUFFICES ASSUME SliderInv, booted, Still, ~raced, ~dropped
               PROVE  muted = Muted(slider) /\ ringer = Ringer(slider)
    BY DEF AudioFollowsSlider
  <2>1. \A p \in Processes : work[p] = << >>
    BY DEF Still, Idle, Processes
  <2>2. ~Unread
    BY <2>1 DEF Unread, Reads, Still
  <2>3. slider \in Positions /\ SetPosition(slider) # << >> /\ Rings(slider) # << >>
    BY Shapes DEF SliderInv, SliderTypeOK
  <2> QED
    BY <2>1, <2>2, <2>3 DEF SliderInv, AudioInv, Applying
<1>2. SliderSpec => []SliderInv
  BY SliderInvInit, SliderInvNext, PTL DEF SliderSpec
<1> QED
  BY <1>1, <1>2, PTL

-----------------------------------------------------------------------------
\* Whatever the vendor answers is a sequence.
LEMMA StringsAreSequences ==
  ASSUME NEW s \in Ril!Strings
  PROVE  s \in Seq(Ril!Characters)
BY DEF Ril!Strings

\* At most all characters are counted.
LEMMA CharcountBound ==
  ASSUME NEW s \in Seq(Ril!Characters)
  PROVE  Ril!Charcount(s) \in 0 .. Len(s)
<1> DEFINE counted == {m \in 1 .. Len(s) : s[m] # "space"}
<1>1. Len(s) \in Nat
  OBVIOUS
<1>2. IsFiniteSet(1 .. Len(s)) /\ Cardinality(1 .. Len(s)) = Len(s)
  <2>1. 1 \in Int /\ Len(s) \in Int
    BY <1>1
  <2>2. /\ IsFiniteSet(1 .. Len(s))
        /\ Cardinality(1 .. Len(s)) = IF 1 > Len(s) THEN 0 ELSE Len(s) - 1 + 1
    BY <2>1, FS_Interval, Zenon
  <2>3. (IF 1 > Len(s) THEN 0 ELSE Len(s) - 1 + 1) = Len(s)
    BY <1>1
  <2> QED BY <2>2, <2>3
<1>3. counted \subseteq 1 .. Len(s)
  OBVIOUS
<1> HIDE DEF counted
<1>4. IsFiniteSet(counted) /\ Cardinality(counted) <= Cardinality(1 .. Len(s))
  BY <1>2, <1>3, FS_Subset, Zenon
<1>5. Cardinality(counted) \in Nat
  BY <1>4, FS_CardinalityType
<1>6. Ril!Charcount(s) = Cardinality(counted)
  BY DEF counted, Ril!Charcount, Ril!Cardinality, Cardinality, Ril!IsFiniteSet, IsFiniteSet
<1>7. Cardinality(counted) <= Len(s)
  BY <1>2, <1>4
<1> QED
  BY <1>1, <1>5, <1>6, <1>7

\* The loop that fills finalResponse stays inside tempResponse.
LEMMA ShortenedBound ==
  ASSUME MaxLength \in Nat, NEW s \in Seq(Ril!Characters)
  PROVE  \A m \in DOMAIN Ril!Shortened(s) : Ril!Shortened(s)[m] \in 1 .. Len(s)
<1>1. Ril!Charcount(s) \in 0 .. Len(s) /\ Len(s) \in Nat
  BY CharcountBound
<1>2. CASE Ril!Charcount(s) - MaxLength > 0
  BY <1>1, <1>2 DEF Ril!Shortened, Ril!TooLong
<1>3. CASE ~(Ril!Charcount(s) - MaxLength > 0)
  BY <1>1, <1>3 DEF Ril!Shortened, Ril!TooLong, Ril!Whole
<1> QED
  BY <1>2, <1>3

\* onRequestCompleteShim never reads behind the end of the vendor's string.
THEOREM ReadsInBounds ==
  ASSUME MaxLength \in Nat
  PROVE  Ril!Spec => []Ril!InBounds
<1>1. Ril!Init => Ril!InBounds
  BY DEF Ril!Init, Ril!InBounds
<1>2. Ril!InBounds /\ [Ril!Next]_(Ril!vars) => Ril!InBounds'
  <2> SUFFICES ASSUME Ril!InBounds, [Ril!Next]_(Ril!vars) PROVE Ril!InBounds'
    OBVIOUS
  <2>1. CASE Ril!RilInit
    BY <2>1 DEF Ril!RilInit, Ril!InBounds
  <2>2. ASSUME NEW s \in Ril!Strings, NEW version \in BOOLEAN, Ril!OnRequestComplete(s, version)
        PROVE  Ril!InBounds'
    <3>1. s \in Seq(Ril!Characters)
      BY StringsAreSequences
    <3>2. \A m \in DOMAIN Ril!Shortened(s) : Ril!Shortened(s)[m] \in 1 .. Len(s)
      BY <3>1, ShortenedBound
    <3>3. \A m \in DOMAIN Ril!Whole(s) : Ril!Whole(s)[m] \in 1 .. Len(s)
      BY <3>1 DEF Ril!Whole
    <3> QED
      BY <2>2, <3>2, <3>3 DEF Ril!OnRequestComplete, Ril!InBounds
  <2>3. CASE UNCHANGED Ril!vars
    BY <2>3 DEF Ril!vars, Ril!InBounds
  <2> QED
    BY <2>1, <2>2, <2>3 DEF Ril!Next
<1> QED
  BY <1>1, <1>2, PTL DEF Ril!Spec
=============================================================================
