---------------------------- MODULE LightDaemon ----------------------------
(* How a colour reaches the LED: LedLightManager.setColor writes four system *)
(* properties one after the other and then starts the oneshot service        *)
(* light_daemon (custom_light/main.cpp), which reads them one after the      *)
(* other, in another order, and writes them one after the other to the       *)
(* nodes of the LED driver.  Nothing makes setColor wait for the daemon.     *)
EXTENDS LedRamp, Sequences

CONSTANTS Requests, \* colours: records red, green, blue, blink, onMs, offMs
          Victims   \* where the build may place the byte behind blink[1]

ASSUME RequestsAssumption ==
  Requests \subseteq [red : 0 .. 255, green : 0 .. 255, blue : 0 .. 255,
                      blink : {0, 1}, onMs : Nat, offMs : Nat]
ASSUME VictimsAssumption == Victims \subseteq {"red", "green", "blue", "none"}

VARIABLES request,  \* arguments of the last setColor
          writing,  \* properties setColor has still to write, then "start"
          prop,     \* the system properties
          reading,  \* << >>, or what the running daemon has still to read and do
          buf,      \* the daemon's local buffers
          written,  \* how many nodes it has written since its reads
          rgbBlink, \* the LED driver: the node rgb_blink,
          node,     \* and brightness and blink pattern of each channel
          victim,   \* the buffer the terminator of blink[1] lands in, if any
          outcome,  \* history: how the last ctl.start went, "shown" unless the
                    \* daemon was already reading ("ignored") or crashed
          since     \* history: the requests of which the daemon may have read a part

vars == <<request, writing, prop, reading, buf, written, rgbBlink, node, victim, outcome, since>>
app == <<request, writing, prop>>
driver == <<rgbBlink, node>>

Channels == {"red", "green", "blue"}
Names == Channels \cup {"blink"}
PatternFields == {"startIdx", "duty", "pauseLo", "pauseHi", "step"}
Fields == PatternFields \cup {"brightness"}

\* What setColor computes for each property.
Value(r, name) == IF name = "blink" THEN r.blink ELSE Channel(name, r[name], r.onMs, r.offMs)
Values(r) == [name \in Names |-> Value(r, name)]

\* The part of a channel's property that goes to a node.
Field(c, field) == IF field = "brightness" THEN c.value ELSE c.pattern[field]

\* What is in a buffer that was not read, or was overwritten: its tokens are used
\* uninitialised.
Garbage == [value |-> -1, pattern |-> [startIdx |-> -1, duty |-> << >>, pauseLo |-> -1,
                                       pauseHi |-> -1, step |-> -1]]
Blank == [name \in Names |-> IF name = "blink" THEN 0 ELSE Garbage]

\* Mutated form: the daemon is started first.
MutSetColorOrder == <<"start", "blink", "red", "green", "blue">>
\* setColor, setRedLight, setGreenLight, setBlueLight, then ctl.start.
SetColorOrder == <<"blink", "red", "green", "blue", "start">>
\* main: the order of the property reads, then the writes to the driver.
MainOrder == <<"red", "blue", "green", "blink", "off", "nodes">>

\* The nodes in the order in which their streams are closed.
SteadyNodes == << <<"red", "brightness">>, <<"blue", "brightness">>, <<"green", "brightness">> >>
BlinkNodes ==
  << <<"red", "startIdx">>, <<"blue", "startIdx">>, <<"green", "startIdx">>,
     <<"blue", "duty">>, <<"red", "duty">>, <<"green", "duty">>,
     <<"blue", "pauseLo">>, <<"red", "pauseLo">>, <<"green", "pauseLo">>,
     <<"blue", "pauseHi">>, <<"red", "pauseHi">>, <<"green", "pauseHi">>,
     <<"red", "step">>, <<"blue", "step">>, <<"green", "step">> >>
NodesOf(blink) == IF blink = 0 THEN SteadyNodes ELSE BlinkNodes

\* A colour was set before and is shown.
Init ==
  /\ request \in Requests
  /\ prop = Values(request)
  /\ rgbBlink = request.blink
  /\ node = [x \in Channels \X Fields |-> Field(Values(request)[x[1]], x[2])]
  /\ writing = << >> /\ reading = << >> /\ buf = Blank /\ written = 0
  /\ victim \in Victims
  /\ outcome = "shown" /\ since = {request}

\* setColor(r) is called (main thread of LedManagerExtra, one call at a time, the
\* next one in the same handler if need be).
SetColor(r) ==
  /\ writing = << >>
  /\ request' = r /\ writing' = SetColorOrder
  /\ since' = since \cup {r}
  /\ UNCHANGED <<prop, reading, buf, written, driver, victim, outcome>>

\* Utils.setProp of the next property.
SetProp ==
  /\ writing # << >> /\ Head(writing) # "start"
  /\ prop' = [prop EXCEPT ![Head(writing)] = Value(request, Head(writing))]
  /\ writing' = Tail(writing)
  /\ UNCHANGED <<request, reading, buf, written, driver, victim, outcome, since>>

\* ctl.start: init starts the service, or ignores the order while it is running.
CtlStart ==
  /\ writing # << >> /\ Head(writing) = "start"
  /\ writing' = Tail(writing)
  /\ \/ /\ reading = << >>
        /\ reading' = MainOrder /\ outcome' = "shown" /\ since' = {request}
     \/ /\ reading # << >>
        /\ outcome' = IF reading = MainOrder THEN outcome ELSE "ignored"
        /\ UNCHANGED <<reading, since>>
  /\ UNCHANGED <<request, prop, buf, written, driver, victim>>

-----------------------------------------------------------------------------
(* The daemon.                                                               *)

\* __system_property_get of the next property.  Reading "0" or "1" into
\* blink[1] writes its terminator behind the buffer.
GetProp ==
  /\ reading # << >> /\ Head(reading) \in Names
  /\ buf' = [n \in Names |-> IF n = Head(reading) THEN prop[n]
                             ELSE IF Head(reading) = "blink" /\ n = victim THEN Garbage
                             ELSE buf[n]]
  /\ reading' = Tail(reading)
  /\ UNCHANGED <<app, written, driver, victim, outcome, since>>

\* Mutated form: blinking goes on.
MutBlinkOff ==
  /\ reading = <<"off", "nodes">>
  /\ reading' = <<"nodes">>
  /\ UNCHANGED <<app, buf, written, driver, victim, outcome, since>>
\* rgb_blink 0, in any case.
BlinkOff ==
  /\ reading = <<"off", "nodes">>
  /\ rgbBlink' = 0
  /\ reading' = <<"nodes">>
  /\ UNCHANGED <<app, buf, written, node, victim, outcome, since>>

\* The stream of the next node is closed, which writes it.  (The blink nodes of
\* the channels, written before a steady colour's, repeat what rgb_blink did.)
WriteNode ==
  LET x == NodesOf(buf["blink"])[written + 1]
  IN  /\ reading = <<"nodes">> /\ written < Len(NodesOf(buf["blink"]))
      /\ node' = [node EXCEPT ![x] = Field(buf[x[1]], x[2])]
      /\ written' = written + 1
      /\ UNCHANGED <<app, reading, buf, rgbBlink, victim, outcome, since>>

\* The process ends, and its buffers with it.
Ends == reading' = << >> /\ buf' = Blank /\ written' = 0

\* A steady colour is complete; a blinking one starts to blink with rgb_blink 1.
Finish ==
  /\ reading = <<"nodes">> /\ written = Len(NodesOf(buf["blink"]))
  /\ rgbBlink' = IF buf["blink"] = 1 THEN 1 ELSE rgbBlink
  /\ Ends
  /\ UNCHANGED <<app, node, victim, outcome, since>>

\* The use of an uninitialised token kills the daemon, before any of the nodes'
\* streams is flushed.
Crash ==
  /\ reading = <<"nodes">> /\ written = 0
  /\ \E n \in Channels : buf[n] = Garbage
  /\ outcome' = "crashed"
  /\ Ends
  /\ UNCHANGED <<app, driver, victim, since>>

Daemon == GetProp \/ BlinkOff \/ WriteNode \/ Finish \/ Crash

Next ==
  \/ \E r \in Requests : SetColor(r)
  \/ SetProp \/ CtlStart
  \/ GetProp \/ BlinkOff \/ WriteNode \/ Finish \/ Crash

\* The main thread of LedManagerExtra and the daemon keep running.
Fairness == WF_vars(SetProp \/ CtlStart) /\ WF_vars(Daemon)
Spec == Init /\ [][Next]_vars /\ Fairness

-----------------------------------------------------------------------------
\* Every variable holds a value the programs can give it.
TypeOK ==
  /\ request \in Requests
  /\ DOMAIN prop = Names /\ \A n \in Names : \E r \in Requests : prop[n] = Value(r, n)
  /\ DOMAIN buf = Names /\ buf["blink"] \in {0, 1}
  /\ rgbBlink \in {0, 1} /\ DOMAIN node = Channels \X Fields /\ written \in 0 .. 15
  /\ writing \in Seq(Names \cup {"start"}) /\ reading \in Seq(Names \cup {"off", "nodes"})
  /\ victim \in Channels \cup {"none"} /\ outcome \in {"shown", "ignored", "crashed"}
  /\ since \subseteq Requests

\* Once setColor has written its properties, the blink cycle of every channel
\* takes the requested time, on both sides of the boundary where the full ramp
\* no longer fits, its duty table rises, and no two channels share a table.
CyclesFit ==
  writing = << >> =>
    /\ \A n \in Channels : /\ Fits(prop[n].pattern, request.onMs)
                           /\ Rises(prop[n].pattern, request[n])
    /\ \A m, n \in Channels : m # n => Apart(prop[m].pattern, prop[n].pattern)

\* What is visible of a channel: its brightness in a steady light, its pattern in
\* a blinking one.
Looks(n, r) ==
  \A f \in IF rgbBlink = 0 THEN {"brightness"} ELSE PatternFields :
    node[<<n, f>>] = Field(Value(r, n), f)
\* Part of the LED looks as request r wants it.
Agrees(n, r) == IF n = "blink" THEN rgbBlink = r.blink ELSE Looks(n, r)

AtRest == writing = << >> /\ reading = << >>

\* Once setColor and the daemon are done, the LED shows the colour set last, all of
\* it and nothing of an earlier one, however many calls of setColor overtook
\* earlier runs of the daemon.  Excepted are, up to the next start: a last
\* ctl.start that came when the daemon was already reading, and, in a build with
\* no byte to spare behind blink[1], a crash and the channel whose buffer is hit.
\* The first is what onNotificationRemoved meets, which switches the LED off and
\* sets the charging colour at once; ImplementsLed says what is left of it then.
LatestColorShown ==
  AtRest /\ outcome = "shown" => \A n \in Names \ {victim} : Agrees(n, request)

\* Per part of the LED, the requests it looks like; unspecified while it changes.
Lit == [n \in Names |-> IF reading = << >> THEN {r \in Requests : Agrees(n, r)} ELSE {}]

\* Seen from outside, setColor is a request that is soon followed by one change of
\* the LED to it, or falls into a change in progress; a change ends, and every
\* part of the LED then looks as some request wanted it that was made since the
\* change began; outside of a change the LED keeps its look.
LedImpl == INSTANCE Led WITH
             Parts <- Names, requested <- request, pending <- writing # << >>,
             changing <- reading # << >>, lit <- Lit, fragile <- victim # "none"
ImplementsLed == LedImpl!Spec
=============================================================================
