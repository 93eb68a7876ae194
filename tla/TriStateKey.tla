----------------------------- MODULE TriStateKey -----------------------------
(* The alert slider: tri-state-key_daemon follows uevents of the kernel, and *)
(* MainService.onServiceConnected applies the position once when it starts.  *)
(*                                                                           *)
(* Both read the position first and then set the music stream and the ringer *)
(* with separate calls to the audio service, in two processes without a      *)
(* lock: each is the list of calls it still has to make.                     *)
EXTENDS Naturals, Sequences

CONSTANT MaxSocket  \* uevents that fit the daemon's socket

ASSUME SliderAssumption == MaxSocket \in Nat

VARIABLES slider,   \* position of the slider, the kernel's state node
          socket,   \* uevents in the netlink socket
          overrun,  \* the kernel dropped a uevent; the next read fails
          uevent,   \* the daemon's Uevent: what it parsed last in this batch
          work,     \* per process, the calls still to make
          muted,    \* STREAM_MUSIC is muted
          ringer,   \* ringer mode
          booted,   \* onServiceConnected has run once
          raced,    \* history: both processes were applying, different positions
          dropped   \* history: a move was not reported, or the node could not be
                    \* read, and it was not read since

netlink == <<socket, overrun>>
history == <<booted, raced, dropped>>
sliderVars == <<slider, netlink, uevent, work, muted, ringer, history>>
audio == <<muted, ringer>>

Positions == 1 .. 3
Messages == {"key", "other", "huge"}   \* huge: does not fit the buffer
Processes == {"daemon", "service"}
Ringers == {"silent", "vibrate", "normal"}
Calls == {<<"state">>} \cup ({"mute"} \X BOOLEAN) \cup ({"ringer"} \X Ringers)

Idle(p) == work[p] = << >>
Still == Idle("daemon") /\ Idle("service") /\ socket = << >> /\ ~overrun

\* The music stream is muted in the silent position.
Muted(position) == position = 1
\* Silent, vibration and normal mode.
Ringer(position) ==
  CASE position = 1 -> "silent" [] position = 2 -> "vibrate" [] position = 3 -> "normal"

\* Mutated form: the music stream is forgotten.
MutSetPosition(position) == << <<"ringer", Ringer(position)>> >>
\* The calls that set a position (the daemon's vibration is left out).
SetPosition(position) == << <<"mute", Muted(position)>>, <<"ringer", Ringer(position)>> >>

SliderInit ==
  /\ slider \in Positions
  /\ socket = << >> /\ overrun = FALSE /\ uevent = "none"
  /\ work = [p \in Processes |-> << >>]
  /\ muted \in BOOLEAN /\ ringer \in Ringers
  /\ booted = FALSE /\ raced = FALSE /\ dropped = FALSE

\* A message that does not fit the receive buffer of the socket is lost.
KernelSends(m) ==
  /\ socket' = (IF Len(socket) < MaxSocket THEN Append(socket, m) ELSE socket)
  /\ overrun' = (overrun \/ Len(socket) >= MaxSocket)

\* The slider moves and the kernel sends a uevent.
Move(position) ==
  /\ position # slider
  /\ slider' = position
  /\ KernelSends("key")
  /\ dropped' = (dropped \/ Len(socket) >= MaxSocket)
  /\ UNCHANGED <<uevent, work, audio, booted, raced>>

OtherUevent(m) ==
  /\ m # "key"
  /\ KernelSends(m)
  /\ UNCHANGED <<slider, uevent, work, audio, history>>

\* What the daemon's Uevent holds after ReadUevent: a message that does not fit
\* is not parsed, and the Uevent keeps its content.
Parsed(m) == IF m = "huge" THEN uevent ELSE m

\* Mutated form: a message that does not fit is not taken from the socket.
MutReadUevent ==
  /\ Idle("daemon") /\ socket # << >> /\ ~overrun /\ Head(socket) # "huge"
  /\ socket' = Tail(socket)
  /\ uevent' = Head(socket)
  /\ work' = [work EXCEPT !["daemon"] = IF uevent' = "key" THEN << <<"state">> >> ELSE << >>]
  /\ UNCHANGED <<slider, overrun, audio, history>>
\* ReadUevent, then the callback with the Uevent.
ReadUevent ==
  /\ Idle("daemon") /\ socket # << >> /\ ~overrun
  /\ socket' = Tail(socket)
  /\ uevent' = Parsed(Head(socket))
  /\ work' = [work EXCEPT !["daemon"] = IF uevent' = "key" THEN << <<"state">> >> ELSE << >>]
  /\ UNCHANGED <<slider, overrun, audio, history>>

\* ReadUevent fails, after an overrun or with no uevent left: Poll goes round
\* with a fresh Uevent.
PollAgain ==
  /\ Idle("daemon")
  /\ overrun \/ (socket = << >> /\ uevent # "none")
  /\ overrun' = FALSE /\ uevent' = "none"
  /\ UNCHANGED <<slider, socket, work, audio, history>>

\* onServiceConnected, at boot and whenever the service is started again.
ServiceConnected ==
  /\ Idle("service")
  /\ work' = [work EXCEPT !["service"] = << <<"state">> >>]
  /\ UNCHANGED <<slider, netlink, uevent, audio, history>>

Call(p, name) == ~Idle(p) /\ Head(work[p])[1] = name

\* Some process other than p still has to set the ringer for another position.
OtherApplies(p) ==
  \E q \in Processes \ {p} :
    /\ ~Idle(q) /\ Head(work[q])[1] # "state"
    /\ work[q][Len(work[q])] # <<"ringer", Ringer(slider)>>

\* The state node is read.
ReadState(p) ==
  /\ Call(p, "state")
  /\ work' = [work EXCEPT ![p] = SetPosition(slider)]
  /\ raced' = OtherApplies(p) /\ dropped' = FALSE
  /\ UNCHANGED <<slider, netlink, uevent, audio, booted>>

\* The node cannot be read: the daemon's state stays 0 and no branch is taken,
\* the service throws on the empty string.
ReadFails(p) ==
  /\ Call(p, "state")
  /\ work' = [work EXCEPT ![p] = << >>]
  /\ dropped' = TRUE
  /\ UNCHANGED <<slider, netlink, uevent, audio, booted, raced>>

\* adjustStreamVolume of STREAM_MUSIC.
AdjustStreamVolume(p) ==
  /\ Call(p, "mute")
  /\ muted' = Head(work[p])[2]
  /\ work' = [work EXCEPT ![p] = Tail(@)]
  /\ UNCHANGED <<slider, netlink, uevent, ringer, history>>

\* setRingerModeInternal.
SetRingerModeInternal(p) ==
  /\ Call(p, "ringer")
  /\ ringer' = Head(work[p])[2]
  /\ work' = [work EXCEPT ![p] = Tail(@)]
  /\ booted' = (booted \/ p = "service")
  /\ UNCHANGED <<slider, netlink, uevent, muted, raced, dropped>>

Step(p) == ReadState(p) \/ ReadFails(p) \/ AdjustStreamVolume(p) \/ SetRingerModeInternal(p)

SliderNext ==
  \/ \E position \in Positions : Move(position)
  \/ \E m \in Messages : OtherUevent(m)
  \/ ReadUevent \/ PollAgain \/ ServiceConnected
  \/ \E p \in Processes : Step(p)

SliderSpec == SliderInit /\ [][SliderNext]_sliderVars

\* Daemon and service keep running.
SliderFairness == WF_sliderVars(ReadUevent) /\ WF_sliderVars(PollAgain)
                  /\ \A p \in Processes : WF_sliderVars(Step(p))
FairSliderSpec == SliderSpec /\ SliderFairness

-----------------------------------------------------------------------------
\* Every variable holds a value the programs can give it.
SliderTypeOK ==
  /\ slider \in Positions /\ socket \in Seq(Messages) /\ overrun \in BOOLEAN
  /\ uevent \in Messages \cup {"none"}
  /\ work \in [Processes -> Seq(Calls)]
  /\ muted \in BOOLEAN /\ ringer \in Ringers
  /\ booted \in BOOLEAN /\ raced \in BOOLEAN /\ dropped \in BOOLEAN

\* "Set the status at boot following the slider position" (MainService.java),
\* and afterwards: with nothing in flight both audio settings are those of the
\* slider, however fast it was moved and whatever else the kernel reports.
\* Excepted, until the position is next read, are a move whose uevent was
\* dropped, a node that could not be read and the two processes setting different
\* positions at the same time.
AudioFollowsSlider ==
  booted /\ Still /\ ~raced /\ ~dropped => muted = Muted(slider) /\ ringer = Ringer(slider)

\* Once the slider stays where it is, the audio settings get there and stay,
\* with the same exceptions and unless the kernel floods the socket for ever.
SliderIsObeyed ==
  <>[][slider' = slider]_slider /\ <>booted /\ <>[](~raced /\ ~dropped /\ ~overrun) =>
    <>[](muted = Muted(slider) /\ ringer = Ringer(slider))
=============================================================================
