------------------------ MODULE BluetoothBatteryIcon ------------------------
(* BluetoothBatteryIcon.java: one status bar icon for all Bluetooth devices,  *)
(* driven by broadcasts about the adapter, the links and the battery levels.  *)
(*                                                                            *)
(* Broadcasts are handled in the order they were sent, some time later.  The  *)
(* icon lives in SystemUI and outlives the process.                           *)
EXTENDS Integers, Sequences, FiniteSets

CONSTANTS Devices,   \* Bluetooth devices
          MaxQueue   \* bound on broadcasts in flight

ASSUME DevicesAssumption == IsFiniteSet(Devices) /\ MaxQueue \in Nat

VARIABLES listening, \* the receiver is registered
          off,       \* isBluetoothOff
          addrs,     \* mBluetoothBatteryConnectedAddress
          count,     \* bluetoothDeviceConnected
          icon,      \* what bluetooth_extra shows
          hidden,    \* the default icon is in icon_blacklist
          adapter,   \* the adapter is on
          links,     \* devices connected
          reported,  \* connected devices that have reported a level
          queue,     \* broadcasts in flight
          missed,    \* history: the process died with devices connected or
                     \* broadcasts in flight, and the adapter was not off since
          late       \* history: addrs holds a device whose level was sent after
                     \* it had gone, and addrs was not empty since

fields == <<off, addrs, count>>
outputs == <<icon, hidden>>
radio == <<adapter, links, reported>>
vars == <<listening, fields, outputs, radio, queue, missed, late>>

\* Levels told apart: -1 and -100, 0 to 9, 10 to 100.
Levels == {"unknown", "low", "some"}
Icons == {"none", "connected", "blank", "battery"}
\* gone, for the history only: the device was not connected when it was sent.
Events ==
  [type : {"on", "off"}] \cup [type : {"connected", "disconnected"}, device : Devices]
    \cup [type : {"battery"}, device : Devices, level : Levels, gone : BOOLEAN]

Init ==
  /\ listening = FALSE
  /\ off = TRUE /\ addrs = {} /\ count = 0
  /\ icon = "none" /\ hidden = FALSE
  /\ adapter \in BOOLEAN /\ links = {} /\ reported = {}
  /\ queue = << >> /\ missed = FALSE /\ late = FALSE

\* updateBatteryLevel: below ten no drawable is chosen and the icon is blank.
UpdateBatteryLevel(level) ==
  /\ hidden' = TRUE
  /\ icon' = CASE level = "unknown" -> "connected"
               [] level = "low" -> "blank"
               [] level = "some" -> "battery"

\* Clears everything: the adapter is off or the last device has gone.
AllGone ==
  /\ addrs' = {} /\ icon' = "none" /\ off' = TRUE /\ count' = 0
  /\ UNCHANGED hidden

StateChanged(state) ==
  \/ /\ state = "on"
     /\ hidden' = TRUE
     /\ UNCHANGED <<fields, icon>>
  \/ /\ state = "off"
     /\ AllGone

\* Mutated form: only a device with a battery is counted out.
MutAclDisconnected(d) ==
  \/ /\ count - 1 <= 0
     /\ AllGone
  \/ /\ count - 1 > 0 /\ addrs \ {d} # {}
     /\ addrs' = addrs \ {d} /\ count' = (IF d \in addrs THEN count - 1 ELSE count) /\ off' = FALSE
     /\ UNCHANGED outputs
  \/ /\ count - 1 > 0 /\ addrs \ {d} = {}
     /\ addrs' = {} /\ count' = count - 1 /\ off' = TRUE
     /\ UpdateBatteryLevel("unknown")
\* Mutated form: the icon is left when the last battery has gone.
MutAclDisconnectedKeepsIcon(d) ==
  \/ /\ count - 1 <= 0
     /\ AllGone
  \/ /\ count - 1 > 0
     /\ addrs' = addrs \ {d} /\ count' = count - 1 /\ off' = FALSE
     /\ UNCHANGED outputs
AclDisconnected(d) ==
  \/ /\ count - 1 <= 0
     /\ AllGone
  \/ /\ count - 1 > 0 /\ addrs \ {d} # {}
     /\ addrs' = addrs \ {d} /\ count' = count - 1 /\ off' = FALSE
     /\ UNCHANGED outputs
  \/ /\ count - 1 > 0 /\ addrs \ {d} = {}
     /\ addrs' = {} /\ count' = count - 1 /\ off' = TRUE
     /\ UpdateBatteryLevel("unknown")

AclConnected ==
  /\ IF addrs = {} THEN UpdateBatteryLevel("unknown") ELSE UNCHANGED outputs
  /\ count' = count + 1 /\ off' = FALSE
  /\ UNCHANGED addrs

\* Mutated form: the icon is drawn whatever isBluetoothOff says.
MutBatteryLevelChanged(d, level) ==
  /\ UpdateBatteryLevel(level)
  /\ addrs' = IF level = "unknown" THEN addrs ELSE addrs \cup {d}
  /\ UNCHANGED <<count, off>>
BatteryLevelChanged(d, level) ==
  /\ IF off THEN UNCHANGED outputs ELSE UpdateBatteryLevel(level)
  /\ addrs' = IF level = "unknown" THEN addrs ELSE addrs \cup {d}
  /\ UNCHANGED <<count, off>>

\* mBluetoothReceiver.
OnReceive ==
  LET e == Head(queue)
  IN  /\ queue # << >>
      /\ queue' = Tail(queue)
      /\ \/ e.type \in {"on", "off"} /\ StateChanged(e.type)
         \/ e.type = "connected" /\ AclConnected
         \/ e.type = "disconnected" /\ AclDisconnected(e.device)
         \/ e.type = "battery" /\ BatteryLevelChanged(e.device, e.level)
      /\ missed' = (missed /\ e.type # "off")
      /\ late' = (addrs' # {} /\ (late \/ (e.type = "battery" /\ e.level # "unknown" /\ e.gone)))
      /\ UNCHANGED <<listening, radio>>

\* onStartup, from onServiceConnected.
OnStartup ==
  /\ ~listening
  /\ listening' = TRUE
  /\ UNCHANGED <<fields, outputs, radio, queue, missed, late>>

\* onClose from onDestroy, or the process dies: a new object starts empty.
OnClose ==
  /\ listening
  /\ listening' = FALSE
  /\ off' = TRUE /\ addrs' = {} /\ count' = 0
  /\ queue' = << >> /\ late' = FALSE
  /\ missed' = (missed \/ links # {} \/ queue # << >>)
  /\ UNCHANGED <<outputs, radio>>

-----------------------------------------------------------------------------
\* The Bluetooth stack, external: it broadcasts what happens to whoever listens.
Sends(e) ==
  /\ Len(queue) < MaxQueue
  /\ queue' = IF listening THEN Append(queue, e) ELSE queue
  /\ UNCHANGED <<listening, fields, outputs, late>>

AdapterSwitched ==
  /\ adapter' = ~adapter /\ links' = {} /\ reported' = {}
  /\ Sends([type |-> IF adapter THEN "off" ELSE "on"])
  /\ missed' = (missed \/ (~listening /\ links # {}))

DeviceConnects(d) ==
  /\ adapter /\ d \notin links
  /\ links' = links \cup {d}
  /\ Sends([type |-> "connected", device |-> d])
  /\ missed' = (missed \/ ~listening)
  /\ UNCHANGED <<adapter, reported>>

DeviceDisconnects(d) ==
  /\ d \in links
  /\ links' = links \ {d} /\ reported' = reported \ {d}
  /\ Sends([type |-> "disconnected", device |-> d])
  /\ missed' = (missed \/ ~listening)
  /\ UNCHANGED adapter

\* A level is reported, by a connected device or by one that has just gone: the
\* stack sends levels and links by two paths, and also resets the level.
BatteryReport(d, level) ==
  /\ reported' = IF d \in links /\ level # "unknown" THEN reported \cup {d} ELSE reported
  /\ Sends([type |-> "battery", device |-> d, level |-> level, gone |-> d \notin links])
  /\ UNCHANGED <<adapter, links, missed>>

Next ==
  \/ OnReceive \/ OnStartup \/ OnClose \/ AdapterSwitched
  \/ \E d \in Devices :
       \/ DeviceConnects(d) \/ DeviceDisconnects(d)
       \/ \E level \in Levels : BatteryReport(d, level)

Spec == Init /\ [][Next]_vars

-----------------------------------------------------------------------------
\* Every variable holds a value the program can give it; the count is never
\* negative.
TypeOK ==
  /\ listening \in BOOLEAN /\ off \in BOOLEAN /\ addrs \subseteq Devices /\ count \in Nat
  /\ icon \in Icons /\ hidden \in BOOLEAN
  /\ adapter \in BOOLEAN /\ links \subseteq Devices /\ reported \subseteq links
  /\ queue \in Seq(Events) /\ missed \in BOOLEAN /\ late \in BOOLEAN

\* All broadcasts have been handled, and none was missed that matters.
Settled == listening /\ queue = << >> /\ ~missed

\* The running count is the number of devices connected, over any interleaving
\* of links and adapter changes: increments, decrements and resets never drift.
CountFollows == Settled => count = Cardinality(links)

\* The icon is never left behind without a device, it replaces the default one
\* ("If we are showing the default bluetooth icon, remove that now",
\* BluetoothBatteryIcon.java), and it is there while a device is connected.
\* The last part excepts a level that arrived after its device had gone: the
\* device stays in the list, and the next one to connect draws no icon.  A
\* process that dies with devices connected is excepted until the adapter goes
\* off: the icon outlives it, the count does not.
IconFollows ==
  Settled => /\ icon # "none" => links # {} /\ hidden
             /\ links # {} /\ ~late => icon # "none"

\* A battery is only shown while a device that reported one is connected
\* ("bluetooth devices without battery are still connected"), a level that
\* arrived after its device had gone excepted.
BatteryIsThere ==
  Settled /\ ~late /\ icon \in {"battery", "blank"} => addrs # {} /\ addrs \subseteq reported
=============================================================================
