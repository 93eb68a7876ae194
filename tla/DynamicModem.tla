---------------------------- MODULE DynamicModem ----------------------------
(* The "Dynamic Modem" of SettingsExtra: ConnectivityManagerExtra.java and   *)
(* the places where MainService.java drives it.                              *)
(*                                                                           *)
(* Preference changes run on the main thread, network callbacks on the       *)
(* ConnectivityThread, without a lock: each thread is the list of operations *)
(* it still has to do (read a preference, set one modem, set the flag), and  *)
(* the two lists interleave.  Network modes outlive the process; the         *)
(* preference listener, never unregistered, outlives MainService.onDestroy.  *)
EXTENDS Naturals, Sequences

CONSTANTS Modes,     \* network modes the user can choose
          DataSubs,  \* default data subscriptions over time, 0 for none
          MaxEvents  \* bound on undelivered network callbacks

ASSUME ModemAssumption == DataSubs \subseteq Nat /\ MaxEvents \in Nat

VARIABLES proc,        \* "starting", "connected", "destroyed" or "crashed"
          enabled,     \* preference dynamicModem
          mode,        \* preferences preferred_network_mode_key(_wifi)
          hasContext,  \* mContext # null
          isWifiConnected,
          registered,  \* mNetworkCallback is registered
          work,        \* per thread, the operations of the handler in progress
          events,      \* callbacks posted to the ConnectivityThread
          assoc,       \* WifiManager: networkId # -1
          usable,      \* networks that satisfy the request
          modem,       \* per subscription, <<kind, mode>> last set
          sub,         \* default data subscription, 0 = INVALID_SUBSCRIPTION_ID
          modems,      \* getActiveModemCount()
          serving,     \* history: onStartup ran after the last onClose
          strayed      \* history: since the last handler that set everything, one
                       \* was overtaken or cut short, or changed preferences or
                       \* subscriptions were not acted on

vars == <<proc, enabled, mode, hasContext, isWifiConnected, registered, work,
          events, assoc, usable, modem, sub, modems, serving, strayed>>
obj == <<hasContext, isWifiConnected, registered>>
user == <<enabled, mode>>
net == <<assoc, usable>>
sims == <<sub, modems>>

Kinds == {"default", "wifi"}
Threads == {"main", "conn"}
Subs == (DataSubs \cup 1 .. 2) \ {0}
NoMode == <<"untouched", "untouched">>
ModemStates == {NoMode} \cup (Kinds \X Modes)

Ops == ({"flag"} \X BOOLEAN) \cup ({"read"} \X Kinds) \cup ({"set", "other"} \X Subs \X Kinds \X Modes)
       \cup {<<"register">>, <<"checkWifi">>, <<"unregister">>}
Events == [kind : {"available", "lost"}, net : {"wifi", "cell"}, up : BOOLEAN]

Alive == proc \in {"connected", "destroyed"}
Idle(t) == work[t] = << >>
Best(nets) == IF "wifi" \in nets THEN "wifi" ELSE IF "cell" \in nets THEN "cell" ELSE "none"

Init ==
  /\ proc = "starting"
  /\ enabled = FALSE /\ mode \in [Kinds -> Modes]
  /\ hasContext = FALSE /\ isWifiConnected = FALSE /\ registered = FALSE
  /\ work = [t \in Threads |-> << >>] /\ events = << >>
  /\ usable \in SUBSET {"wifi", "cell"} /\ assoc = ("wifi" \in usable)
  /\ modem = [s \in Subs |-> NoMode]
  /\ sub \in DataSubs /\ modems \in 1 .. 2
  /\ serving = FALSE /\ strayed = FALSE

-----------------------------------------------------------------------------
(* The program of a handler, as the list of its operations.                  *)

\* forceDefaultNetworkMode ("default") and forceNetworkMode ("wifi").
ForceNetworkMode(kind) == <<"read", kind>>

\* What is left of it once preference and default data subscription have been
\* read: nothing without a subscription.
SetModems(kind) == IF sub = 0 THEN << >> ELSE << <<"set", sub, kind, mode[kind]>> >>

\* What follows once modem s has been set: the other of the subscriptions 1 and
\* 2, when two modems are active.
SetOther(s, kind, m) ==
  IF modems > 1 /\ s \in 1 .. 2 THEN << <<"other", 3 - s, kind, m>> >> ELSE << >>

\* onStartup: requestNetwork, then a mode based on the Wi-Fi status.
Startup == << <<"register">>, <<"checkWifi">> >>
\* Mutated forms: one half of onClose is missing.
MutClosingKeepsMode == IF hasContext THEN << <<"unregister">> >> ELSE << >>
MutClosingKeepsCallback == IF hasContext THEN <<ForceNetworkMode("default")>> ELSE << >>
\* onClose returns early without a context.
Closing == IF hasContext THEN <<ForceNetworkMode("default"), <<"unregister">> >> ELSE << >>
\* The branches on getConnectionInfo().getNetworkId().
AfterWifiCheck ==
  IF assoc THEN << <<"flag", TRUE>>, ForceNetworkMode("wifi")>>
           ELSE << <<"flag", FALSE>>, ForceNetworkMode("default")>>

\* Mutated form: the flag is not set when Wi-Fi comes.
MutOnAvailable(n) ==
  IF n = "wifi" THEN <<ForceNetworkMode("wifi")>>
                ELSE <<ForceNetworkMode("default"), <<"flag", FALSE>> >>
\* onAvailable of a network whose capabilities can still be read.
OnAvailable(n) ==
  IF n = "wifi" THEN <<ForceNetworkMode("wifi"), <<"flag", TRUE>> >>
                ELSE <<ForceNetworkMode("default"), <<"flag", FALSE>> >>

\* Mutated form: the Wi-Fi status is not looked at.
MutOnLost(e) ==
  IF e.up /\ e.net # "wifi" /\ isWifiConnected
  THEN <<ForceNetworkMode("default"), <<"flag", FALSE>> >> ELSE << >>
\* onLost: Wi-Fi went off, or a network other than Wi-Fi with the flag still set.
OnLost(e) ==
  IF (~assoc /\ isWifiConnected) \/ (e.up /\ e.net # "wifi" /\ isWifiConnected)
  THEN <<ForceNetworkMode("default"), <<"flag", FALSE>> >>
  ELSE << >>

-----------------------------------------------------------------------------
InFlight == ~Idle("main") \/ ~Idle("conn") \/ events # << >> \/ assoc # ("wifi" \in usable)
Quiescent == Idle("main") /\ Idle("conn") /\ events = << >>

\* A step of the world that does not wait for calm.
Overtakes(calm) == strayed' = (strayed \/ ~calm)
\* onStartup and onClose, where they do anything, set everything: begun in calm
\* they end what went astray before.
Begins(ops) ==
  /\ work' = [work EXCEPT !["main"] = ops]
  /\ strayed' = IF ops = << >> THEN strayed ELSE InFlight

ServiceConnected ==
  /\ proc = "starting"
  /\ proc' = "connected"
  /\ Begins(IF enabled THEN Startup ELSE << >>)
  /\ hasContext' = enabled /\ serving' = enabled
  /\ UNCHANGED <<isWifiConnected, registered, user, events, net, modem, sims>>

\* The user flips dynamicModem: onStartup or onClose, of a destroyed service too.
DynamicModemChanged ==
  /\ Alive /\ Idle("main")
  /\ enabled' = ~enabled
  /\ Begins(IF enabled THEN Closing ELSE Startup)
  /\ hasContext' = (hasContext \/ ~enabled) /\ serving' = ~enabled
  /\ UNCHANGED <<proc, mode, isWifiConnected, registered, events, net, modem, sims>>

\* The user chooses another network mode (offered only while dynamicModem is
\* on): forceNetworkSettingsUpdate.  A destroyed service sets a mode as well,
\* although it no longer follows Wi-Fi.
NetworkModeChanged(kind, m) ==
  /\ Alive /\ Idle("main") /\ enabled
  /\ m # mode[kind]
  /\ mode' = [mode EXCEPT ![kind] = m]
  /\ work' = [work EXCEPT !["main"] = << <<"checkWifi">> >>]
  /\ strayed' = (InFlight \/ ~serving)
  /\ UNCHANGED <<proc, enabled, obj, events, net, modem, sims, serving>>

\* The same preferences while nobody listens: the process is gone, or its service
\* not yet connected.
DynamicModemUnseen ==
  /\ ~Alive
  /\ enabled' = ~enabled
  /\ UNCHANGED <<proc, mode, obj, work, events, net, modem, sims, serving, strayed>>
NetworkModeUnseen(kind, m) ==
  /\ ~Alive /\ enabled
  /\ m # mode[kind]
  /\ mode' = [mode EXCEPT ![kind] = m]
  /\ strayed' = TRUE
  /\ UNCHANGED <<proc, enabled, obj, work, events, net, modem, sims, serving>>

\* MainService.onDestroy: onClose, whether or not the service was on.
OnDestroy ==
  /\ proc = "connected" /\ Idle("main")
  /\ proc' = "destroyed"
  /\ Begins(Closing)
  /\ serving' = FALSE
  /\ UNCHANGED <<user, obj, events, net, modem, sims>>

\* Object, work and network request die with the process; modes do not.
ProcessDies ==
  /\ hasContext' = FALSE /\ isWifiConnected' = FALSE /\ registered' = FALSE
  /\ work' = [t \in Threads |-> << >>] /\ events' = << >> /\ serving' = FALSE
  /\ Overtakes(Alive => Quiescent /\ ~serving)
  /\ UNCHANGED <<user, net, modem, sims>>

\* The process is killed, or had crashed, and is started again.
Restart == proc' = "starting" /\ ProcessDies

-----------------------------------------------------------------------------
(* One operation of one thread.                                              *)
Doing(t, op) == Alive /\ ~Idle(t) /\ Head(work[t])[1] = op
Arg(t) == Head(work[t])[2]
Continue(t, ops) == work' = [work EXCEPT ![t] = ops \o Tail(@)]

SetFlag(t) ==
  /\ Doing(t, "flag")
  /\ isWifiConnected' = Arg(t)
  /\ Continue(t, << >>)
  /\ UNCHANGED <<proc, user, hasContext, registered, events, net, modem, sims, serving, strayed>>

ReadMode(t) ==
  /\ Doing(t, "read")
  /\ Continue(t, SetModems(Arg(t)))
  /\ UNCHANGED <<proc, user, obj, events, net, modem, sims, serving, strayed>>

\* setPreferredNetworkTypeBitmask of one subscription.
Sets(t) == modem' = [modem EXCEPT ![Arg(t)] = <<Head(work[t])[3], Head(work[t])[4]>>]

SetMode(t) ==
  /\ Doing(t, "set")
  /\ Sets(t)
  /\ Continue(t, SetOther(Arg(t), Head(work[t])[3], Head(work[t])[4]))
  /\ UNCHANGED <<proc, user, obj, events, net, sims, serving, strayed>>

SetOtherMode(t) ==
  /\ Doing(t, "other")
  /\ Sets(t)
  /\ Continue(t, << >>)
  /\ UNCHANGED <<proc, user, obj, events, net, sims, serving, strayed>>

CheckWifi(t) ==
  /\ Doing(t, "checkWifi")
  /\ Continue(t, AfterWifiCheck)
  /\ UNCHANGED <<proc, user, obj, events, net, modem, sims, serving, strayed>>

Available(n) == [kind |-> "available", net |-> n, up |-> TRUE]

\* requestNetwork: the best network, if any, is announced at once.
Register ==
  /\ Doing("main", "register")
  /\ registered' = TRUE
  /\ events' = IF Best(usable) = "none" THEN << >> ELSE <<Available(Best(usable))>>
  /\ Continue("main", << >>)
  /\ UNCHANGED <<proc, user, hasContext, isWifiConnected, net, modem, sims, serving, strayed>>

\* unregisterNetworkCallback: undelivered callbacks are dropped, a callback in
\* progress on the other thread goes on.
Unregister ==
  /\ Doing("main", "unregister")
  /\ registered' = FALSE
  /\ events' = << >>
  /\ Continue("main", << >>)
  /\ UNCHANGED <<proc, user, hasContext, isWifiConnected, net, modem, sims, serving, strayed>>

\* The last announcement of the network that is used, with nothing else going on:
\* onAvailable, too, sets everything.
UpToDate(e) ==
  /\ serving /\ Idle("main") /\ Tail(events) = << >>
  /\ e.kind = "available"
  /\ assoc = ("wifi" \in usable) /\ (e.net = "wifi") = ("wifi" \in usable)

\* The ConnectivityThread takes the next callback.  getNetworkCapabilities is
\* null for a network that is gone, and onAvailable dereferences it.
Callback ==
  LET e == Head(events)
  IN  /\ Alive /\ Idle("conn") /\ events # << >>
      /\ \/ /\ e.kind = "available" /\ ~e.up
            /\ proc' = "crashed" /\ ProcessDies
         \/ /\ e.kind = "available" => e.up
            /\ events' = Tail(events)
            /\ work' = [work EXCEPT !["conn"] = IF e.kind = "available"
                                                THEN OnAvailable(e.net) ELSE OnLost(e)]
            /\ strayed' = (strayed /\ ~UpToDate(e))
            /\ UNCHANGED <<proc, user, obj, net, modem, sims, serving>>

-----------------------------------------------------------------------------
(* Wi-Fi and the networks, external.                                         *)
Post(es) == /\ Len(events) < MaxEvents
            /\ events' = IF registered THEN events \o es ELSE << >>

\* Wi-Fi associates, or gives up: no callback of its own.
WifiAssociation ==
  /\ Overtakes(Quiescent)
  /\ assoc' = ~assoc
  /\ UNCHANGED <<proc, user, obj, work, events, usable, modem, sims, serving>>

\* A network comes up: it is announced if it is now the best one.
NetworkUp(n) ==
  /\ Overtakes(Idle("main"))
  /\ n \notin usable /\ (n = "wifi" => assoc)
  /\ usable' = usable \cup {n}
  /\ Post(IF Best(usable') = n THEN <<Available(n)>> ELSE << >>)
  /\ UNCHANGED <<proc, user, obj, work, assoc, modem, sims, serving>>

\* A network goes away (up = FALSE) or stops satisfying the request (up, a
\* cellular one).  Capabilities of announced but undelivered networks vanish.
NetworkDown(n, up) ==
  LET posted == [i \in DOMAIN events |->
                   IF events[i].net = n THEN [events[i] EXCEPT !.up = @ /\ up] ELSE events[i]]
      lost == <<[kind |-> "lost", net |-> n, up |-> up]>>
      next == Best(usable \ {n})
  IN  /\ Overtakes(Idle("main") /\ (n = "wifi" => ~assoc))
      /\ n \in usable /\ (up => n = "cell")
      /\ usable' = usable \ {n}
      /\ Len(events) < MaxEvents
      /\ events' = IF ~registered THEN << >>
                   ELSE IF Best(usable) # n THEN posted
                   ELSE IF next = "none" THEN posted \o lost
                   ELSE posted \o lost \o <<Available(next)>>
      /\ UNCHANGED <<proc, user, obj, work, assoc, modem, sims, serving>>

\* A SIM becomes ready or goes, the user picks another one for data, or the
\* modems are configured anew: nothing tells the service.
SubscriptionChanged ==
  /\ sub' \in DataSubs /\ modems' \in 1 .. 2
  /\ sims' # sims /\ strayed' = TRUE
  /\ UNCHANGED <<proc, user, obj, work, events, net, modem, serving>>

Next ==
  \/ ServiceConnected
  \/ DynamicModemChanged
  \/ \E kind \in Kinds, m \in Modes : NetworkModeChanged(kind, m)
  \/ DynamicModemUnseen
  \/ \E kind \in Kinds, m \in Modes : NetworkModeUnseen(kind, m)
  \/ OnDestroy
  \/ Restart
  \/ \E t \in Threads : SetFlag(t)
  \/ \E t \in Threads : ReadMode(t)
  \/ \E t \in Threads : SetMode(t)
  \/ \E t \in Threads : SetOtherMode(t)
  \/ CheckWifi("main")
  \/ Register
  \/ Unregister
  \/ Callback
  \/ WifiAssociation
  \/ \E n \in {"wifi", "cell"} : NetworkUp(n)
  \/ \E n \in {"wifi", "cell"}, up \in BOOLEAN : NetworkDown(n, up)
  \/ SubscriptionChanged

Spec == Init /\ [][Next]_vars

-----------------------------------------------------------------------------
\* Every variable holds a value the program can give it.
TypeOK ==
  /\ proc \in {"starting", "connected", "destroyed", "crashed"}
  /\ enabled \in BOOLEAN /\ mode \in [Kinds -> Modes]
  /\ hasContext \in BOOLEAN /\ isWifiConnected \in BOOLEAN /\ registered \in BOOLEAN
  /\ work \in [Threads -> Seq(Ops)] /\ events \in Seq(Events)
  /\ assoc \in BOOLEAN /\ usable \subseteq {"wifi", "cell"}
  /\ modem \in [Subs -> ModemStates]
  /\ sub \in DataSubs /\ modems \in 1 .. 2 /\ serving \in BOOLEAN /\ strayed \in BOOLEAN

\* The subscriptions the service is responsible for.
Served ==
  IF sub = 0 THEN {} ELSE IF modems > 1 /\ sub \in 1 .. 2 THEN {sub, 3 - sub} ELSE {sub}
On == Alive /\ serving
Off == Alive /\ ~serving

Settled == ~strayed /\ ~InFlight

WantedKind == IF "wifi" \in usable THEN "wifi" ELSE "default"

\* With the service on and nothing in flight, every served modem has the mode the
\* user chose for the current Wi-Fi status; of a destroyed service that was
\* switched on again too.  After a handler was overtaken or cut short, or the
\* subscriptions have changed, this may fail, and holds again from the next
\* preference change or network announcement that is handled in calm.
ModeFollowsWifi ==
  On /\ Settled => \A s \in Served : modem[s] = <<WantedKind, mode[WantedKind]>>

\* Switching the service off, or destroying it, leaves no served modem in Wi-Fi
\* mode.  Excepted are, up to the next onStartup or onClose in calm: an onClose
\* during which the callback thread was at work; a death of the process while
\* the service was on, after which it may be switched off unseen; a mode chosen
\* for a destroyed service; and another subscription.
OffMeansDefault ==
  Off /\ Settled => \A s \in Served : modem[s] \in {NoMode, <<"default", mode["default"]>>}

\* The callback's flag, which onLost relies on to notice that Wi-Fi is gone,
\* agrees with the mode the modems were left in; under the same exceptions.
FlagAgrees ==
  On /\ Settled /\ sub # 0 => isWifiConnected = (modem[sub][1] = "wifi")

\* Switching the service off, before or after it was destroyed, ends the network
\* request by the time the handler is done, whatever the callback thread is doing
\* and whatever went astray before: no exceptions.  onClose without a context,
\* which returns early, never leaves one behind.
OffUnregisters == Off /\ Idle("main") => ~registered

\* "Set the network mode when wifi is connected" (preferences.xml): with the
\* service on, Wi-Fi there and nothing in flight, the default data subscription
\* has the mode chosen for Wi-Fi.  A SIM that becomes ready only then has not:
\* forceNetworkMode returned early, and nothing repeats it.
WifiModeIsSet ==
  On /\ ~InFlight /\ "wifi" \in usable /\ sub # 0 => modem[sub] = <<"wifi", mode["wifi"]>>
=============================================================================
