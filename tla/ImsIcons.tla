------------------------------ MODULE ImsIcons ------------------------------
(* The VoLTE and VoWiFi icons of the status bar: ImsMmTelManagerExtra.java,  *)
(* one object per subscription, and the parts of MainService.java that       *)
(* create and close the objects.                                             *)
(*                                                                           *)
(* Everything runs on the main looper.  A callback that was posted before    *)
(* its registration ended still runs.  Handlers read the state of the moment *)
(* and do the same twice as once, so a queue of them is one flag.            *)
EXTENDS Naturals, Sequences, FiniteSets, SequencesExt

CONSTANTS Kinds,      \* icons: "volte" and "vowifi"
          Subs,       \* subscription ids
          MaxObjects  \* bound on the objects one process creates

ASSUME ImsAssumption ==
  Subs \subseteq Nat \ {0} /\ IsFiniteSet(Subs) /\ MaxObjects \in Nat

VARIABLES svc,        \* "starting", "connected", "destroyed" or "crashed"
          pref,       \* preferences showVolteIcon and showVowifiIcon
          listening,  \* mSubMgrRunning
          mainTodo,   \* a subscription event is posted to MainService
          objs,       \* all ImsMmTelManagerExtra objects of this process
          icon,       \* icons in the status bar: kind and subscription
          ready,      \* telephony answers
          active,     \* active subscriptions
          dataSub,    \* default data subscription, 0 = INVALID_SUBSCRIPTION_ID
          available,  \* per subscription, what can be used at the moment
          irregular   \* history: which of Irregularities have happened

vars == <<svc, pref, listening, mainTodo, objs, icon, ready, active, dataSub,
          available, irregular>>
phone == <<ready, active, dataSub, available>>

Callbacks == {"registration", "capability"}
\* A closed object, or a listener already removed, ran once more; the process
\* died and left icons behind.
Irregularities == {"late", "died"}

\* open: in the map of MainService; regs: callbacks registered with IMS; enabled:
\* isImsExtraEnabled; checks: confirmation runnables are pending; todo, subTodo:
\* a state callback, a subscription event is posted to the object.
Objects == [sub : Subs, open : BOOLEAN, regs : SUBSET Callbacks, enabled : BOOLEAN,
            checks : BOOLEAN, todo : BOOLEAN, subTodo : BOOLEAN]

Alive == svc \in {"connected", "destroyed"}
Wants(p) == \E kind \in Kinds : p[kind]
Open(os) == {os[i].sub : i \in {j \in DOMAIN os : os[j].open}}

-----------------------------------------------------------------------------
(* ImsMmTelManagerExtra.                                                     *)

\* isVolteAvailable and isVowifiAvailable: nothing while telephony is not ready.
Available(s) == IF ready THEN available[s] ELSE {}

\* Mutated form: the preference is not looked at again.
MutShow(icons, kind, s, p) ==
  IF kind \in Available(s) THEN icons \cup {<<kind, s>>} ELSE icons \ {<<kind, s>>}
\* showVolteIcon or showVoWifiIcon of subscription s, under preferences p.
Show(icons, kind, s, p) ==
  IF kind \in Available(s) /\ p[kind] THEN icons \cup {<<kind, s>>} ELSE icons \ {<<kind, s>>}
ShowBoth(icons, ss, p) ==
  {i \in icons : i[2] \notin ss}
  \cup {i \in Kinds \X ss : i[1] \in Available(i[2]) /\ p[i[1]]}

\* onStartup: telephony posts the data state, and the subscriptions if it has them.
OnStartup(s) ==
  [sub |-> s, open |-> TRUE, regs |-> {}, enabled |-> FALSE, checks |-> TRUE,
   todo |-> TRUE, subTodo |-> ready]

\* Mutated form: the confirmation runnables stay.
MutOnClose(o) == [o EXCEPT !.open = FALSE, !.regs = {}, !.enabled = FALSE]
\* onClose.  The subscription listener stays, and so does what is posted.
OnClose(o) == [o EXCEPT !.open = FALSE, !.regs = {}, !.enabled = FALSE, !.checks = FALSE]

\* Every state callback and notifyUserSettingChange asks for confirmation.
Refresh(o) == [o EXCEPT !.checks = TRUE]

\* Mutated form: a failed second registration counts as enabled.
MutEnableImsCallbacks(o, outcome) ==
  CASE outcome = "ok" -> [o EXCEPT !.regs = Callbacks, !.enabled = TRUE, !.todo = TRUE]
    [] outcome = "registrationFails" -> [o EXCEPT !.regs = @ \ {"registration"}]
    [] outcome = "capabilityFails" ->
         [o EXCEPT !.regs = {"registration"}, !.enabled = TRUE, !.todo = TRUE]
\* enableImsCallbacks: either registration may fail.  A new callback is told the
\* current state at once.
EnableImsCallbacks(o, outcome) ==
  CASE outcome = "ok" -> [o EXCEPT !.regs = Callbacks, !.enabled = TRUE, !.todo = TRUE]
    [] outcome = "registrationFails" -> [o EXCEPT !.regs = @ \ {"registration"}]
    [] outcome = "capabilityFails" -> [o EXCEPT !.regs = {"registration"}, !.todo = TRUE]
Outcomes == {"ok", "registrationFails", "capabilityFails"}

\* onSubscriptionsChanged: only for the data subscription, only once.
OnSubscriptionsChanged(o, outcome) ==
  LET d == [o EXCEPT !.subTodo = FALSE]
  IN  IF dataSub = 0 \/ dataSub # o.sub \/ o.enabled THEN d ELSE EnableImsCallbacks(d, outcome)

-----------------------------------------------------------------------------
(* MainService.                                                              *)
\* New subscriptions, in the order telephony lists them.
New(os) == SetToSeq(active \ Open(os))

\* Mutated form: an object is created for every active subscription.
MutManageOn(os) ==
  [i \in DOMAIN os |-> IF os[i].open /\ os[i].sub \notin active THEN OnClose(os[i]) ELSE os[i]]
  \o [i \in DOMAIN SetToSeq(active) |-> OnStartup(SetToSeq(active)[i])]
\* manageImsIcons(true): objects for new subscriptions, none for those gone.
ManageOn(os) ==
  [i \in DOMAIN os |-> IF os[i].open /\ os[i].sub \notin active THEN OnClose(os[i]) ELSE os[i]]
  \o [i \in DOMAIN New(os) |-> OnStartup(New(os)[i])]
\* manageImsIcons(false).
ManageOff(os) == [i \in DOMAIN os |-> IF os[i].open THEN OnClose(os[i]) ELSE os[i]]

\* The icons after manageImsIcons: closed objects remove theirs, new ones show.
IconsOn(os) == ShowBoth({i \in icon : i[2] \in active \/ i[2] \notin Open(os)},
                        active \ Open(os), pref)
IconsOff(os) == {i \in icon : i[2] \notin Open(os)}

Room == Len(objs) + Cardinality(active \ Open(objs)) <= MaxObjects

\* Objects, listeners and posted work die with the process; icons do not.
ProcessDies(next) ==
  /\ svc' = next
  /\ objs' = << >> /\ listening' = FALSE /\ mainTodo' = FALSE
  /\ irregular' = IF icon = {} THEN irregular ELSE irregular \cup {"died"}
  /\ UNCHANGED <<icon, phone>>

Init ==
  /\ svc = "starting" /\ pref \in [Kinds -> BOOLEAN]
  /\ listening = FALSE /\ mainTodo = FALSE /\ objs = << >> /\ icon = {}
  /\ ready = FALSE /\ active = {} /\ dataSub = 0
  /\ available = [s \in Subs |-> {}]
  /\ irregular = {}

ServiceConnected ==
  /\ svc = "starting"
  /\ svc' = "connected"
  /\ listening' = Wants(pref) /\ mainTodo' = (Wants(pref) /\ ready)
  /\ UNCHANGED <<pref, objs, icon, phone, irregular>>

\* A preference is flipped and the user wants some icon: listen, then
\* manageImsIcons(true), then notifyUserSettingChange of every object.
PreferenceOn(kind) ==
  LET p == [pref EXCEPT ![kind] = ~@]
      os == ManageOn(objs)
  IN  /\ Alive /\ Wants(p) /\ ready /\ Room
      /\ pref' = p
      /\ listening' = TRUE /\ mainTodo' = (mainTodo \/ ~listening)
      /\ objs' = [i \in DOMAIN os |-> IF os[i].open THEN Refresh(os[i]) ELSE os[i]]
      /\ icon' = ShowBoth(IconsOn(objs), active, p)
      /\ UNCHANGED <<svc, phone, irregular>>

\* The same before telephony knows the subscriptions: getActiveSubscriptionInfoList
\* returns null, and the loop over it throws.
PreferenceOnTooEarly(kind) ==
  /\ Alive /\ ~ready
  /\ pref' = [pref EXCEPT ![kind] = ~@]
  /\ Wants(pref')
  /\ ProcessDies("crashed")

\* A preference is flipped and no icon is wanted any more.
PreferenceOff(kind) ==
  /\ Alive
  /\ pref' = [pref EXCEPT ![kind] = ~@]
  /\ ~Wants(pref')
  /\ listening' = FALSE
  /\ objs' = ManageOff(objs) /\ icon' = IconsOff(objs)
  /\ UNCHANGED <<svc, mainTodo, phone, irregular>>

\* The user flips a preference while no listener runs for it.
PreferenceChangedUnseen(kind) ==
  /\ svc # "connected"
  /\ pref' = [pref EXCEPT ![kind] = ~@]
  /\ UNCHANGED <<svc, listening, mainTodo, objs, icon, phone, irregular>>

OnDestroy ==
  /\ svc = "connected"
  /\ svc' = "destroyed"
  /\ listening' = FALSE
  /\ IF listening THEN objs' = ManageOff(objs) /\ icon' = IconsOff(objs)
                  ELSE UNCHANGED <<objs, icon>>
  /\ UNCHANGED <<pref, mainTodo, phone, irregular>>

\* The process is killed, or had crashed, and is started again.
Restart == ProcessDies("starting") /\ UNCHANGED pref

\* MainService's subscription listener; it may run once more after its removal.
MainSubscriptionsChanged ==
  /\ Alive /\ mainTodo /\ Room
  /\ mainTodo' = FALSE
  /\ objs' = ManageOn(objs) /\ icon' = IconsOn(objs)
  /\ irregular' = IF listening THEN irregular ELSE irregular \cup {"late"}
  /\ UNCHANGED <<svc, pref, listening, phone>>

LateIf(i) == irregular' = IF objs[i].open THEN irregular ELSE irregular \cup {"late"}

\* The object's own subscription listener, which is never removed.
ObjSubscriptionsChanged(i) ==
  /\ Alive /\ objs[i].subTodo
  /\ \E outcome \in Outcomes :
       objs' = [objs EXCEPT ![i] = OnSubscriptionsChanged(@, outcome)]
  /\ LateIf(i)
  /\ UNCHANGED <<svc, pref, listening, mainTodo, icon, phone>>

\* onDataConnectionStateChanged, onChange, onCapabilitiesStatusChanged,
\* onRegistered and onUnregistered.
ObjCallback(i) ==
  /\ Alive /\ objs[i].todo
  /\ objs' = [objs EXCEPT ![i] = [Refresh(@) EXCEPT !.todo = FALSE]]
  /\ icon' = ShowBoth(icon, {objs[i].sub}, pref)
  /\ LateIf(i)
  /\ UNCHANGED <<svc, pref, listening, mainTodo, phone>>

\* A confirmation runnable, the last one or not.
ObjCheck(i, kind) ==
  /\ Alive /\ objs[i].checks
  /\ \/ objs' = [objs EXCEPT ![i].checks = FALSE]
     \/ UNCHANGED objs
  /\ icon' = Show(icon, kind, objs[i].sub, pref)
  /\ UNCHANGED <<svc, pref, listening, mainTodo, phone, irregular>>

-----------------------------------------------------------------------------
(* Telephony, external.                                                      *)
\* Subscriptions come and go; IMS of one that goes is unregistered.
SubscriptionsChange(a, d) ==
  /\ <<TRUE, a, d>> # <<ready, active, dataSub>>
  /\ d \in a \cup {0}
  /\ ready' = TRUE /\ active' = a /\ dataSub' = d
  /\ available' = [s \in Subs |-> IF s \in a THEN available[s] ELSE {}]
  /\ mainTodo' = (mainTodo \/ listening)
  /\ objs' = [i \in DOMAIN objs |->
                [objs[i] EXCEPT !.subTodo = TRUE,
                                !.todo = @ \/ (objs[i].sub \notin a /\ objs[i].regs # {})]]
  /\ UNCHANGED <<svc, pref, listening, icon, irregular>>

\* What IMS offers on subscription s changes.  The registered callbacks hear of
\* it, and the observer of an open object when the user turned the switch.
AvailabilityChange(s, kinds, cause) ==
  /\ s \in active /\ kinds # available[s]
  /\ available' = [available EXCEPT ![s] = kinds]
  /\ objs' = [i \in DOMAIN objs |->
                [objs[i] EXCEPT !.todo = @ \/ /\ objs[i].sub = s
                                              /\ \/ cause \in objs[i].regs
                                                 \/ cause = "switch" /\ objs[i].open]]
  /\ UNCHANGED <<svc, pref, listening, mainTodo, icon, ready, active, dataSub, irregular>>

Next ==
  \/ ServiceConnected \/ OnDestroy \/ Restart \/ MainSubscriptionsChanged
  \/ \E kind \in Kinds : PreferenceOn(kind) \/ PreferenceOff(kind)
  \/ \E kind \in Kinds : PreferenceOnTooEarly(kind) \/ PreferenceChangedUnseen(kind)
  \/ \E i \in DOMAIN objs : ObjSubscriptionsChanged(i) \/ ObjCallback(i)
  \/ \E i \in DOMAIN objs, kind \in Kinds : ObjCheck(i, kind)
  \/ \E a \in SUBSET Subs, d \in Subs \cup {0} : SubscriptionsChange(a, d)
  \/ \E s \in Subs, kinds \in SUBSET Kinds, cause \in Callbacks \cup {"switch"} :
       AvailabilityChange(s, kinds, cause)

Spec == Init /\ [][Next]_vars

-----------------------------------------------------------------------------
\* Every variable holds a value the program can give it.
TypeOK ==
  /\ svc \in {"starting", "connected", "destroyed", "crashed"}
  /\ pref \in [Kinds -> BOOLEAN]
  /\ listening \in BOOLEAN /\ mainTodo \in BOOLEAN
  /\ objs \in Seq(Objects) /\ icon \subseteq Kinds \X Subs
  /\ ready \in BOOLEAN /\ active \subseteq Subs /\ dataSub \in active \cup {0}
  /\ available \in [Subs -> SUBSET Kinds] /\ irregular \subseteq Irregularities

\* The map of MainService never has two objects for one subscription, and once
\* its listener has run it has one for every active subscription and no other;
\* none when the user wants no icon, unless the removed listener ran late.
ObjectsFollowSubs ==
  /\ \A i, j \in DOMAIN objs : objs[i].open /\ objs[j].open /\ objs[i].sub = objs[j].sub => i = j
  /\ svc = "connected" /\ ~mainTodo /\ "late" \notin irregular =>
       Open(objs) = IF Wants(pref) THEN active ELSE {}

\* An icon is only shown while its preference is on: no order of preference
\* changes, callbacks and confirmation runnables of open objects brings back an
\* icon the user has just switched off.
IconsAreWanted == svc = "connected" /\ irregular = {} => \A i \in icon : pref[i[1]]

\* An icon is only shown for a subscription that has an object, which will
\* remove it; closing an object leaves neither an icon nor a runnable that
\* brings it back.
IconsHaveObjects == irregular = {} => \A i \in icon : i[2] \in Open(objs)

\* An object registered with IMS shows what is available and wanted, whenever
\* nothing is posted to it, whatever is posted to MainService: no change falls
\* between two registrations, a failed registration, a confirmation runnable or a
\* closed object that still runs.
IconsFollowIms ==
  svc = "connected" =>
    \A i \in DOMAIN objs :
      objs[i].open /\ objs[i].enabled /\ ~objs[i].todo =>
        \A kind \in Kinds :
          <<kind, objs[i].sub>> \in icon <=> kind \in Available(objs[i].sub) /\ pref[kind]
=============================================================================
