-------------------------- MODULE LedLightManager --------------------------
(* The notification LED of LedManagerExtra: LedLightManager.java.            *)
(*                                                                           *)
(* A notification listener keeps parallel lists of what it shows: the        *)
(* package and id of every notification posted (shown) and, in five more     *)
(* lists that always grow and shrink together, the rule that matched (leds). *)
(* Callbacks of the notification manager and power broadcasts reach the main *)
(* thread through queues; battery state is read when a handler runs.         *)
(* A title is a set of words, or NoTitle for a missing one; a rule's string  *)
(* is a word, or AnyString for the empty string.                             *)
EXTENDS Naturals, Sequences, FiniteSets, FiniteSetsExt

CONSTANTS Keys,       \* notifications: records with fields pkg and id
          Titles,     \* titles a notification may have
          NoTitle,    \* a notification without a title
          Gone,       \* no such notification at the moment
          AnyString,        \* the empty rule string
          Configs,    \* contents of the configuration file, sequences of lines
          NoConfig,   \* nothing saved yet
          MaxQueue, MaxShown  \* bounds on callbacks in flight and list length

\* Package and id name a notification; a configuration is a list of lines.
ASSUME LedAssumption ==
  /\ NoTitle \notin Titles /\ Gone \notin Titles \cup {NoTitle} /\ NoConfig \notin Configs
  /\ \A k, l \in Keys : k.pkg = l.pkg /\ k.id = l.id => k = l
  /\ \A c \in Configs : c \in Seq({c[i] : i \in DOMAIN c})

VARIABLES listener,   \* "disconnected", "connected" or "crashed"
          shown,      \* currentEnabledApps and currentEnabledID
          leds,       \* currentEnabled{String,Colors,Blink,OnMs,OffMs}ForApps
          led,        \* argument of the last setColor
          file,       \* configuration file on the sdcard
          decrypted,  \* the sdcard can be read
          saved,      \* preference ledSettingsBase64
          loaded,     \* configFileAlreadyLoaded
          rules,      \* enabled{Apps,StringForApps,ColorsForApps,...}
          power,      \* battery state: plugged, full
          active,     \* notification manager: title of each notification or Gone
          callbacks,  \* posted / removed callbacks in flight
          intents,    \* power broadcasts in flight
          latest,     \* history: matched notifications still there, by last post
          irregular   \* history: which of Irregularities have happened, "died" until a
                      \* colour is set again

managerVars == <<listener, shown, leds, led, file, decrypted, saved, loaded, rules, power,
          active, callbacks, intents, latest, irregular>>
lists == <<shown, leds>>
configuration == <<file, decrypted, saved, loaded, rules>>
world == <<file, decrypted, power, active>>

Lines == UNION {{c[i] : i \in DOMAIN c} : c \in Configs}
RuleColors == {l.color : l \in Lines}
Colors == RuleColors \cup {"off", "charging", "full"}
Actions == {"connected", "disconnected", "battery"}
\* A listed package's notification matched no rule; a notification changed its
\* title; the process died.
Irregularities == {"unmatched", "retitled", "died"}

-----------------------------------------------------------------------------
(* Rules.                                                                    *)

\* loadConfig's loop: a line that cannot be parsed drops all lines before it.
ParseConfig(lines) ==
  LET bad == {i \in DOMAIN lines : lines[i].bad}
  IN  SubSeq(lines, Max(bad \cup {0}) + 1, Len(lines))

\* getDataFromSharedPref: the file is copied once per connection.
Saved == IF ~loaded /\ decrypted THEN file ELSE saved

\* loadConfig: without a configuration, or with an empty one, the rules stay.
Loaded == IF Saved \in {NoConfig, << >>} THEN rules ELSE ParseConfig(Saved)

TitleHas(title, word) == title # NoTitle /\ word # AnyString /\ word \in title

\* The rule a posted notification gets, 0 if none: the first rule of its package
\* whose string is in the title, else the last rule without a string.
Match(rs, pkg, title) ==
  LET of == {i \in DOMAIN rs : rs[i].pkg = pkg}
      found == {i \in of : TitleHas(title, rs[i].str)}
      default == {i \in of : rs[i].str = AnyString}
  IN  IF found # {} THEN Min(found)
      ELSE IF default # {} THEN Max(default) ELSE 0

\* Entries of shown that onNotificationRemoved removes; it walks over the
\* occurrences of the package from the last to the first.
Occurrences(pkg) == {i \in DOMAIN shown : shown[i].pkg = pkg}
Removed(key, title) ==
  {i \in Occurrences(key.pkg) :
     shown[i].id = key.id /\ (leds[i].str = AnyString \/ TitleHas(title, leds[i].str))}

\* The numbers in kept, in rising order.
InOrder(kept) ==
  [k \in 1 .. Cardinality(kept) |-> CHOOSE i \in kept : Cardinality({j \in kept : j <= i}) = k]
\* The list after the entries in removed were removed.
Without(s, removed) ==
  LET places == InOrder(DOMAIN s \ removed)
  IN  [k \in DOMAIN places |-> s[places[k]]]

\* History: the entries of latest for a notification.
Of(key) == {j \in DOMAIN latest : latest[j].key = key}

\* Mutated form: a colour name that does not exist.
MutPowerColor(c) == IF power.plugged THEN IF power.full THEN "full" ELSE "charging" ELSE "none"
\* The colour of the charging state, or c when not charging.
PowerColor(c) == IF power.plugged THEN IF power.full THEN "full" ELSE "charging" ELSE c

-----------------------------------------------------------------------------
ManagerInit ==
  /\ listener = "disconnected"
  /\ shown = << >> /\ leds = << >> /\ led = "off"
  /\ file \in Configs /\ decrypted \in BOOLEAN /\ saved = NoConfig /\ loaded = FALSE
  /\ rules = << >>
  /\ power \in [plugged : BOOLEAN, full : BOOLEAN]
  /\ active = [k \in Keys |-> Gone]
  /\ callbacks = << >> /\ intents = << >> /\ latest = << >>
  /\ irregular = {}

\* History: a handler that sets a colour makes up for an earlier death.
Repairs(sets) == irregular' = IF sets THEN irregular \ {"died"} ELSE irregular

LoadConfig == saved' = Saved /\ loaded' = (loaded \/ decrypted) /\ rules' = Loaded

\* onListenerConnected of a new instance: loadConfig and onPowerOn.
OnListenerConnected ==
  /\ listener = "disconnected"
  /\ listener' = "connected"
  /\ LoadConfig
  /\ led' = PowerColor(led)
  /\ Repairs(power.plugged)
  /\ UNCHANGED <<lists, world, callbacks, intents, latest>>

\* Lists, receivers and queues go with the instance.
InstanceEnds ==
  /\ shown' = << >> /\ leds' = << >> /\ loaded' = FALSE /\ rules' = << >>
  /\ callbacks' = << >> /\ intents' = << >> /\ latest' = << >>

\* onListenerDisconnected: disableLed, configFileAlreadyLoaded = false,
\* unregisterReceiver.
OnListenerDisconnected ==
  /\ listener = "connected"
  /\ listener' = "disconnected"
  /\ led' = "off"
  /\ Repairs(TRUE)
  /\ InstanceEnds
  /\ UNCHANGED <<world, saved>>

\* The process is killed or crashed; the LED keeps its last colour.
ProcessDies ==
  /\ InstanceEnds
  /\ irregular' = irregular \cup {"died"}
  /\ UNCHANGED <<world, led>>

Killed ==
  /\ listener = "connected" /\ listener' = "disconnected"
  /\ ProcessDies /\ UNCHANGED saved
Rebound ==
  /\ listener = "crashed" /\ listener' = "disconnected"
  /\ UNCHANGED <<lists, led, configuration, power, active, callbacks, intents, latest, irregular>>

\* Mutated form: the rule goes to the head of its list, not to the end.
MutOnNotificationPosted(key, title) ==
  LET m == Match(Loaded, key.pkg, title)
  IN  /\ LoadConfig
      /\ shown' = IF m = 0 THEN shown ELSE Append(shown, key)
      /\ IF m = 0 THEN UNCHANGED <<leds, led, latest>>
         ELSE /\ leds' = <<Loaded[m]>> \o leds
              /\ led' = Loaded[m].color
              /\ latest' = Append(Without(latest, Of(key)),
                                  [key |-> key, color |-> Loaded[m].color])
      /\ Repairs(m # 0)
\* onNotificationPosted: package and id are recorded for every package that has
\* a rule, the matched rule only when there is one.
OnNotificationPosted(key, title) ==
  LET m == Match(Loaded, key.pkg, title)
      listed == \E i \in DOMAIN Loaded : Loaded[i].pkg = key.pkg
  IN  /\ LoadConfig
      /\ shown' = IF listed THEN Append(shown, key) ELSE shown
      /\ IF listed /\ m = 0 THEN irregular' = irregular \cup {"unmatched"} ELSE Repairs(m # 0)
      /\ IF m = 0 THEN UNCHANGED <<leds, led, latest>>
         ELSE /\ leds' = Append(leds, Loaded[m])
              /\ led' = Loaded[m].color
              /\ latest' = Append(Without(latest, Of(key)),
                                  [key |-> key, color |-> Loaded[m].color])

\* Mutated form: disableLed forgets the rules.
MutOnNotificationRemoved(key, title) ==
  LET keptShown == Without(shown, Removed(key, title))
      keptLeds == Without(leds, Removed(key, title))
  IN  /\ latest' = Without(latest, Of(key))
      /\ IF keptLeds # << >>
         THEN /\ shown' = keptShown /\ leds' = keptLeds
              /\ led' = keptLeds[Len(keptLeds)].color
         ELSE shown' = << >> /\ led' = PowerColor("off") /\ UNCHANGED leds
      /\ Repairs(TRUE)
      /\ UNCHANGED <<saved, loaded, rules>>
\* onNotificationRemoved when every index it reads is in range.
OnNotificationRemoved(key, title) ==
  LET keptShown == Without(shown, Removed(key, title))
      keptLeds == Without(leds, Removed(key, title))
  IN  /\ latest' = Without(latest, Of(key))
      /\ IF Occurrences(key.pkg) = {}
         THEN /\ led' = IF shown = << >> THEN PowerColor(led) ELSE led
              /\ UNCHANGED <<lists, rules>>
         ELSE IF keptLeds # << >>
         THEN /\ shown' = keptShown /\ leds' = keptLeds
              /\ led' = keptLeds[Len(keptLeds)].color
              /\ UNCHANGED rules
         ELSE /\ shown' = << >> /\ leds' = << >> /\ rules' = << >>  \* disableLed
              /\ led' = PowerColor("off")
      /\ Repairs(Occurrences(key.pkg) # {} \/ (shown = << >> /\ power.plugged))
      /\ UNCHANGED <<saved, loaded>>

\* setColor cannot parse the colour or the times of the rule that matches.
Throws(key, title) ==
  LET m == Match(Loaded, key.pkg, title)
  IN  m # 0 /\ Loaded[m].broken

\* A callback of the notification manager.  What setColor throws, and a list
\* index out of bounds in onNotificationRemoved, are uncaught exceptions.
Callback ==
  LET c == Head(callbacks)
      outOfBounds == \E i \in Occurrences(c.key.pkg) : i > Len(leds)
  IN  /\ listener = "connected" /\ callbacks # << >>
      /\ \/ /\ c.kind = "posted" /\ ~Throws(c.key, c.title)
            /\ OnNotificationPosted(c.key, c.title)
            /\ callbacks' = Tail(callbacks) /\ UNCHANGED <<listener, world, intents>>
         \/ /\ c.kind = "removed" /\ ~outOfBounds
            /\ OnNotificationRemoved(c.key, c.title)
            /\ callbacks' = Tail(callbacks) /\ UNCHANGED <<listener, world, intents>>
         \/ /\ c.kind = "posted" /\ Throws(c.key, c.title)
            /\ listener' = "crashed" /\ ProcessDies /\ saved' = Saved
         \/ /\ c.kind = "removed" /\ outOfBounds
            /\ listener' = "crashed" /\ ProcessDies /\ UNCHANGED saved

\* Mutated form: unplugging switches the LED off at once.
MutPowerReceiver(action) ==
  IF action = "disconnected" THEN led' = "off"
  ELSE led' = IF shown = << >> THEN PowerColor(led) ELSE led
\* mPowerReceiver: only while no notification is recorded.
PowerReceiver(action) ==
  led' = IF shown # << >> THEN led
         ELSE IF action = "disconnected" THEN "off"
         ELSE PowerColor(led)

Intent ==
  /\ listener = "connected" /\ intents # << >>
  /\ PowerReceiver(Head(intents))
  /\ Repairs(shown = << >> /\ (Head(intents) = "disconnected" \/ power.plugged))
  /\ intents' = Tail(intents)
  /\ UNCHANGED <<listener, lists, world, saved, loaded, rules, callbacks, latest>>

-----------------------------------------------------------------------------
(* The world around the service, external.                                   *)
Tell(kind, key, title) ==
  IF listener = "connected"
  THEN /\ Len(callbacks) < MaxQueue
       /\ callbacks' = Append(callbacks, [kind |-> kind, key |-> key, title |-> title])
  ELSE UNCHANGED callbacks

Post(key, title) ==
  /\ Len(shown) + Len(callbacks) < MaxShown
  /\ irregular' = IF active[key] \in {Gone, title} THEN irregular
                  ELSE irregular \cup {"retitled"}
  /\ active' = [active EXCEPT ![key] = title]
  /\ Tell("posted", key, title)
  /\ UNCHANGED <<listener, lists, led, configuration, power, intents, latest>>

Cancel(key) ==
  /\ active[key] # Gone
  /\ active' = [active EXCEPT ![key] = Gone]
  /\ Tell("removed", key, active[key])
  /\ UNCHANGED <<listener, lists, led, configuration, power, intents, latest, irregular>>

SetPower(p, intent) ==
  /\ power' = p
  /\ IF listener = "connected"
     THEN Len(intents) < MaxQueue /\ intents' = Append(intents, intent)
     ELSE UNCHANGED intents
  /\ UNCHANGED <<listener, lists, led, configuration, active, callbacks, latest, irregular>>

Plug == SetPower([power EXCEPT !.plugged = ~@],
                 IF power.plugged THEN "disconnected" ELSE "connected")
BatteryLevel == SetPower([power EXCEPT !.full = ~@], "battery")

\* The user unlocks the device, or edits the configuration file.
FileChanges ==
  /\ \/ ~decrypted /\ decrypted' = TRUE /\ UNCHANGED file
     \/ decrypted /\ file' \in Configs \ {file} /\ UNCHANGED decrypted
  /\ UNCHANGED <<listener, lists, led, saved, loaded, rules, power, active, callbacks, intents,
                 latest, irregular>>

ManagerNext ==
  \/ OnListenerConnected \/ OnListenerDisconnected \/ Killed \/ Rebound
  \/ Callback \/ Intent
  \/ \E key \in Keys, title \in Titles \cup {NoTitle} : Post(key, title)
  \/ \E key \in Keys : Cancel(key)
  \/ Plug \/ BatteryLevel \/ FileChanges

ManagerSpec == ManagerInit /\ [][ManagerNext]_managerVars

-----------------------------------------------------------------------------
\* Every variable holds a value the program can give it.
ManagerTypeOK ==
  /\ listener \in {"disconnected", "connected", "crashed"}
  /\ shown \in Seq(Keys) /\ leds \in Seq(Lines)
  /\ led \in Colors
  /\ file \in Configs /\ saved \in Configs \cup {NoConfig}
  /\ decrypted \in BOOLEAN /\ loaded \in BOOLEAN /\ rules \in Seq(Lines)
  /\ power \in [plugged : BOOLEAN, full : BOOLEAN]
  /\ active \in [Keys -> Titles \cup {NoTitle, Gone}]
  /\ callbacks \in Seq([kind : {"posted", "removed"}, key : Keys, title : Titles \cup {NoTitle}])
  /\ intents \in Seq(Actions)
  /\ latest \in Seq([key : Keys, color : RuleColors])
  /\ irregular \subseteq Irregularities

\* As long as every notification of a listed package matched a rule, the
\* parallel lists agree, even when titles change and the process dies: entry i
\* of the five rule lists is the rule of entry i of the package and id lists.
ListsAligned ==
  "unmatched" \notin irregular =>
    /\ Len(leds) = Len(shown)
    /\ \A i \in DOMAIN leds : leds[i].pkg = shown[i].pkg

\* Whatever happens, the rule lists are never longer than the package list, so
\* that an empty package list (power colours allowed) means an empty rule list
\* (no notification colour to fall back to).
RulesNeedPackages == Len(leds) <= Len(shown)

Settled == listener = "connected" /\ callbacks = << >> /\ intents = << >>

\* "Set the color of the latest notification available" (LedLightManager.java):
\* with nothing in flight and nothing irregular, the LED shows the rule of the
\* latest notification that is still there, else the charging state, else
\* nothing.  After a process death the LED keeps its colour, and the claim holds
\* again, of what the new instance was told, once that has set a colour.
ShowsLatest ==
  Settled /\ irregular = {} =>
    led = IF latest # << >> THEN latest[Len(latest)].color ELSE PowerColor("off")
=============================================================================
