----------------------------- MODULE GamingMode -----------------------------
(* Gaming mode and the navigation bar: enableGamingMode, disableGamingMode,   *)
(* manageNavBar and manageCapacitiveButtons of Utils.java, with the tile, the *)
(* boot receiver and the handlers of MainService.java that call them.         *)
(*                                                                            *)
(* Handlers run one at a time on the main looper.  Those that switch gaming   *)
(* mode touch several stores one after the other, and the process may die, or *)
(* the user change the brightness mode, in between: they leave the operations *)
(* still to do in todo.                                                       *)
EXTENDS Naturals, Sequences

VARIABLES bound,       \* MainService is connected in this process
          gaming,      \* isGamingModeEnabled
          used,        \* isCapacitiveButtonsUsed
          todo,        \* operations the running handler has left
          editor,      \* what prefEditor will do to gm_extra.autobrightness
          savedMode,   \* preference gm_extra.autobrightness
          brightness,  \* setting SCREEN_BRIGHTNESS_MODE
          headsPref,   \* preference headsUpNotificationsEnabled
          heads,       \* setting HEADS_UP_NOTIFICATIONS_ENABLED
          navPref,     \* preference navBarEnabled
          navMode,     \* config_navBarInteractionMode
          navEvent,    \* a change of navigation_mode is posted to the observer
          mainkeys,    \* property qemu.hw.mainkeys: no navigation bar on screen
          persistKeys, \* property persist.qemu.hw.mainkeys
          keys,        \* the key nodes: capacitive buttons work
          tile,        \* state of the tile in SystemUI
          bootTodo,    \* gamingTileRunnable has not run since boot
          known,       \* history: this process has set isCapacitiveButtonsUsed
          wanted,      \* history: brightness mode chosen outside gaming mode
          irregular    \* history: a handler was cut short or overtaken

service  == <<bound, gaming, used, known>>
handler  == <<todo, editor>>
display  == <<savedMode, brightness, wanted>>
alerts   == <<headsPref, heads>>
navSet   == <<navPref, navMode, navEvent>>
navOut   == <<mainkeys, persistKeys>>
vars == <<service, handler, display, alerts, navSet, navOut, keys, tile, bootTodo, irregular>>

Modes == {"manual", "automatic"}
NoMode == "2"                         \* the default given to getString
Edits == Modes \cup {"remove", "nothing"}

Done == todo = << >>
Irregular(b) == irregular' = (irregular \/ b)

Init ==
  /\ bound = FALSE /\ gaming = FALSE /\ used = FALSE /\ known = FALSE
  /\ todo = << >> /\ editor = "nothing"
  /\ savedMode = NoMode /\ brightness \in Modes /\ wanted = brightness
  /\ headsPref \in BOOLEAN /\ heads = TRUE
  /\ navPref \in BOOLEAN /\ navMode \in 0 .. 2 /\ navEvent = FALSE
  /\ mainkeys = TRUE /\ persistKeys = TRUE /\ keys = TRUE
  /\ tile \in BOOLEAN /\ bootTodo = TRUE /\ irregular = FALSE

-----------------------------------------------------------------------------
\* Navigation bar and capacitive buttons.

ManageCapacitiveButtons(u, g) == keys' = (u /\ ~g)

\* A bar on screen: for three buttons on request, always for gestures.
BarWanted(mode, p) == mode = 2 \/ p

\* Mutated form: the buttons are switched before the reboot that shows the bar.
MutManageNavBar(mode, p) ==
  \/ /\ mode = 1
     /\ UNCHANGED <<used, known, keys, navOut>>
  \/ /\ mode # 1
     /\ persistKeys' = ~BarWanted(mode, p)
     /\ used' = ~BarWanted(mode, p) /\ known' = TRUE
     /\ ManageCapacitiveButtons(~BarWanted(mode, p), gaming)
     /\ UNCHANGED mainkeys
\* manageNavBar.  Two buttons are not supported; a change that does not fit the
\* property of this boot is only recorded for the next one.
ManageNavBar(mode, p) ==
  \/ /\ mode = 1
     /\ UNCHANGED <<used, known, keys, navOut>>
  \/ /\ mode # 1
     /\ persistKeys' = ~BarWanted(mode, p)
     /\ IF mainkeys = BarWanted(mode, p)
          THEN UNCHANGED <<used, known, keys>>
          ELSE used' = mainkeys /\ known' = TRUE /\ ManageCapacitiveButtons(mainkeys, gaming)
     /\ UNCHANGED mainkeys

NavBarChanged ==
  /\ bound /\ Done
  /\ navPref' = ~navPref
  /\ ManageNavBar(navMode, ~navPref)
  /\ UNCHANGED <<bound, gaming, handler, display, alerts, navMode, navEvent, tile,
                 bootTodo, irregular>>

\* mNavigationModeObserver.
OnNavigationMode ==
  /\ bound /\ Done /\ navEvent
  /\ navEvent' = FALSE
  /\ ManageNavBar(navMode, navPref)
  /\ UNCHANGED <<bound, gaming, handler, display, alerts, navPref, navMode, tile,
                 bootTodo, irregular>>

\* The user chooses another navigation mode; only a registered observer is told.
NavigationMode ==
  /\ \E m \in (0 .. 2) \ {navMode} : navMode' = m
  /\ navEvent' = bound
  /\ UNCHANGED <<service, handler, display, alerts, navPref, navOut, keys, tile, bootTodo,
                 irregular>>

\* Mutated form: heads-up notifications are only switched off, never on.
MutOnServiceConnected ==
  /\ ~bound /\ Done
  /\ bound' = TRUE
  /\ heads' = (heads /\ headsPref)
  /\ ManageNavBar(navMode, navPref)
  /\ UNCHANGED <<gaming, handler, display, headsPref, navSet, tile, bootTodo, irregular>>
\* onServiceConnected.
OnServiceConnected ==
  /\ ~bound /\ Done
  /\ bound' = TRUE
  /\ heads' = headsPref
  /\ ManageNavBar(navMode, navPref)
  /\ UNCHANGED <<gaming, handler, display, headsPref, navSet, tile, bootTodo, irregular>>

\* mPreferenceListener, headsUpNotificationsEnabled.
HeadsUpChanged ==
  /\ bound /\ Done
  /\ headsPref' = ~headsPref
  /\ heads' = ~headsPref
  /\ UNCHANGED <<service, handler, display, navSet, navOut, keys, tile, bootTodo, irregular>>

-----------------------------------------------------------------------------
\* Gaming mode.

EnableGamingMode  == <<"keys", "manual", "commit", "quiet">>
DisableGamingMode == <<"keys", "restore", "headsUp", "commit">>

\* GamingModeTile.onClick.  The new state reaches SystemUI last.
OnClick ==
  /\ Done
  /\ gaming' = ~tile
  /\ todo' = (IF tile THEN DisableGamingMode ELSE EnableGamingMode) \o <<"tile">>
  /\ Irregular(~tile /\ bootTodo /\ savedMode # NoMode)
  /\ UNCHANGED <<bound, used, known, editor, display, alerts, navSet, navOut, keys, tile,
                 bootTodo>>

\* gamingTileRunnable of UserBootCompletedReceiver.
GamingTileRunnable ==
  /\ bootTodo /\ Done
  /\ bootTodo' = FALSE
  /\ gaming' = FALSE
  /\ todo' = DisableGamingMode
  /\ UNCHANGED <<bound, used, known, editor, display, alerts, navSet, navOut, keys, tile,
                 irregular>>

\* The handler reaches its next operation.
Does(op) == todo # << >> /\ Head(todo) = op /\ todo' = Tail(todo)

SetKeys ==
  /\ Does("keys")
  /\ ManageCapacitiveButtons(used, gaming)
  /\ UNCHANGED <<service, editor, display, alerts, navSet, navOut, tile, bootTodo, irregular>>

\* Mutated form: manual is recorded as the mode to restore.
MutSaveBrightness ==
  /\ Does("manual")
  /\ editor' = "manual" /\ brightness' = "manual"
  /\ UNCHANGED <<service, savedMode, wanted, alerts, navSet, navOut, keys, tile, bootTodo, irregular>>
\* "Save current status for automatic brightness", then disable it.
SaveBrightness ==
  /\ Does("manual")
  /\ editor' = brightness /\ brightness' = "manual"
  /\ UNCHANGED <<service, savedMode, wanted, alerts, navSet, navOut, keys, tile, bootTodo, irregular>>

RestoreBrightness ==
  /\ Does("restore")
  /\ IF savedMode # NoMode THEN editor' = "remove" /\ brightness' = savedMode
                     ELSE UNCHANGED <<editor, brightness>>
  /\ UNCHANGED <<service, savedMode, wanted, alerts, navSet, navOut, keys, tile, bootTodo, irregular>>

Commit ==
  /\ Does("commit")
  /\ savedMode' = CASE editor \in Modes -> editor
                [] editor = "remove" -> NoMode
                [] OTHER -> savedMode
  /\ editor' = "nothing"
  /\ UNCHANGED <<service, brightness, wanted, alerts, navSet, navOut, keys, tile, bootTodo,
                 irregular>>

\* setHeadsUpNotification: "0" on the way in, "1" on the way out if preferred.
SetHeadsUp ==
  /\ \/ Does("quiet") /\ heads' = FALSE
     \/ Does("headsUp") /\ heads' = (heads \/ headsPref)
  /\ UNCHANGED <<service, editor, display, headsPref, navSet, navOut, keys, tile, bootTodo,
                 irregular>>

\* tile.updateTile().
UpdateTile ==
  /\ Does("tile")
  /\ tile' = ~tile
  /\ UNCHANGED <<service, editor, display, alerts, navSet, navOut, keys, bootTodo, irregular>>

-----------------------------------------------------------------------------
\* The user, through AdaptiveBrightnessTile or the settings, changes the mode.
BrightnessMode ==
  /\ \E m \in Modes \ {brightness} :
       brightness' = m /\ wanted' = (IF savedMode = NoMode THEN m ELSE wanted)
  /\ Irregular(~Done)
  /\ UNCHANGED <<service, handler, savedMode, alerts, navSet, navOut, keys, tile, bootTodo>>

Fresh == bound' = FALSE /\ gaming' = FALSE /\ used' = FALSE /\ known' = FALSE
         /\ todo' = << >> /\ editor' = "nothing" /\ navEvent' = FALSE
         /\ Irregular(~Done)

\* The process dies; settings, nodes and the tile outlive it.
Restart ==
  /\ Fresh
  /\ UNCHANGED <<display, alerts, navPref, navMode, navOut, keys, tile, bootTodo>>

\* init.vendor.aosp.rc copies the property; nodes start enabled and the tile in
\* whichever state SystemUI gives it.
Reboot ==
  /\ Fresh
  /\ mainkeys' = persistKeys /\ keys' = TRUE
  /\ tile' \in BOOLEAN /\ bootTodo' = TRUE
  /\ UNCHANGED <<display, alerts, navPref, navMode, persistKeys>>

Next ==
  \/ NavBarChanged \/ OnNavigationMode \/ NavigationMode \/ OnServiceConnected \/ HeadsUpChanged
  \/ OnClick \/ GamingTileRunnable \/ SetKeys \/ SaveBrightness \/ RestoreBrightness \/ Commit
  \/ SetHeadsUp \/ UpdateTile \/ BrightnessMode \/ Restart \/ Reboot

Spec == Init /\ [][Next]_vars

-----------------------------------------------------------------------------
\* Every variable holds a value the program can give it.
TypeOK ==
  /\ bound \in BOOLEAN /\ gaming \in BOOLEAN /\ used \in BOOLEAN /\ known \in BOOLEAN
  /\ todo \in Seq({"keys", "manual", "commit", "quiet", "restore", "headsUp", "tile"})
  /\ editor \in Edits /\ savedMode \in Modes \cup {NoMode}
  /\ brightness \in Modes /\ wanted \in Modes
  /\ headsPref \in BOOLEAN /\ heads \in BOOLEAN
  /\ navPref \in BOOLEAN /\ navMode \in 0 .. 2 /\ navEvent \in BOOLEAN
  /\ mainkeys \in BOOLEAN /\ persistKeys \in BOOLEAN /\ keys \in BOOLEAN
  /\ tile \in BOOLEAN /\ bootTodo \in BOOLEAN /\ irregular \in BOOLEAN

\* "Restore previous status for heads up and automatic brightness" (Utils.java):
\* once the tile shows gaming mode off, nothing stays saved and the brightness
\* mode is the one chosen outside gaming mode, across process deaths and reboots
\* in gaming mode.  Excepted are a handler cut short (the setting is changed
\* before the preference is committed, the tile after both), a change by the user
\* while a handler runs, and a click after a reboot in gaming mode that comes
\* before the boot receiver's clean-up: each loses the saved mode.
BrightnessRestored ==
  Done /\ ~tile /\ ~bootTodo /\ ~irregular => savedMode = NoMode /\ brightness = wanted

\* Outside gaming mode heads-up notifications are as the preference says, however
\* handlers were cut short: onServiceConnected repairs them.
HeadsUpFollowsPref == Done /\ bound /\ ~gaming => heads = headsPref

\* One way to navigate: outside gaming mode the capacitive buttons work exactly
\* when there is no bar on screen ("qemu.hw.mainkeys needs to be 1 to use
\* capacitive buttons (no nav bar on screen)", Utils.java).  Excepted is a
\* process that restarted while a reboot was required or the mode not supported:
\* it no longer knows that the buttons are in use, and leaving gaming mode
\* disables them.
CanNavigate ==
  /\ Done /\ bound /\ ~gaming
  /\ known \/ (~navEvent /\ navMode # 1 /\ mainkeys = persistKeys)
  => keys = mainkeys
=============================================================================
