-------------------------- MODULE GamingMode_proofs --------------------------
(* The three promises of gaming mode hold however the handlers, the user, the *)
(* boot receiver, process deaths and reboots interleave.                      *)
EXTENDS GamingMode, SequenceTheorems, TLAPS

\* What a handler that switches gaming mode may still have to do: the tile on
\* the way in, the tile on the way out, the boot receiver.
Shapes == {<<"keys", "manual", "commit", "quiet", "tile">>, <<"manual", "commit", "quiet", "tile">>,
           <<"commit", "quiet", "tile">>, <<"quiet", "tile">>, <<"tile">>,
           <<"keys", "restore", "headsUp", "commit", "tile">>,
           <<"restore", "headsUp", "commit", "tile">>, <<"headsUp", "commit", "tile">>,
           <<"commit", "tile">>,
           <<"keys", "restore", "headsUp", "commit">>, <<"restore", "headsUp", "commit">>,
           <<"headsUp", "commit">>, <<"commit">>, << >>}

Ops == {"keys", "manual", "commit", "quiet", "restore", "headsUp", "tile"}

\* Operation op is still to do in w.
Waits(op, w) == \E i \in 1 .. Len(w) : w[i] = op

\* In which order the operations come: what waits, given that another waits.
Ordered(w) ==
  /\ Waits("keys", w) => Waits("manual", w) \/ Waits("restore", w)
  /\ Waits("manual", w) => Waits("commit", w) /\ Waits("quiet", w)
  /\ Waits("quiet", w) => Waits("tile", w) /\ ~Waits("restore", w) /\ ~Waits("headsUp", w)
  /\ Waits("restore", w) => Waits("headsUp", w) /\ ~Waits("manual", w)
  /\ Waits("headsUp", w) => Waits("commit", w)
  /\ (w = << >>) <=> ~(Waits("commit", w) \/ Waits("quiet", w) \/ Waits("tile", w))

\* What the operation at the head of w is preceded by.
Leads(w) ==
  /\ Head(w) \in Ops /\ Waits(Head(w), w)
  /\ Head(w) # "keys" => ~Waits("keys", w)
  /\ Head(w) \in {"commit", "quiet", "headsUp", "tile"} => ~Waits("manual", w) /\ ~Waits("restore", w)
  /\ Head(w) \in {"commit", "tile"} => ~Waits("headsUp", w)
  /\ Head(w) \in {"quiet", "tile"} => ~Waits("commit", w)
  /\ Head(w) = "tile" => ~Waits("quiet", w)

\* The shapes, each with the order of its operations.
LEMMA ShapeOrdered ==
  ASSUME NEW w \in Shapes
  PROVE  Ordered(w) /\ (w # << >> => Leads(w)) /\ w \in Seq(Ops)
<1>1. CASE w = <<"keys", "manual", "commit", "quiet", "tile">>
  BY <1>1 DEF Ordered, Leads, Waits, Ops
<1>2. CASE w = <<"manual", "commit", "quiet", "tile">>
  BY <1>2 DEF Ordered, Leads, Waits, Ops
<1>3. CASE w = <<"commit", "quiet", "tile">>
  BY <1>3 DEF Ordered, Leads, Waits, Ops
<1>4. CASE w = <<"quiet", "tile">>
  BY <1>4 DEF Ordered, Leads, Waits, Ops
<1>5. CASE w = <<"tile">>
  BY <1>5 DEF Ordered, Leads, Waits, Ops
<1>6. CASE w = <<"keys", "restore", "headsUp", "commit", "tile">>
  BY <1>6 DEF Ordered, Leads, Waits, Ops
<1>7. CASE w = <<"restore", "headsUp", "commit", "tile">>
  BY <1>7 DEF Ordered, Leads, Waits, Ops
<1>8. CASE w = <<"headsUp", "commit", "tile">>
  BY <1>8 DEF Ordered, Leads, Waits, Ops
<1>9. CASE w = <<"commit", "tile">>
  BY <1>9 DEF Ordered, Leads, Waits, Ops
<1>10. CASE w = <<"keys", "restore", "headsUp", "commit">>
  BY <1>10 DEF Ordered, Leads, Waits, Ops
<1>11. CASE w = <<"restore", "headsUp", "commit">>
  BY <1>11 DEF Ordered, Leads, Waits, Ops
<1>12. CASE w = <<"headsUp", "commit">>
  BY <1>12 DEF Ordered, Leads, Waits, Ops
<1>13. CASE w = <<"commit">>
  BY <1>13 DEF Ordered, Leads, Waits, Ops
<1>14. CASE w = << >>
  BY <1>14 DEF Ordered, Leads, Waits, Ops
<1> QED BY <1>1, <1>2, <1>3, <1>4, <1>5, <1>6, <1>7, <1>8, <1>9, <1>10, <1>11, <1>12, <1>13, <1>14 DEF Shapes

\* One operation done: the rest is a shape again, and waits as before.
LEMMA ShapeStep ==
  ASSUME NEW w \in Shapes, w # << >>
  PROVE  /\ Tail(w) \in Shapes
         /\ \A op \in Ops : Waits(op, Tail(w)) <=> Waits(op, w) /\ op # Head(w)
<1>1. CASE w = <<"keys", "manual", "commit", "quiet", "tile">>
  BY <1>1 DEF Shapes, Waits, Ops
<1>2. CASE w = <<"manual", "commit", "quiet", "tile">>
  BY <1>2 DEF Shapes, Waits, Ops
<1>3. CASE w = <<"commit", "quiet", "tile">>
  BY <1>3 DEF Shapes, Waits, Ops
<1>4. CASE w = <<"quiet", "tile">>
  BY <1>4 DEF Shapes, Waits, Ops
<1>5. CASE w = <<"tile">>
  BY <1>5 DEF Shapes, Waits, Ops
<1>6. CASE w = <<"keys", "restore", "headsUp", "commit", "tile">>
  BY <1>6 DEF Shapes, Waits, Ops
<1>7. CASE w = <<"restore", "headsUp", "commit", "tile">>
  BY <1>7 DEF Shapes, Waits, Ops
<1>8. CASE w = <<"headsUp", "commit", "tile">>
  BY <1>8 DEF Shapes, Waits, Ops
<1>9. CASE w = <<"commit", "tile">>
  BY <1>9 DEF Shapes, Waits, Ops
<1>10. CASE w = <<"keys", "restore", "headsUp", "commit">>
  BY <1>10 DEF Shapes, Waits, Ops
<1>11. CASE w = <<"restore", "headsUp", "commit">>
  BY <1>11 DEF Shapes, Waits, Ops
<1>12. CASE w = <<"headsUp", "commit">>
  BY <1>12 DEF Shapes, Waits, Ops
<1>13. CASE w = <<"commit">>
  BY <1>13 DEF Shapes, Waits, Ops
<1> QED BY <1>1, <1>2, <1>3, <1>4, <1>5, <1>6, <1>7, <1>8, <1>9, <1>10, <1>11, <1>12, <1>13 DEF Shapes

-----------------------------------------------------------------------------
\* The parts of the inductive invariant.

\* A running handler is one of the three, and isGamingModeEnabled was set when
\* it began; the tile is told last.
WorkInv ==
  /\ todo \in Shapes
  /\ Waits("tile", todo) => gaming = ~tile
  /\ Waits("quiet", todo) => gaming
  /\ Waits("commit", todo) /\ ~Waits("quiet", todo) => ~gaming

\* Gaming mode only ever silences; what it silenced is undone before its end.
HeadsUpInv ==
  /\ bound /\ heads => headsPref
  /\ bound /\ ~gaming /\ ~Waits("headsUp", todo) => heads = headsPref

\* The process knows whether the buttons are in use or has recorded a change
\* for the next boot; when it knows, the key nodes are as it left them.
NavInv ==
  /\ used = (known /\ mainkeys)
  /\ known /\ ~Waits("keys", todo) => keys = (used /\ ~gaming)
  /\ bound /\ ~known /\ ~navEvent /\ navMode # 1 => mainkeys # persistKeys

\* Where the chosen brightness mode is, while no handler is cut short: in the
\* setting, in the editor or in the preference.
BrightnessInv ==
  ~irregular =>
    /\ todo = << >> =>
         /\ editor = "nothing"
         /\ savedMode = NoMode => brightness = wanted
         /\ savedMode # NoMode => savedMode = wanted /\ (tile \/ bootTodo)
    /\ Waits("manual", todo) => savedMode = NoMode /\ brightness = wanted /\ editor = "nothing"
    /\ Waits("quiet", todo) /\ Waits("commit", todo) /\ ~Waits("manual", todo) =>
         savedMode = NoMode /\ editor = wanted
    /\ Waits("quiet", todo) /\ ~Waits("commit", todo) => savedMode = wanted /\ editor = "nothing"
    /\ Waits("restore", todo) =>
         /\ editor = "nothing"
         /\ savedMode = NoMode => brightness = wanted
         /\ savedMode # NoMode => savedMode = wanted
    /\ Waits("commit", todo) /\ ~Waits("quiet", todo) /\ ~Waits("restore", todo) =>
         /\ brightness = wanted
         /\ editor = IF savedMode = NoMode THEN "nothing" ELSE "remove"
    /\ Waits("tile", todo) /\ ~Waits("commit", todo) /\ ~Waits("quiet", todo) =>
         /\ editor = "nothing"
         /\ gaming => savedMode = wanted
         /\ ~gaming => savedMode = NoMode /\ brightness = wanted

IInv == TypeOK /\ WorkInv /\ HeadsUpInv /\ NavInv /\ BrightnessInv

-----------------------------------------------------------------------------
\* Four operations and then the tile.
LEMMA TellsTile ==
  ASSUME NEW a \in Ops, NEW b \in Ops, NEW c \in Ops, NEW d \in Ops
  PROVE  <<a, b, c, d>> \o <<"tile">> = <<a, b, c, d, "tile">>
<1> DEFINE s == <<a, b, c, d>>
           t == <<a, b, c, d, "tile">>
           u == s \o <<"tile">>
<1>1. s \in Seq(Ops) /\ <<"tile">> \in Seq(Ops) /\ Len(s) = 4 /\ Len(<<"tile">>) = 1
  BY DEF Ops
<1>2. /\ u \in Seq(Ops) /\ Len(u) = 5
      /\ \A i \in 1 .. 5 : u[i] = IF i <= 4 THEN s[i] ELSE <<"tile">>[i - 4]
  BY <1>1, ConcatProperties
<1>3. t \in Seq(Ops) /\ Len(t) = 5
  BY DEF Ops
<1>4. \A i \in 1 .. 5 : u[i] = t[i]
  BY <1>2
<1> QED BY <1>2, <1>3, <1>4, SeqEqual

\* The three handlers start with all their operations waiting.
LEMMA StartWaits ==
  /\ EnableGamingMode \o <<"tile">> \in Shapes
  /\ \A op \in Ops : Waits(op, EnableGamingMode \o <<"tile">>) <=> op \notin {"restore", "headsUp"}
  /\ DisableGamingMode \o <<"tile">> \in Shapes
  /\ \A op \in Ops : Waits(op, DisableGamingMode \o <<"tile">>) <=> op \notin {"manual", "quiet"}
  /\ DisableGamingMode \in Shapes
  /\ \A op \in Ops : Waits(op, DisableGamingMode) <=> op \notin {"manual", "quiet", "tile"}
<1>1. EnableGamingMode \o <<"tile">> = <<"keys", "manual", "commit", "quiet", "tile">>
  BY TellsTile DEF Ops, EnableGamingMode
<1>2. DisableGamingMode \o <<"tile">> = <<"keys", "restore", "headsUp", "commit", "tile">>
  BY TellsTile DEF Ops, DisableGamingMode
<1>3. \A op \in Ops : Waits(op, <<"keys", "manual", "commit", "quiet", "tile">>) <=>
                      op \notin {"restore", "headsUp"}
  BY DEF Waits, Ops
<1>4. \A op \in Ops : Waits(op, <<"keys", "restore", "headsUp", "commit", "tile">>) <=>
                      op \notin {"manual", "quiet"}
  BY DEF Waits, Ops
<1>5. \A op \in Ops : Waits(op, DisableGamingMode) <=> op \notin {"manual", "quiet", "tile"}
  BY DEF Waits, Ops, DisableGamingMode
<1>6. DisableGamingMode \in Shapes
  BY DEF DisableGamingMode, Shapes
<1> QED BY <1>1, <1>2, <1>3, <1>4, <1>5, <1>6 DEF Shapes

\* Nothing waits when the main looper is idle.
LEMMA IdleWaits == \A op \in Ops : ~Waits(op, << >>)
BY DEF Waits

\* A step of the running handler does the operation at the head of todo.
LEMMA DoesStep ==
  ASSUME todo \in Shapes, NEW op \in Ops, Does(op)
  PROVE  /\ todo' \in Shapes /\ Ordered(todo) /\ Ordered(todo')
         /\ Leads(todo) /\ Head(todo) = op
         /\ \A o \in Ops : Waits(o, todo') <=> Waits(o, todo) /\ o # op
BY ShapeOrdered, ShapeStep DEF Does

LEMMA IInvInit == Init => IInv
<1> SUFFICES ASSUME Init PROVE IInv
  OBVIOUS
<1>1. todo = << >> /\ todo \in Shapes /\ todo \in Seq(Ops)
  BY DEF Init, Shapes
<1>2. \A op \in Ops : ~Waits(op, todo)
  BY <1>1, IdleWaits
<1>3. TypeOK
  BY <1>1 DEF Init, TypeOK, Ops, Edits, Modes, NoMode
<1>4. WorkInv /\ HeadsUpInv /\ NavInv
  BY <1>1, <1>2 DEF Init, WorkInv, HeadsUpInv, NavInv, Ops
<1>5. BrightnessInv
  BY <1>1, <1>2 DEF Init, BrightnessInv, Ops, NoMode
<1> QED BY <1>3, <1>4, <1>5 DEF IInv

\* manageNavBar: whichever way it goes, the process knows or a reboot is due.
LEMMA ManageNavBarInv ==
  ASSUME TypeOK, NavInv, todo = << >>, NEW p \in BOOLEAN,
         ManageNavBar(navMode, p), gaming' = gaming, navMode' = navMode
  PROVE  /\ used' \in BOOLEAN /\ known' \in BOOLEAN /\ keys' \in BOOLEAN
         /\ mainkeys' \in BOOLEAN /\ persistKeys' \in BOOLEAN
         /\ used' = (known' /\ mainkeys')
         /\ known' => keys' = (used' /\ ~gaming')
         /\ ~known' /\ navMode' # 1 => mainkeys' # persistKeys'
<1>0. ~Waits("keys", todo)
  BY IdleWaits DEF Ops
<1>1. CASE navMode = 1
  BY <1>0, <1>1 DEF ManageNavBar, TypeOK, NavInv, navOut
<1>2. CASE navMode # 1 /\ mainkeys = BarWanted(navMode, p)
  <2>1. BarWanted(navMode, p) \in BOOLEAN
    BY DEF BarWanted
  <2>2. UNCHANGED <<used, known, keys, mainkeys>> /\ persistKeys' = ~mainkeys
    BY <1>2 DEF ManageNavBar
  <2>3. mainkeys \in BOOLEAN /\ persistKeys' \in BOOLEAN /\ persistKeys' # mainkeys
    BY <2>2 DEF TypeOK
  <2> QED BY <1>0, <2>2, <2>3 DEF TypeOK, NavInv
<1>3. CASE navMode # 1 /\ mainkeys # BarWanted(navMode, p)
  BY <1>0, <1>3 DEF ManageNavBar, ManageCapacitiveButtons, BarWanted, TypeOK, NavInv
<1> QED BY <1>1, <1>2, <1>3

\* The five groups of variables, step by step.
LEMMA IInvNext == IInv /\ [Next]_vars => IInv'
<1> SUFFICES ASSUME IInv, [Next]_vars PROVE IInv'
  OBVIOUS
<1> USE DEF IInv
<1>0. todo \in Shapes /\ Ordered(todo) /\ (Done => \A op \in Ops : ~Waits(op, todo))
  BY ShapeOrdered, IdleWaits DEF WorkInv, Done
<1>1. CASE NavBarChanged
  <2>1. navPref \in BOOLEAN /\ (~navPref) \in BOOLEAN
    BY DEF TypeOK
  <2>2. NavInv' /\ used' \in BOOLEAN /\ known' \in BOOLEAN /\ keys' \in BOOLEAN
        /\ mainkeys' \in BOOLEAN /\ persistKeys' \in BOOLEAN
    BY <1>1, <2>1, ManageNavBarInv DEF NavBarChanged, Done, NavInv, handler
  <2>3. /\ UNCHANGED <<bound, gaming, handler, display, alerts, navMode, navEvent, tile, bootTodo, irregular>>
        /\ navPref' = ~navPref
    BY <1>1 DEF NavBarChanged
  <2>4. TypeOK'
    BY <2>2, <2>3 DEF TypeOK, handler, display, alerts
  <2>5. WorkInv' /\ HeadsUpInv' /\ BrightnessInv'
    BY <2>3 DEF WorkInv, HeadsUpInv, BrightnessInv, handler, display, alerts
  <2> QED BY <2>2, <2>4, <2>5
<1>2. CASE OnNavigationMode
  <2>2. NavInv' /\ used' \in BOOLEAN /\ known' \in BOOLEAN /\ keys' \in BOOLEAN
        /\ mainkeys' \in BOOLEAN /\ persistKeys' \in BOOLEAN
    <3>1. navPref \in BOOLEAN
      BY DEF TypeOK
    <3> QED BY <1>2, <3>1, ManageNavBarInv DEF OnNavigationMode, Done, NavInv, handler
  <2>3. /\ UNCHANGED <<bound, gaming, handler, display, alerts, navPref, navMode, tile, bootTodo, irregular>>
        /\ navEvent' = FALSE
    BY <1>2 DEF OnNavigationMode
  <2>4. TypeOK'
    BY <2>2, <2>3 DEF TypeOK, handler, display, alerts
  <2>5. WorkInv' /\ HeadsUpInv' /\ BrightnessInv'
    BY <2>3 DEF WorkInv, HeadsUpInv, BrightnessInv, handler, display, alerts
  <2> QED BY <2>2, <2>4, <2>5
<1>3. CASE NavigationMode
  <2> USE <1>3 DEF NavigationMode, service, handler, display, alerts, navOut
  <2>1. TypeOK'
    BY DEF TypeOK
  <2>2. WorkInv' /\ HeadsUpInv' /\ BrightnessInv'
    BY DEF WorkInv, HeadsUpInv, BrightnessInv
  <2>3. NavInv'
    BY DEF NavInv
  <2> QED BY <2>1, <2>2, <2>3
<1>4. CASE OnServiceConnected
  <2>2. NavInv' /\ used' \in BOOLEAN /\ known' \in BOOLEAN /\ keys' \in BOOLEAN
        /\ mainkeys' \in BOOLEAN /\ persistKeys' \in BOOLEAN
    <3>1. navPref \in BOOLEAN
      BY DEF TypeOK
    <3> QED BY <1>4, <3>1, ManageNavBarInv DEF OnServiceConnected, Done, NavInv, handler, navSet
  <2>3. /\ UNCHANGED <<gaming, handler, display, headsPref, navSet, tile, bootTodo, irregular>>
        /\ bound' = TRUE /\ heads' = headsPref
    BY <1>4 DEF OnServiceConnected
  <2>4. TypeOK'
    BY <2>2, <2>3 DEF TypeOK, handler, display, navSet
  <2>5. WorkInv' /\ HeadsUpInv' /\ BrightnessInv'
    BY <2>3 DEF WorkInv, HeadsUpInv, BrightnessInv, handler, display
  <2> QED BY <2>2, <2>4, <2>5
<1>5. CASE HeadsUpChanged
  <2> USE <1>5 DEF HeadsUpChanged, service, handler, display, navSet, navOut
  <2>1. TypeOK'
    BY DEF TypeOK
  <2>2. WorkInv' /\ NavInv' /\ BrightnessInv'
    BY DEF WorkInv, NavInv, BrightnessInv
  <2>3. HeadsUpInv'
    BY DEF HeadsUpInv, TypeOK
  <2> QED BY <2>1, <2>2, <2>3
<1>6. CASE OnClick
  <2> DEFINE w == (IF tile THEN DisableGamingMode ELSE EnableGamingMode) \o <<"tile">>
  <2>1. /\ Done /\ gaming' = ~tile /\ todo' = w /\ irregular' = (irregular \/ (~tile /\ bootTodo /\ savedMode # NoMode))
        /\ UNCHANGED <<bound, used, known, editor, display, alerts, navSet, navOut, keys, tile, bootTodo>>
    BY <1>6 DEF OnClick, Irregular
  <2>2. /\ w \in Shapes /\ w \in Seq(Ops)
        /\ Waits("keys", w) /\ Waits("commit", w) /\ Waits("tile", w) /\ w # << >>
        /\ Waits("manual", w) <=> ~tile
        /\ Waits("quiet", w) <=> ~tile
        /\ Waits("restore", w) <=> tile
        /\ Waits("headsUp", w) <=> tile
    BY StartWaits, ShapeOrdered, IdleWaits DEF Ops, TypeOK
  <2> HIDE DEF w
  <2>3. TypeOK'
    BY <2>1, <2>2 DEF TypeOK, Ops, display, alerts, navSet, navOut
  <2>4. WorkInv'
    BY <2>1, <2>2 DEF WorkInv, TypeOK
  <2>5. HeadsUpInv'
    BY <1>0, <2>1, <2>2 DEF HeadsUpInv, TypeOK, alerts
  <2>6. NavInv'
    BY <2>1, <2>2 DEF NavInv, navSet, navOut
  <2>7. BrightnessInv'
    BY <2>1, <2>2 DEF BrightnessInv, TypeOK, Done, display
  <2> QED BY <2>3, <2>4, <2>5, <2>6, <2>7
<1>7. CASE GamingTileRunnable
  <2> DEFINE w == DisableGamingMode
  <2>1. /\ Done /\ gaming' = FALSE /\ todo' = w /\ bootTodo' = FALSE
        /\ UNCHANGED <<bound, used, known, editor, display, alerts, navSet, navOut, keys, tile, irregular>>
    BY <1>7 DEF GamingTileRunnable
  <2>2. /\ w \in Shapes /\ w \in Seq(Ops)
        /\ Waits("keys", w) /\ Waits("commit", w) /\ ~Waits("tile", w) /\ w # << >>
        /\ ~Waits("manual", w) /\ ~Waits("quiet", w) /\ Waits("restore", w) /\ Waits("headsUp", w)
    BY StartWaits, ShapeOrdered, IdleWaits DEF Ops
  <2> HIDE DEF w
  <2>3. TypeOK'
    <3>1. gaming' \in BOOLEAN /\ bootTodo' \in BOOLEAN /\ todo' \in Seq(Ops)
      BY <2>1, <2>2
    <3> QED BY <2>1, <3>1 DEF TypeOK, Ops, display, alerts, navSet, navOut
  <2>4. WorkInv'
    BY <2>1, <2>2 DEF WorkInv
  <2>5. HeadsUpInv'
    BY <2>1, <2>2 DEF HeadsUpInv, alerts
  <2>6. NavInv'
    BY <2>1, <2>2 DEF NavInv, navSet, navOut
  <2>7. BrightnessInv'
    BY <2>1, <2>2 DEF BrightnessInv, Done, display
  <2> QED BY <2>3, <2>4, <2>5, <2>6, <2>7
<1>8. CASE SetKeys
  <2>1. /\ todo' \in Shapes /\ Ordered(todo') /\ Leads(todo) /\ Head(todo) = "keys"
        /\ \A o \in Ops : Waits(o, todo') <=> Waits(o, todo) /\ o # "keys"
    BY <1>0, <1>8, DoesStep DEF SetKeys, Ops
  <2>2. todo' \in Seq(Ops)
    BY <2>1, ShapeOrdered
  <2>3. TypeOK'
    BY <1>8, <2>2 DEF SetKeys, ManageCapacitiveButtons, TypeOK, Ops, Modes, Edits, NoMode, service, display, alerts, navSet, navOut
  <2>4. WorkInv'
    BY <1>0, <1>8, <2>1 DEF SetKeys, WorkInv, Ordered, Leads, Ops, TypeOK, service
  <2>5. HeadsUpInv'
    BY <1>8, <2>1 DEF SetKeys, HeadsUpInv, Ops, service, alerts
  <2>6. NavInv'
    BY <1>8, <2>1 DEF SetKeys, ManageCapacitiveButtons, NavInv, TypeOK, Ops, service, navSet, navOut
  <2>7. BrightnessInv'
    BY <1>0, <1>8, <2>1 DEF SetKeys, BrightnessInv, WorkInv, Ordered, Leads, Ops, TypeOK, Modes, Edits, NoMode, service, display
  <2> QED BY <2>3, <2>4, <2>5, <2>6, <2>7
<1>9. CASE SaveBrightness
  <2>1. /\ todo' \in Shapes /\ Ordered(todo') /\ Leads(todo) /\ Head(todo) = "manual"
        /\ \A o \in Ops : Waits(o, todo') <=> Waits(o, todo) /\ o # "manual"
    BY <1>0, <1>9, DoesStep DEF SaveBrightness, Ops
  <2>2. todo' \in Seq(Ops)
    BY <2>1, ShapeOrdered
  <2>3. TypeOK'
    BY <1>9, <2>2 DEF SaveBrightness, TypeOK, Ops, Modes, Edits, NoMode, service, display, alerts, navSet, navOut
  <2>4. WorkInv'
    BY <1>0, <1>9, <2>1 DEF SaveBrightness, WorkInv, Ordered, Leads, Ops, TypeOK, service
  <2>5. HeadsUpInv'
    BY <1>9, <2>1 DEF SaveBrightness, HeadsUpInv, Ops, service, alerts
  <2>6. NavInv'
    BY <1>9, <2>1 DEF SaveBrightness, NavInv, TypeOK, Ops, service, navSet, navOut
  <2>7. BrightnessInv'
    BY <1>0, <1>9, <2>1 DEF SaveBrightness, BrightnessInv, WorkInv, Ordered, Leads, Ops, TypeOK, Modes, Edits, NoMode, service, display
  <2> QED BY <2>3, <2>4, <2>5, <2>6, <2>7
<1>10. CASE RestoreBrightness
  <2>1. /\ todo' \in Shapes /\ Ordered(todo') /\ Leads(todo) /\ Head(todo) = "restore"
        /\ \A o \in Ops : Waits(o, todo') <=> Waits(o, todo) /\ o # "restore"
    BY <1>0, <1>10, DoesStep DEF RestoreBrightness, Ops
  <2>2. todo' \in Seq(Ops)
    BY <2>1, ShapeOrdered
  <2>3. TypeOK'
    BY <1>10, <2>2 DEF RestoreBrightness, TypeOK, Ops, Modes, Edits, NoMode, service, display, alerts, navSet, navOut
  <2>4. WorkInv'
    BY <1>0, <1>10, <2>1 DEF RestoreBrightness, WorkInv, Ordered, Leads, Ops, TypeOK, service
  <2>5. HeadsUpInv'
    BY <1>10, <2>1 DEF RestoreBrightness, HeadsUpInv, Ops, service, alerts
  <2>6. NavInv'
    BY <1>10, <2>1 DEF RestoreBrightness, NavInv, TypeOK, Ops, service, navSet, navOut
  <2>7. BrightnessInv'
    BY <1>0, <1>10, <2>1 DEF RestoreBrightness, BrightnessInv, WorkInv, Ordered, Leads, Ops, TypeOK, Modes, Edits, NoMode, service, display
  <2> QED BY <2>3, <2>4, <2>5, <2>6, <2>7
<1>11. CASE Commit
  <2>1. /\ todo' \in Shapes /\ Ordered(todo') /\ Leads(todo) /\ Head(todo) = "commit"
        /\ \A o \in Ops : Waits(o, todo') <=> Waits(o, todo) /\ o # "commit"
    BY <1>0, <1>11, DoesStep DEF Commit, Ops
  <2>2. todo' \in Seq(Ops)
    BY <2>1, ShapeOrdered
  <2>3. TypeOK'
    BY <1>11, <2>2 DEF Commit, TypeOK, Ops, Modes, Edits, NoMode, service, display, alerts, navSet, navOut
  <2>4. WorkInv'
    BY <1>0, <1>11, <2>1 DEF Commit, WorkInv, Ordered, Leads, Ops, TypeOK, service
  <2>5. HeadsUpInv'
    BY <1>11, <2>1 DEF Commit, HeadsUpInv, Ops, service, alerts
  <2>6. NavInv'
    BY <1>11, <2>1 DEF Commit, NavInv, TypeOK, Ops, service, navSet, navOut
  <2>7. BrightnessInv'
    BY <1>0, <1>11, <2>1 DEF Commit, BrightnessInv, WorkInv, Ordered, Leads, Ops, TypeOK, Modes, Edits, NoMode, service, display
  <2> QED BY <2>3, <2>4, <2>5, <2>6, <2>7
<1>12. CASE SetHeadsUp
  <2>0. ASSUME NEW op \in {"quiet", "headsUp"}, Does(op),
               heads' = IF op = "quiet" THEN FALSE ELSE heads \/ headsPref
        PROVE  IInv'
    <3>1. /\ todo' \in Shapes /\ Ordered(todo') /\ Leads(todo) /\ Head(todo) = op
          /\ \A o \in Ops : Waits(o, todo') <=> Waits(o, todo) /\ o # op
      BY <1>0, <2>0, DoesStep DEF Ops
    <3>2. todo' \in Seq(Ops)
      BY <3>1, ShapeOrdered
    <3>3. TypeOK'
      <4>1. heads' \in BOOLEAN
        BY <2>0 DEF TypeOK
      <4> QED BY <1>12, <3>2, <4>1 DEF SetHeadsUp, TypeOK, Ops, service, display, navSet, navOut
    <3>4. WorkInv'
      BY <1>0, <1>12, <3>1 DEF SetHeadsUp, WorkInv, Ordered, Leads, Ops, service
    <3>5. HeadsUpInv'
      BY <1>12, <2>0, <3>1 DEF SetHeadsUp, HeadsUpInv, WorkInv, TypeOK, Leads, Ops, service
    <3>6. NavInv'
      BY <1>12, <3>1 DEF SetHeadsUp, NavInv, Ops, service, navSet, navOut
    <3>7. BrightnessInv'
      BY <1>0, <1>12, <3>1 DEF SetHeadsUp, BrightnessInv, WorkInv, Ordered, Leads, Ops, service, display
    <3> QED BY <3>3, <3>4, <3>5, <3>6, <3>7
  <2>1. CASE Does("quiet") /\ heads' = FALSE
    BY <2>0, <2>1
  <2>2. CASE Does("headsUp") /\ heads' = (heads \/ headsPref)
    BY <2>0, <2>2
  <2> QED BY <1>12, <2>1, <2>2 DEF SetHeadsUp
<1>13. CASE UpdateTile
  <2>1. /\ todo' \in Shapes /\ Ordered(todo') /\ Leads(todo) /\ Head(todo) = "tile"
        /\ \A o \in Ops : Waits(o, todo') <=> Waits(o, todo) /\ o # "tile"
    BY <1>0, <1>13, DoesStep DEF UpdateTile, Ops
  <2>2. todo' \in Seq(Ops)
    BY <2>1, ShapeOrdered
  <2>3. TypeOK'
    BY <1>13, <2>2 DEF UpdateTile, TypeOK, Ops, Modes, Edits, NoMode, service, display, alerts, navSet, navOut
  <2>4. WorkInv'
    BY <1>0, <1>13, <2>1 DEF UpdateTile, WorkInv, Ordered, Leads, Ops, TypeOK, service
  <2>5. HeadsUpInv'
    BY <1>13, <2>1 DEF UpdateTile, HeadsUpInv, Ops, service, alerts
  <2>6. NavInv'
    BY <1>13, <2>1 DEF UpdateTile, NavInv, TypeOK, Ops, service, navSet, navOut
  <2>7. BrightnessInv'
    BY <1>0, <1>13, <2>1 DEF UpdateTile, BrightnessInv, WorkInv, Ordered, Leads, Ops, TypeOK, Modes, Edits, NoMode, service, display
  <2> QED BY <2>3, <2>4, <2>5, <2>6, <2>7
<1>14. CASE BrightnessMode
  <2> USE <1>14 DEF BrightnessMode, service, handler, alerts, navSet, navOut
  <2>1. TypeOK'
    BY DEF TypeOK, Irregular, Modes
  <2>2. WorkInv' /\ NavInv' /\ HeadsUpInv'
    BY DEF WorkInv, NavInv, HeadsUpInv
  <2>3. BrightnessInv'
    BY <1>0 DEF BrightnessInv, Irregular, Done, Ops, TypeOK
  <2> QED BY <2>1, <2>2, <2>3
<1>15. CASE Restart
  <2>1. /\ todo' = << >> /\ todo' \in Shapes /\ todo' \in Seq(Ops)
        /\ \A op \in Ops : ~Waits(op, todo')
    BY <1>15, IdleWaits DEF Restart, Fresh, Shapes
  <2>2. TypeOK'
    BY <1>15, <2>1 DEF Restart, Fresh, Irregular, TypeOK, Ops, Edits, display, alerts, navOut
  <2>3. WorkInv' /\ HeadsUpInv' /\ NavInv'
    BY <1>15, <2>1 DEF Restart, Fresh, WorkInv, HeadsUpInv, NavInv, TypeOK, Ops, alerts, navOut
  <2>4. BrightnessInv'
    BY <1>0, <1>15, <2>1 DEF Restart, Fresh, Irregular, Done, BrightnessInv, TypeOK, Ops, display
  <2> QED BY <2>2, <2>3, <2>4
<1>16. CASE Reboot
  <2>1. /\ todo' = << >> /\ todo' \in Shapes /\ todo' \in Seq(Ops)
        /\ \A op \in Ops : ~Waits(op, todo')
    BY <1>16, IdleWaits DEF Reboot, Fresh, Shapes
  <2>2. TypeOK'
    BY <1>16, <2>1 DEF Reboot, Fresh, Irregular, TypeOK, Ops, Edits, display, alerts, navOut
  <2>3. WorkInv' /\ HeadsUpInv' /\ NavInv'
    BY <1>16, <2>1 DEF Reboot, Fresh, WorkInv, HeadsUpInv, NavInv, TypeOK, Ops, alerts, navOut
  <2>4. BrightnessInv'
    BY <1>0, <1>16, <2>1 DEF Reboot, Fresh, Irregular, Done, BrightnessInv, TypeOK, Ops, display
  <2> QED BY <2>2, <2>3, <2>4
<1>17. CASE UNCHANGED vars
  BY <1>17 DEF vars, service, handler, display, alerts, navSet, navOut, TypeOK, WorkInv,
               HeadsUpInv, NavInv, BrightnessInv
<1> QED BY <1>1, <1>2, <1>3, <1>4, <1>5, <1>6, <1>7, <1>8, <1>9, <1>10, <1>11, <1>12, <1>13,
           <1>14, <1>15, <1>16, <1>17 DEF Next

-----------------------------------------------------------------------------
\* The inductive invariant holds in every state of every behaviour.
LEMMA Inductive == Spec => []IInv
BY IInvInit, IInvNext, PTL DEF Spec

\* Every variable of gaming mode and of the navigation bar keeps its type,
\* whatever handlers of MainService.java, tiles and reboots come in between.
THEOREM TypeCorrect == Spec => []TypeOK
<1>1. IInv => TypeOK
  BY DEF IInv
<1> QED BY <1>1, Inductive, PTL

\* disableGamingMode gives back the brightness mode chosen outside gaming mode,
\* unless its handler was cut short or overtaken: the mode is always in one of
\* the setting, prefEditor and the preference, and in which one follows from
\* what the handler has left to do.
THEOREM RestoresBrightness == Spec => []BrightnessRestored
<1>1. IInv => BrightnessRestored
  BY DEF IInv, BrightnessInv, BrightnessRestored, Done
<1> QED BY <1>1, Inductive, PTL

\* Outside gaming mode setHeadsUpNotification has left the preference in force,
\* also when the process died between the steps of enableGamingMode.
THEOREM RestoresHeadsUp == Spec => []HeadsUpFollowsPref
<1>1. IInv => HeadsUpFollowsPref
  <2>1. Done => ~Waits("headsUp", todo)
    BY IdleWaits DEF Done, Ops
  <2> QED BY <2>1 DEF IInv, HeadsUpInv, HeadsUpFollowsPref
<1> QED BY <1>1, Inductive, PTL

\* manageNavBar and manageCapacitiveButtons never leave the user with neither a
\* bar nor buttons outside gaming mode, nor with both.
THEOREM Navigates == Spec => []CanNavigate
<1>1. IInv => CanNavigate
  <2>1. Done => ~Waits("keys", todo)
    BY IdleWaits DEF Done, Ops
  <2> QED BY <2>1 DEF IInv, NavInv, CanNavigate, TypeOK
<1> QED BY <1>1, Inductive, PTL

=============================================================================
