-------------------------- MODULE MainService_proofs --------------------------
(* Two parts of MainService.                                                 *)
(*   Dynamic Modem: for every set of modes and subscriptions and every       *)
(*     number of callbacks in flight, modems and flag follow Wi-Fi from each *)
(*     handler that sets everything in calm to the next thing that goes      *)
(*     astray.                                                               *)
(*   Power-off alarm: for every set of alarms, the real time clock has at    *)
(*     most one, and the preference names it.                                *)
EXTENDS DynamicModem, NextAlarm, SequenceTheorems, NaturalsInduction, WellFoundedInduction, TLAPS

-----------------------------------------------------------------------------
In(x, w) == \E k \in 1 .. Len(w) : w[k] = x

\* The operations that bring flag and modems to the state for kind.
FlagOp(kind) == <<"flag", kind = "wifi">>
SetOp(s, kind) == <<"set", s, kind, mode[kind]>>
OtherOp(s, kind) == <<"other", s, kind, mode[kind]>>
Towards(kind) ==
  {FlagOp(kind), ForceNetworkMode(kind)} \cup {SetOp(s, kind) : s \in Subs}
                                         \cup {OtherOp(s, kind) : s \in Subs}

\* Setting the one modem is followed by setting the other.
Both(s) == modems > 1 /\ s \in 1 .. 2

\* A thread has still to set modem s, or the flag, for kind.
WillSet(s, kind) ==
  \/ In(<<"checkWifi">>, work["main"])
  \/ \E t \in Threads :
       \/ In(ForceNetworkMode(kind), work[t])
       \/ In(SetOp(s, kind), work[t]) \/ In(OtherOp(s, kind), work[t])
       \/ Both(s) /\ In(SetOp(3 - s, kind), work[t])
WillFlag(kind) ==
  In(<<"checkWifi">>, work["main"]) \/ \E t \in Threads : In(FlagOp(kind), work[t])

ModemsFollow(kind) == \A s \in Served : modem[s] = <<kind, mode[kind]>> \/ WillSet(s, kind)
FlagFollows(kind) == isWifiConnected = (kind = "wifi") \/ WillFlag(kind)

\* A modem in default mode, or never touched.
Defaulted(s) == modem[s] \in {NoMode, <<"default", mode["default"]>>}

\* Wi-Fi was lost and the callback thread has not yet heard of it.
NewsOfLoss == Idle("main") /\ Idle("conn") /\ isWifiConnected /\ ~assoc /\ events # << >>

-----------------------------------------------------------------------------
\* Before the service runs.
DeadInv ==
  /\ proc \in {"starting", "crashed"}
  /\ work = [t \in Threads |-> << >>] /\ events = << >>
  /\ ~registered
  /\ \A s \in Served : Defaulted(s)

OffModems == \A s \in Served : Defaulted(s) \/ WillSet(s, "default")
\* With the service off, only the main thread may be at work, closing.
OffInv ==
  /\ Off
  /\ Idle("conn") /\ events = << >>
  /\ work["main"] \in Seq(Towards("default") \cup {<<"unregister">>})
  /\ Idle("main") \/ assoc = ("wifi" \in usable)
  /\ registered => In(<<"unregister">>, work["main"])
  /\ OffModems

\* With the service on, both threads work towards the present network; or the
\* news that Wi-Fi is there is the last one on its way to the callback thread.
OnWork ==
  /\ work["main"] \in Seq(Towards(WantedKind) \cup {<<"register">>, <<"checkWifi">>})
  /\ Idle("main") \/ assoc = ("wifi" \in usable)
  /\ registered \/ In(<<"register">>, work["main"])
  /\ "wifi" \in usable /\ ~assoc => Quiescent
OnWifi ==
  /\ events # << >> => events[Len(events)] = Available("wifi")
  /\ events = << >> =>
       /\ work["conn"] \in Seq(Towards("wifi"))
       /\ ModemsFollow("wifi") /\ FlagFollows("wifi")
OnDefault ==
  /\ \A k \in 1 .. Len(events) : events[k].kind = "available" => events[k].net = "cell"
  /\ work["conn"] \in Seq(Towards("default"))
  /\ NewsOfLoss \/ (ModemsFollow("default") /\ FlagFollows("default"))
OnInv ==
  /\ On
  /\ OnWork
  /\ events \in Seq(Events)
  /\ work["conn"] \in Seq(Towards("wifi") \cup Towards("default"))
  /\ IF "wifi" \in usable THEN OnWifi ELSE OnDefault

BaseInv ==
  /\ enabled \in BOOLEAN /\ mode \in [Kinds -> Modes] /\ isWifiConnected \in BOOLEAN
  /\ DOMAIN work = Threads
  /\ assoc \in BOOLEAN /\ usable \subseteq {"wifi", "cell"}
  /\ modem \in [Subs -> ModemStates]
  /\ sub \in DataSubs /\ modems \in 1 .. 2 /\ serving \in BOOLEAN

\* What holds whether or not something went astray: who has a context and a
\* request, and which operations a thread may have to do.
Plain == ({"flag"} \X BOOLEAN) \cup ({"read"} \X Kinds)
         \cup ({"set", "other"} \X Subs \X Kinds \X Modes)
MainOps(on) == Plain \cup {<<"checkWifi">>} \cup (IF on THEN {<<"register">>} ELSE {<<"unregister">>})
LifeInv ==
  /\ work["main"] \in Seq(MainOps(serving)) /\ work["conn"] \in Seq(Plain)
  /\ ~Alive => /\ ~serving /\ ~registered /\ events = << >>
               /\ work = [t \in Threads |-> << >>]
  /\ Alive /\ enabled => hasContext
  /\ serving => hasContext /\ (registered \/ In(<<"register">>, work["main"]))
  /\ ~serving /\ registered => In(<<"unregister">>, work["main"])

StateInv == DeadInv \/ OffInv \/ OnInv
ModemInv == BaseInv /\ LifeInv /\ (strayed \/ StateInv)

-----------------------------------------------------------------------------
(* What the operations are.                                                  *)

\* The first component tells the operations apart.
LEMMA OpShapes ==
  ASSUME NEW kind \in Kinds,
         NEW op \in Towards(kind) \cup {<<"register">>, <<"checkWifi">>, <<"unregister">>}
  PROVE  /\ op[1] = "flag" => op = FlagOp(kind) /\ op[2] = (kind = "wifi")
         /\ op[1] = "read" => op = ForceNetworkMode(kind) /\ op[2] = kind
         /\ op[1] = "set" => \E s \in Subs : /\ op = SetOp(s, kind) /\ op[2] = s
                                             /\ op[3] = kind /\ op[4] = mode[kind]
         /\ op[1] = "other" => \E s \in Subs : /\ op = OtherOp(s, kind) /\ op[2] = s
                                               /\ op[3] = kind /\ op[4] = mode[kind]
         /\ op[1] = "register" => op = <<"register">>
         /\ op[1] = "checkWifi" => op = <<"checkWifi">>
         /\ op[1] = "unregister" => op = <<"unregister">>
<1>1. CASE op = FlagOp(kind)
  BY <1>1 DEF FlagOp
<1>2. CASE op = ForceNetworkMode(kind)
  BY <1>2 DEF ForceNetworkMode
<1>3. ASSUME NEW s \in Subs, op = SetOp(s, kind)
      PROVE  op[1] = "set" /\ op[2] = s /\ op[3] = kind /\ op[4] = mode[kind]
  BY <1>3 DEF SetOp
<1>4. ASSUME NEW s \in Subs, op = OtherOp(s, kind)
      PROVE  op[1] = "other" /\ op[2] = s /\ op[3] = kind /\ op[4] = mode[kind]
  BY <1>4 DEF OtherOp
<1>5. CASE op \in {<<"register">>, <<"checkWifi">>, <<"unregister">>}
  BY <1>5
<1> QED
  BY <1>1, <1>2, <1>3, <1>4, <1>5 DEF Towards

LEMMA OpsDiffer ==
  ASSUME NEW kind, NEW s, NEW q
  PROVE  /\ FlagOp(kind)[1] = "flag" /\ ForceNetworkMode(kind)[1] = "read"
         /\ SetOp(s, kind)[1] = "set" /\ SetOp(s, kind)[2] = s
         /\ OtherOp(s, kind)[1] = "other" /\ OtherOp(s, kind)[2] = s
         /\ <<"checkWifi">>[1] = "checkWifi" /\ <<"register">>[1] = "register"
         /\ <<"unregister">>[1] = "unregister"
BY DEF FlagOp, ForceNetworkMode, SetOp, OtherOp

\* The default data subscription first, then the other one.
LEMMA SetModemsIs ==
  ASSUME NEW kind \in Kinds, BaseInv
  PROVE  /\ SetModems(kind) \in Seq(Towards(kind))
         /\ \A s \in Served : /\ s \in Subs
                             /\ \/ In(SetOp(s, kind), SetModems(kind))
                                \/ Both(s) /\ In(SetOp(3 - s, kind), SetModems(kind))
<1>1. CASE sub = 0
  BY <1>1 DEF SetModems, Served
<1>2. CASE sub # 0
  <2>1. sub \in Subs /\ sub \in Nat /\ 1 \in Subs /\ 2 \in Subs
    BY <1>2, ModemAssumption DEF Subs, BaseInv
  <2>2. SetModems(kind) = <<SetOp(sub, kind)>>
    BY <1>2 DEF SetModems, SetOp
  <2>3. SetOp(sub, kind) \in Towards(kind)
    BY <2>1 DEF Towards
  <2>4. In(SetOp(sub, kind), SetModems(kind))
    BY <2>2 DEF In
  <2>5. ASSUME NEW s \in Served
        PROVE  s \in Subs /\ (s = sub \/ (Both(s) /\ 3 - s = sub))
    <3>1. CASE s = sub
      BY <2>1, <3>1
    <3>2. CASE s # sub
      <4>1. modems > 1 /\ sub \in 1 .. 2 /\ s = 3 - sub
        BY <1>2, <3>2 DEF Served
      <4>2. s \in 1 .. 2 /\ 3 - s = sub /\ (s = 1 \/ s = 2)
        BY <4>1
      <4> QED
        BY <2>1, <4>1, <4>2 DEF Both
    <3> QED
      BY <3>1, <3>2
  <2>6. SetModems(kind) \in Seq(Towards(kind))
    BY <2>2, <2>3
  <2> QED
    BY <2>4, <2>5, <2>6
<1> QED
  BY <1>1, <1>2

\* What a thread has still to do after one operation that is replaced by others.
LEMMA Continued ==
  ASSUME NEW S, NEW w \in Seq(S), w # << >>, NEW ops \in Seq(S)
  PROVE  /\ ops \o Tail(w) \in Seq(S) /\ Head(w) \in S
         /\ \A x : In(x, ops) => In(x, ops \o Tail(w))
         /\ \A x : In(x, w) /\ x # Head(w) => In(x, ops \o Tail(w))
<1>1. /\ Head(w) \in S /\ Head(w) = w[1] /\ Len(w) \in Nat /\ Len(w) >= 1 /\ Tail(w) \in Seq(S)
      /\ Len(Tail(w)) = Len(w) - 1 /\ \A k \in 1 .. Len(Tail(w)) : Tail(w)[k] = w[k + 1]
  BY HeadTailProperties
<1>2. /\ ops \o Tail(w) \in Seq(S) /\ Len(ops \o Tail(w)) = Len(ops) + Len(w) - 1
      /\ Len(ops) \in Nat
      /\ \A k \in 1 .. Len(ops) : (ops \o Tail(w))[k] = ops[k]
      /\ \A k \in 1 .. Len(Tail(w)) : (ops \o Tail(w))[Len(ops) + k] = Tail(w)[k]
  BY <1>1
<1>3. ASSUME NEW x, In(x, ops) PROVE In(x, ops \o Tail(w))
  BY <1>1, <1>2, <1>3 DEF In
<1>4. ASSUME NEW x, In(x, w), x # Head(w) PROVE In(x, ops \o Tail(w))
  <2>1. PICK k \in 1 .. Len(w) : w[k] = x
    BY <1>4 DEF In
  <2>2. k # 1 /\ k - 1 \in 1 .. Len(Tail(w)) /\ (k - 1) + 1 = k
    BY <1>1, <1>4, <2>1
  <2>3. Len(ops) + (k - 1) \in 1 .. Len(ops \o Tail(w))
    BY <1>1, <1>2, <2>2
  <2>4. (ops \o Tail(w))[Len(ops) + (k - 1)] = x
    BY <1>1, <1>2, <2>1, <2>2
  <2> QED
    BY <2>3, <2>4 DEF In
<1> QED
  BY <1>1, <1>2, <1>3, <1>4

-----------------------------------------------------------------------------
(* One operation of one thread.                                              *)

\* It moves flag and modems to the state for kind, or leaves it to be done.
Moves(kind) ==
  /\ \A s \in Served :
       /\ modem'[s] \in {modem[s], <<kind, mode[kind]>>}
       /\ WillSet(s, kind) => WillSet(s, kind)' \/ modem'[s] = <<kind, mode[kind]>>
  /\ isWifiConnected' \in {isWifiConnected, kind = "wifi"}
  /\ WillFlag(kind) => WillFlag(kind)' \/ isWifiConnected' = (kind = "wifi")

\* Thread t does its next operation, which leaves ops to be done.
Replaces(t, ops, S) ==
  /\ work[t] \in Seq(S) /\ work[t] # << >> /\ ops \in Seq(S)
  /\ work' = [work EXCEPT ![t] = ops \o Tail(@)]
  /\ mode' = mode /\ sub' = sub /\ modems' = modems

\* An operation that is neither of Towards nor checkWifi is none that matters.
LEMMA Kept ==
  ASSUME BaseInv, NEW t \in Threads, NEW ops, NEW S, Replaces(t, ops, S)
  PROVE  /\ DOMAIN work' = Threads /\ work'[t] \in Seq(S) /\ Head(work[t]) \in S
         /\ \A u \in Threads : u # t => work'[u] = work[u]
         /\ \A x : In(x, ops) => In(x, work'[t])
         /\ \A u \in Threads : \A x : In(x, work[u]) /\ x # Head(work[t]) => In(x, work'[u])
<1>1. /\ DOMAIN work' = Threads /\ work'[t] = ops \o Tail(work[t])
      /\ \A u \in Threads : u # t => work'[u] = work[u]
  BY DEF Replaces, BaseInv
<1>2. /\ ops \o Tail(work[t]) \in Seq(S) /\ Head(work[t]) \in S
      /\ \A x : In(x, ops) => In(x, ops \o Tail(work[t]))
      /\ \A x : In(x, work[t]) /\ x # Head(work[t]) => In(x, ops \o Tail(work[t]))
  BY Continued DEF Replaces
<1> QED
  BY <1>1, <1>2

\* What is not the operation done is still to be done.
LEMMA StillPending ==
  ASSUME BaseInv, NEW t \in Threads, NEW ops, NEW S, Replaces(t, ops, S),
         NEW kind \in Kinds, NEW s
  PROVE  /\ WillSet(s, kind) =>
              \/ WillSet(s, kind)'
              \/ Head(work[t]) \in {<<"checkWifi">>, ForceNetworkMode(kind),
                                    SetOp(s, kind), OtherOp(s, kind)}
              \/ Both(s) /\ Head(work[t]) = SetOp(3 - s, kind)
         /\ WillFlag(kind) =>
              \/ WillFlag(kind)'
              \/ Head(work[t]) \in {<<"checkWifi">>, FlagOp(kind)}
         /\ \/ In(ForceNetworkMode(kind), ops) \/ In(SetOp(s, kind), ops)
            \/ In(OtherOp(s, kind), ops) \/ (Both(s) /\ In(SetOp(3 - s, kind), ops))
            => WillSet(s, kind)'
         /\ In(FlagOp(kind), ops) => WillFlag(kind)'
<1>1. /\ \A x : In(x, ops) => In(x, work'[t])
      /\ \A u \in Threads : \A x : In(x, work[u]) /\ x # Head(work[t]) => In(x, work'[u])
  BY Kept
<1>2. /\ SetOp(s, kind)' = SetOp(s, kind) /\ SetOp(3 - s, kind)' = SetOp(3 - s, kind)
      /\ OtherOp(s, kind)' = OtherOp(s, kind) /\ Both(s)' = Both(s)
      /\ "main" \in Threads
  BY DEF SetOp, OtherOp, Both, Replaces, Threads
<1>3. WillSet(s, kind) =>
              \/ WillSet(s, kind)'
              \/ Head(work[t]) \in {<<"checkWifi">>, ForceNetworkMode(kind),
                                    SetOp(s, kind), OtherOp(s, kind)}
              \/ Both(s) /\ Head(work[t]) = SetOp(3 - s, kind)
  BY <1>1, <1>2, Zenon DEF WillSet
<1> QED
  BY <1>1, <1>2, <1>3 DEF WillSet, WillFlag

LEMMA SetFlagMoves ==
  ASSUME BaseInv, NEW kind \in Kinds, NEW t \in Threads, SetFlag(t), NEW S,
         work[t] \in Seq(S), Head(work[t]) \in Towards(kind)
  PROVE  Moves(kind) /\ Replaces(t, << >>, S) /\ modem' = modem /\ isWifiConnected' \in BOOLEAN
<1>1. /\ Replaces(t, << >>, S) /\ modem' = modem /\ Head(work[t])[1] = "flag"
      /\ isWifiConnected' = Head(work[t])[2]
  BY DEF Replaces, SetFlag, Doing, Idle, Continue, Arg, user, sims
<1>2. Head(work[t]) = FlagOp(kind) /\ isWifiConnected' = (kind = "wifi")
  BY <1>1, OpShapes
<1>3. ASSUME NEW s \in Served PROVE WillSet(s, kind) => WillSet(s, kind)'
  BY <1>1, <1>2, StillPending, OpsDiffer
<1> QED
  BY <1>1, <1>2, <1>3 DEF Moves

LEMMA ReadModeMoves ==
  ASSUME BaseInv, NEW kind \in Kinds, NEW t \in Threads, ReadMode(t), NEW S,
         work[t] \in Seq(S), Towards(kind) \subseteq S, Head(work[t]) \in Towards(kind)
  PROVE  /\ Moves(kind) /\ Replaces(t, SetModems(kind), S)
         /\ modem' = modem /\ isWifiConnected' = isWifiConnected
<1>1. /\ modem' = modem /\ isWifiConnected' = isWifiConnected /\ Head(work[t])[1] = "read"
      /\ work[t] # << >> /\ work' = [work EXCEPT ![t] = SetModems(Head(work[t])[2]) \o Tail(@)]
      /\ mode' = mode /\ sub' = sub /\ modems' = modems
  BY DEF ReadMode, Doing, Idle, Continue, Arg, user, sims, obj
<1>2. Head(work[t]) = ForceNetworkMode(kind) /\ Head(work[t])[2] = kind
  BY <1>1, OpShapes
<1>3. /\ SetModems(kind) \in Seq(Towards(kind))
      /\ \A s \in Served : \/ In(SetOp(s, kind), SetModems(kind))
                           \/ Both(s) /\ In(SetOp(3 - s, kind), SetModems(kind))
  BY SetModemsIs
<1>4. Replaces(t, SetModems(kind), S)
  <2>1. SetModems(kind) \in Seq(S)
    BY <1>3
  <2> QED
    BY <1>1, <1>2, <2>1 DEF Replaces
<1>5. ASSUME NEW s \in Served PROVE WillSet(s, kind)'
  <2>1. \/ In(SetOp(s, kind), SetModems(kind))
        \/ Both(s) /\ In(SetOp(3 - s, kind), SetModems(kind))
    BY <1>3
  <2> QED
    BY <1>4, <2>1, StillPending
<1>6. WillFlag(kind) => WillFlag(kind)'
  BY <1>2, <1>4, StillPending, OpsDiffer
<1> QED
  BY <1>1, <1>4, <1>5, <1>6 DEF Moves

LEMMA SetModeMoves ==
  ASSUME BaseInv, NEW kind \in Kinds, NEW t \in Threads, SetMode(t) \/ SetOtherMode(t), NEW S,
         work[t] \in Seq(S), Towards(kind) \subseteq S, Head(work[t]) \in Towards(kind)
  PROVE  /\ Moves(kind) /\ \E ops : Replaces(t, ops, S)
         /\ modem' \in [Subs -> ModemStates] /\ isWifiConnected' = isWifiConnected
<1>1. /\ isWifiConnected' = isWifiConnected /\ Head(work[t])[1] \in {"set", "other"}
      /\ work[t] # << >> /\ mode' = mode /\ sub' = sub /\ modems' = modems
      /\ modem' = [modem EXCEPT ![Head(work[t])[2]] = <<Head(work[t])[3], Head(work[t])[4]>>]
  BY DEF SetMode, SetOtherMode, Sets, Doing, Idle, Arg, user, sims, obj
<1>2. PICK q \in Subs : /\ Head(work[t]) \in {SetOp(q, kind), OtherOp(q, kind)}
                        /\ Head(work[t])[2] = q
                        /\ Head(work[t])[3] = kind /\ Head(work[t])[4] = mode[kind]
  BY <1>1, OpShapes
<1>3. /\ modem \in [Subs -> ModemStates] /\ <<kind, mode[kind]>> \in ModemStates
      /\ modem' = [modem EXCEPT ![q] = <<kind, mode[kind]>>]
  BY <1>1, <1>2 DEF BaseInv, ModemStates
<1>4. PICK ops : /\ Replaces(t, ops, S)
                 /\ \A s : Both(s) /\ Head(work[t]) = SetOp(3 - s, kind) => In(OtherOp(s, kind), ops)
  <2>1. CASE SetMode(t)
    <3>1. work' = [work EXCEPT ![t] = SetOther(q, kind, mode[kind]) \o Tail(@)]
      BY <1>2, <2>1 DEF SetMode, Continue, Arg
    <3>2. CASE modems > 1 /\ q \in 1 .. 2
      <4>1. SetOther(q, kind, mode[kind]) = <<OtherOp(3 - q, kind)>>
        BY <3>2 DEF SetOther, OtherOp
      <4>2. OtherOp(3 - q, kind) \in S
        <5>1. 3 - q \in Subs
          BY <3>2 DEF Subs
        <5> QED
          BY <5>1 DEF Towards
      <4>3. ASSUME NEW s, Both(s), Head(work[t]) = SetOp(3 - s, kind)
            PROVE  In(OtherOp(s, kind), <<OtherOp(3 - q, kind)>>)
        <5>1. 3 - s = q
          BY <1>2, <4>3, OpsDiffer
        <5>2. s = 3 - q
          BY <4>3, <5>1 DEF Both
        <5> QED
          BY <5>2 DEF In
      <4>4. Replaces(t, <<OtherOp(3 - q, kind)>>, S)
        BY <1>1, <3>1, <4>1, <4>2 DEF Replaces
      <4> QED
        BY <4>3, <4>4
    <3>3. CASE ~(modems > 1 /\ q \in 1 .. 2)
      <4>1. SetOther(q, kind, mode[kind]) = << >>
        BY <3>3 DEF SetOther
      <4>2. ASSUME NEW s, Both(s), Head(work[t]) = SetOp(3 - s, kind)
            PROVE  FALSE
        <5>1. 3 - s = q
          BY <1>2, <4>2, OpsDiffer
        <5> QED
          BY <3>3, <4>2, <5>1 DEF Both
      <4>3. Replaces(t, << >>, S)
        BY <1>1, <3>1, <4>1 DEF Replaces
      <4> QED
        BY <4>2, <4>3
    <3> QED
      BY <3>2, <3>3
  <2>2. CASE SetOtherMode(t)
    <3>1. work' = [work EXCEPT ![t] = << >> \o Tail(@)] /\ Head(work[t])[1] = "other"
      BY <2>2 DEF SetOtherMode, Continue, Doing
    <3>2. Replaces(t, << >>, S)
      BY <1>1, <3>1 DEF Replaces
    <3>3. \A s : Head(work[t]) # SetOp(3 - s, kind)
      BY <3>1, OpsDiffer
    <3> QED
      BY <3>2, <3>3
  <2> QED
    BY <2>1, <2>2
<1>5. ASSUME NEW s \in Served
      PROVE  /\ modem'[s] \in {modem[s], <<kind, mode[kind]>>}
             /\ WillSet(s, kind) => WillSet(s, kind)' \/ modem'[s] = <<kind, mode[kind]>>
  <2>1. s \in Subs
    BY SetModemsIs
  <2>2. CASE s = q
    BY <1>3, <2>1, <2>2
  <2>3. CASE s # q
    <3>1. modem'[s] = modem[s]
      BY <1>3, <2>1, <2>3
    <3>2. Head(work[t]) \notin {<<"checkWifi">>, ForceNetworkMode(kind), SetOp(s, kind), OtherOp(s, kind)}
      BY <1>1, <1>2, <2>3, OpsDiffer
    <3>3. WillSet(s, kind) => WillSet(s, kind)'
      BY <1>4, <3>2, StillPending
    <3> QED
      BY <3>1, <3>3
  <2> QED
    BY <2>2, <2>3
<1>6. WillFlag(kind) => WillFlag(kind)'
  BY <1>1, <1>4, StillPending, OpsDiffer
<1>7. modem' \in [Subs -> ModemStates]
  BY <1>3
<1>8. Moves(kind)
  BY <1>1, <1>5, <1>6 DEF Moves
<1> QED
  BY <1>1, <1>4, <1>7, <1>8

LEMMA MovesFollow ==
  ASSUME NEW kind \in Kinds, Moves(kind), mode' = mode, sub' = sub, modems' = modems
  PROVE  /\ ModemsFollow(kind) => ModemsFollow(kind)'
         /\ FlagFollows(kind) => FlagFollows(kind)'
         /\ kind = "default" /\ OffModems => OffModems'
<1>1. Served' = Served
  BY DEF Served
<1>2. ModemsFollow(kind) => ModemsFollow(kind)'
  BY <1>1 DEF Moves, ModemsFollow
<1>3. FlagFollows(kind) => FlagFollows(kind)'
  BY DEF Moves, FlagFollows
<1>4. kind = "default" /\ OffModems => OffModems'
  BY <1>1 DEF Moves, OffModems, Defaulted
<1> QED
  BY <1>2, <1>3, <1>4

Does(t) == SetFlag(t) \/ ReadMode(t) \/ SetMode(t) \/ SetOtherMode(t)

\* The operations of both threads, done for kind.
LEMMA ThreadStep ==
  ASSUME BaseInv, NEW kind \in Kinds, NEW t \in Threads, Does(t), NEW S,
         work[t] \in Seq(S), Towards(kind) \subseteq S, Head(work[t]) \in Towards(kind)
  PROVE  Moves(kind) /\ BaseInv' /\ \E ops : Replaces(t, ops, S)
<1>1. /\ enabled' = enabled /\ mode' = mode /\ assoc' = assoc /\ usable' = usable
      /\ sub' = sub /\ modems' = modems /\ serving' = serving
  BY DEF Does, SetFlag, ReadMode, SetMode, SetOtherMode, user, net, sims
<1>2. ASSUME NEW ops, Replaces(t, ops, S) PROVE DOMAIN work' = Threads
  BY <1>2, Kept
<1>3. CASE SetFlag(t)
  <2>1. Moves(kind) /\ Replaces(t, << >>, S) /\ modem' = modem /\ isWifiConnected' \in BOOLEAN
    BY <1>3, SetFlagMoves
  <2> QED
    BY <1>1, <1>2, <2>1 DEF BaseInv
<1>4. CASE ReadMode(t)
  <2>1. /\ Moves(kind) /\ Replaces(t, SetModems(kind), S)
        /\ modem' = modem /\ isWifiConnected' = isWifiConnected
    BY <1>4, ReadModeMoves
  <2> QED
    BY <1>1, <1>2, <2>1 DEF BaseInv
<1>5. CASE SetMode(t) \/ SetOtherMode(t)
  <2>1. /\ Moves(kind) /\ \E ops : Replaces(t, ops, S)
        /\ modem' \in [Subs -> ModemStates] /\ isWifiConnected' = isWifiConnected
    BY <1>5, SetModeMoves
  <2> QED
    BY <1>1, <1>2, <2>1 DEF BaseInv
<1> QED
  BY <1>3, <1>4, <1>5 DEF Does

LEMMA KindIs ==
  WantedKind \in Kinds /\ ("wifi" \in usable => WantedKind = "wifi") /\ ("wifi" \notin usable => WantedKind = "default")
BY DEF WantedKind, Kinds

\* What the two threads still do when one of them is at work.
LEMMA OnBusy ==
  ASSUME BaseInv, OnInv, NEW t \in Threads, work[t] # << >>
  PROVE  ~("wifi" \in usable /\ ~assoc) /\ ~NewsOfLoss
BY DEF OnInv, OnWork, Quiescent, NewsOfLoss, Idle, Threads

LEMMA OnThread ==
  ASSUME BaseInv, OnInv, NEW t \in Threads, Does(t)
  PROVE  BaseInv' /\ OnInv'
<1>1. /\ proc' = proc /\ enabled' = enabled /\ mode' = mode /\ assoc' = assoc /\ usable' = usable
      /\ sub' = sub /\ modems' = modems /\ serving' = serving /\ hasContext' = hasContext /\ registered' = registered
      /\ events' = events /\ work[t] # << >> /\ Head(work[t])[1] \in {"flag", "read", "set", "other"}
  BY DEF Does, SetFlag, ReadMode, SetMode, SetOtherMode, Doing, Idle, user, net, sims, obj
<1>2. PICK K \in Kinds : K = WantedKind
  BY KindIs
<1>3. ("wifi" \in usable => K = "wifi") /\ ("wifi" \notin usable => K = "default") /\ WantedKind' = K
  BY <1>1, <1>2, KindIs DEF WantedKind
<1>4. \A kind : Towards(kind)' = Towards(kind)
  BY <1>1 DEF Towards, SetOp, OtherOp, Both
<1>5. ~("wifi" \in usable /\ ~assoc) /\ ~NewsOfLoss
  BY <1>1, OnBusy
<1>6. Moves(K) => (ModemsFollow(K) /\ FlagFollows(K) => ModemsFollow(K)' /\ FlagFollows(K)')
  BY <1>1, MovesFollow
<1>7. CASE t = "main"
  <2>1. PICK S : S = Towards(K) \cup {<<"register">>, <<"checkWifi">>}
    OBVIOUS
  <2>2. work[t] \in Seq(S)
    BY <1>2, <1>7, <2>1 DEF OnInv, OnWork
  <2>3. Head(work[t]) \in Towards(K) /\ Head(work[t]) # <<"register">>
    <3>1. Head(work[t]) \in S
      BY <1>1, <2>2
    <3> QED
      BY <1>1, <2>1, <3>1, OpsDiffer
  <2>4. Moves(K) /\ BaseInv' /\ \E ops : Replaces(t, ops, S)
    BY <2>1, <2>2, <2>3, ThreadStep
  <2>5. /\ work'["main"] \in Seq(S) /\ work'["conn"] = work["conn"]
        /\ In(<<"register">>, work["main"]) => In(<<"register">>, work'["main"])
    <3>1. PICK ops : Replaces(t, ops, S)
      BY <2>4
    <3>2. /\ work'[t] \in Seq(S) /\ \A u \in Threads : u # t => work'[u] = work[u]
          /\ \A u \in Threads : \A x : In(x, work[u]) /\ x # Head(work[t]) => In(x, work'[u])
      BY <3>1, Kept
    <3> QED
      BY <1>7, <2>3, <3>2 DEF Threads
  <2>6. OnWork'
    BY <1>1, <1>3, <1>4, <1>5, <1>7, <2>1, <2>5 DEF OnInv, OnWork, Idle
  <2>7. CASE "wifi" \in usable
    <3>1. OnWifi'
      BY <1>1, <1>3, <1>4, <1>6, <2>4, <2>5, <2>7 DEF OnInv, OnWifi, Available
    <3> QED
      BY <1>1, <1>4, <2>4, <2>5, <2>6, <2>7, <3>1 DEF OnInv, On, Alive
  <2>8. CASE "wifi" \notin usable
    <3>1. OnDefault'
      BY <1>1, <1>3, <1>4, <1>5, <1>6, <2>4, <2>5, <2>8 DEF OnInv, OnDefault
    <3> QED
      BY <1>1, <1>4, <2>4, <2>5, <2>6, <2>8, <3>1 DEF OnInv, On, Alive
  <2> QED
    BY <2>4, <2>7, <2>8
<1>8. CASE t = "conn"
  <2>1. ASSUME NEW S, NEW ops, Replaces(t, ops, S)
        PROVE  work'["conn"] \in Seq(S) /\ work'["main"] = work["main"]
    <3>1. work'[t] \in Seq(S) /\ \A u \in Threads : u # t => work'[u] = work[u]
      BY <2>1, Kept
    <3> QED
      BY <1>8, <3>1 DEF Threads
  <2>2. ASSUME work'["main"] = work["main"] PROVE OnWork'
    BY <1>1, <1>2, <1>3, <1>4, <1>5, <2>2 DEF OnInv, OnWork, Idle
  <2>3. CASE "wifi" \in usable /\ events # << >>
    <3>1. PICK S : S = Towards("wifi") \cup Towards("default")
      OBVIOUS
    <3>2. work[t] \in Seq(S)
      BY <1>8, <3>1 DEF OnInv
    <3>3. Head(work[t]) \in S
      BY <1>1, <3>2
    <3>4. PICK kind \in Kinds : Head(work[t]) \in Towards(kind) /\ Towards(kind) \subseteq S
      BY <3>1, <3>3 DEF Kinds
    <3>5. BaseInv' /\ \E ops : Replaces(t, ops, S)
      BY <3>2, <3>4, ThreadStep
    <3>6. work'["conn"] \in Seq(S) /\ work'["main"] = work["main"]
      BY <2>1, <3>5
    <3>7. OnWifi'
      BY <1>1, <2>3 DEF OnInv, OnWifi, Available
    <3> QED
      BY <1>1, <1>4, <2>2, <2>3, <3>1, <3>5, <3>6, <3>7 DEF OnInv, On, Alive
  <2>4. CASE ~("wifi" \in usable /\ events # << >>)
    <3>1. work[t] \in Seq(Towards(K)) /\ ModemsFollow(K) /\ FlagFollows(K)
      BY <1>3, <1>5, <1>8, <2>4 DEF OnInv, OnWifi, OnDefault
    <3>2. PICK S : S = Towards(K)
      OBVIOUS
    <3>3. Moves(K) /\ BaseInv' /\ \E ops : Replaces(t, ops, S)
      <4>1. Head(work[t]) \in Towards(K)
        BY <1>1, <3>1
      <4> QED
        BY <3>1, <3>2, <4>1, ThreadStep
    <3>4. work'["conn"] \in Seq(S) /\ work'["main"] = work["main"]
      BY <2>1, <3>3
    <3>5. ModemsFollow(K)' /\ FlagFollows(K)'
      BY <1>6, <3>1, <3>3
    <3>6. work'["conn"] \in Seq(Towards("wifi") \cup Towards("default"))
      BY <3>2, <3>4 DEF Kinds
    <3>7. CASE "wifi" \in usable
      <4>1. OnWifi'
        BY <1>1, <1>3, <1>4, <2>4, <3>2, <3>4, <3>5, <3>7 DEF OnWifi
      <4> QED
        BY <1>1, <1>4, <2>2, <3>3, <3>4, <3>6, <3>7, <4>1 DEF OnInv, On, Alive
    <3>8. CASE "wifi" \notin usable
      <4>1. OnDefault'
        BY <1>1, <1>3, <1>4, <3>2, <3>4, <3>5, <3>8 DEF OnInv, OnDefault
      <4> QED
        BY <1>1, <1>4, <2>2, <3>3, <3>4, <3>6, <3>8, <4>1 DEF OnInv, On, Alive
    <3> QED
      BY <3>7, <3>8
  <2> QED
    BY <2>3, <2>4
<1> QED
  BY <1>7, <1>8 DEF Threads

\* checkWifi and register: the main thread continues with ops.
LEMMA OnMain ==
  ASSUME BaseInv, OnInv, NEW K \in Kinds, K = WantedKind, NEW ops, NEW S,
         S = Towards(K) \cup {<<"register">>, <<"checkWifi">>},
         Replaces("main", ops, S), Moves(K),
         UNCHANGED <<proc, enabled, hasContext, assoc, usable, modem, isWifiConnected, serving>>,
         registered' \/ In(<<"register">>, work'["main"]),
         events' \in Seq(Events),
         "wifi" \in usable /\ events' # << >> => events'[Len(events')] = Available("wifi"),
         events' # events => events' # << >> \/ "wifi" \notin usable,
         "wifi" \notin usable =>
           \A k \in 1 .. Len(events') : events'[k].kind = "available" => events'[k].net = "cell"
  PROVE  BaseInv' /\ OnInv'
<1>1. "main" \in Threads /\ work["main"] # << >> /\ mode' = mode /\ sub' = sub /\ modems' = modems
  BY DEF Threads, Replaces
<1>2. ("wifi" \in usable => K = "wifi") /\ ("wifi" \notin usable => K = "default") /\ WantedKind' = K
  BY KindIs DEF WantedKind
<1>3. \A kind : Towards(kind)' = Towards(kind)
  BY <1>1 DEF Towards, SetOp, OtherOp, Both
<1>4. ~("wifi" \in usable /\ ~assoc) /\ ~NewsOfLoss
  BY <1>1, OnBusy
<1>5. ModemsFollow(K) /\ FlagFollows(K) => ModemsFollow(K)' /\ FlagFollows(K)'
  BY <1>1, MovesFollow
<1>6. DOMAIN work' = Threads /\ work'["main"] \in Seq(S) /\ work'["conn"] = work["conn"]
  <2>1. /\ DOMAIN work' = Threads /\ work'["main"] \in Seq(S)
        /\ \A u \in Threads : u # "main" => work'[u] = work[u]
    BY <1>1, Kept
  <2> QED
    BY <2>1 DEF Threads
<1>7. BaseInv'
  BY <1>1, <1>6 DEF BaseInv
<1>8. OnWork'
  BY <1>1, <1>2, <1>3, <1>4, <1>6 DEF OnInv, OnWork, Idle
<1>9. CASE "wifi" \in usable
  <2>1. OnWifi'
    BY <1>1, <1>2, <1>3, <1>5, <1>6, <1>9 DEF OnInv, OnWifi, Available
  <2> QED
    BY <1>1, <1>3, <1>6, <1>7, <1>8, <1>9, <2>1 DEF OnInv, On, Alive
<1>10. CASE "wifi" \notin usable
  <2>1. OnDefault'
    BY <1>1, <1>2, <1>3, <1>4, <1>5, <1>6, <1>10 DEF OnInv, OnDefault
  <2> QED
    BY <1>1, <1>3, <1>6, <1>7, <1>8, <1>10, <2>1 DEF OnInv, On, Alive
<1> QED
  BY <1>9, <1>10

LEMMA OnCheckWifi ==
  ASSUME BaseInv, OnInv, CheckWifi("main")
  PROVE  BaseInv' /\ OnInv'
<1>1. /\ UNCHANGED <<proc, enabled, mode, hasContext, isWifiConnected, registered, events, assoc,
                     usable, modem, sub, modems, serving>>
      /\ work["main"] # << >> /\ Head(work["main"])[1] = "checkWifi"
      /\ work' = [work EXCEPT !["main"] = AfterWifiCheck \o Tail(@)]
  BY DEF CheckWifi, Doing, Idle, Continue, user, net, sims, obj
<1>2. PICK K \in Kinds : K = WantedKind
  BY KindIs
<1>3. ("wifi" \in usable => K = "wifi") /\ ("wifi" \notin usable => K = "default")
  BY <1>2, KindIs
<1>4. PICK ops : ops = <<FlagOp(K), ForceNetworkMode(K)>>
  OBVIOUS
<1>5. AfterWifiCheck = ops
  <2>1. assoc <=> "wifi" \in usable
    BY <1>1 DEF OnInv, OnWork, Idle
  <2>2. CASE assoc
    BY <1>3, <1>4, <2>1, <2>2 DEF AfterWifiCheck, FlagOp
  <2>3. CASE ~assoc
    <3>1. FlagOp(K) = <<"flag", FALSE>>
      BY <1>3, <2>1, <2>3 DEF FlagOp
    <3> QED
      BY <1>3, <1>4, <2>1, <2>3, <3>1 DEF AfterWifiCheck
  <2> QED
    BY <2>2, <2>3
<1>6. PICK S : S = Towards(K) \cup {<<"register">>, <<"checkWifi">>}
  OBVIOUS
<1>7. Replaces("main", ops, S)
  <2>1. work["main"] \in Seq(S)
    BY <1>2, <1>6 DEF OnInv, OnWork
  <2>2. FlagOp(K) \in S /\ ForceNetworkMode(K) \in S
    BY <1>6 DEF Towards
  <2>3. ops \in Seq(S)
    BY <1>4, <2>2
  <2> QED
    BY <1>1, <1>5, <2>1, <2>3 DEF Replaces
<1>8. In(FlagOp(K), ops) /\ In(ForceNetworkMode(K), ops)
  BY <1>4 DEF In
<1>9. /\ \A s : WillSet(s, K)'
      /\ WillFlag(K)'
  BY <1>7, <1>8, StillPending DEF Threads
<1>10. Moves(K)
  BY <1>1, <1>9 DEF Moves
<1>11. registered' \/ In(<<"register">>, work'["main"])
  <2>1. Head(work["main"]) # <<"register">> /\ "main" \in Threads
    BY <1>1, OpsDiffer DEF Threads
  <2>2. \A u \in Threads : \A x : In(x, work[u]) /\ x # Head(work["main"]) => In(x, work'[u])
    BY <1>7, <2>1, Kept
  <2> QED
    BY <1>1, <2>1, <2>2 DEF OnInv, OnWork
<1>12. /\ events' \in Seq(Events)
       /\ "wifi" \in usable /\ events' # << >> => events'[Len(events')] = Available("wifi")
       /\ "wifi" \notin usable =>
            \A k \in 1 .. Len(events') : events'[k].kind = "available" => events'[k].net = "cell"
  BY <1>1 DEF OnInv, OnWifi, OnDefault
<1> QED
  BY <1>1, <1>2, <1>6, <1>7, <1>10, <1>11, <1>12, OnMain

LEMMA OnRegister ==
  ASSUME BaseInv, OnInv, Register
  PROVE  BaseInv' /\ OnInv'
<1>1. /\ UNCHANGED <<proc, enabled, mode, hasContext, isWifiConnected, assoc,
                     usable, modem, sub, modems, serving>>
      /\ registered'
      /\ work["main"] # << >> /\ Head(work["main"])[1] = "register"
      /\ work' = [work EXCEPT !["main"] = << >> \o Tail(@)]
      /\ events' = IF Best(usable) = "none" THEN << >> ELSE <<Available(Best(usable))>>
  BY DEF Register, Doing, Idle, Continue, user, net, sims, obj
<1>2. PICK K \in Kinds : K = WantedKind
  BY KindIs
<1>3. PICK S : S = Towards(K) \cup {<<"register">>, <<"checkWifi">>}
  OBVIOUS
<1>4. work["main"] \in Seq(S)
  BY <1>2, <1>3 DEF OnInv, OnWork
<1>5. Replaces("main", << >>, S)
  BY <1>1, <1>4 DEF Replaces
<1>6. Moves(K)
  <2>1. /\ \A s : WillSet(s, K) => WillSet(s, K)'
        /\ WillFlag(K) => WillFlag(K)'
    <3>0. "main" \in Threads
      BY DEF Threads
    <3>1. ASSUME NEW s PROVE (WillSet(s, K) => WillSet(s, K)') /\ (WillFlag(K) => WillFlag(K)')
      <4>1. /\ Head(work["main"]) \notin {<<"checkWifi">>, ForceNetworkMode(K), SetOp(s, K),
                                         OtherOp(s, K), FlagOp(K)}
            /\ Head(work["main"]) # SetOp(3 - s, K)
        BY <1>1, OpsDiffer
      <4> QED
        BY <1>5, <3>0, <4>1, StillPending
    <3> QED
      BY <3>1
  <2> QED
    BY <1>1, <2>1 DEF Moves
<1>7. /\ events' \in Seq(Events)
      /\ "wifi" \in usable => events' # << >> /\ events'[Len(events')] = Available("wifi")
      /\ "wifi" \notin usable =>
            \A k \in 1 .. Len(events') : events'[k].kind = "available" => events'[k].net = "cell"
  <2>1. Available("wifi") \in Events /\ Available("cell") \in Events /\ Available("cell").net = "cell"
    BY DEF Available, Events
  <2>2. CASE "wifi" \in usable
    BY <1>1, <2>1, <2>2 DEF Best
  <2>3. CASE "wifi" \notin usable
    <3>1. events' = << >> \/ events' = <<Available("cell")>>
      BY <1>1, <2>3 DEF Best
    <3>2. CASE events' = << >>
      BY <2>3, <3>2
    <3>3. CASE events' = <<Available("cell")>>
      <4>1. events' \in Seq(Events) /\ Len(events') = 1 /\ events'[1] = Available("cell")
        BY <2>1, <3>3
      <4>2. \A k \in 1 .. Len(events') : events'[k].net = "cell"
        BY <2>1, <4>1
      <4> QED
        BY <2>3, <4>1, <4>2
    <3> QED
      BY <3>1, <3>2, <3>3
  <2> QED
    BY <2>2, <2>3
<1> QED
  BY <1>1, <1>2, <1>3, <1>5, <1>6, <1>7, OnMain

\* The ConnectivityThread takes the next callback, which is to be handled: a
\* process that dies of it leaves the modems as they are.
LEMMA OnCallback ==
  ASSUME BaseInv, OnInv, Callback, ~strayed'
  PROVE  BaseInv' /\ OnInv'
<1>1. /\ work["conn"] = << >> /\ events # << >> /\ events \in Seq(Events)
      /\ "conn" \in Threads /\ "main" \in Threads /\ DOMAIN work = Threads
      /\ UNCHANGED <<enabled, mode, assoc, usable, modem, sub, modems>>
  BY DEF Callback, OnInv, Idle, Threads, BaseInv, ProcessDies, user, net, sims
<1>2. /\ Head(events) = events[1] /\ Head(events) \in Events /\ Len(events) \in Nat /\ Len(events) >= 1
      /\ Tail(events) \in Seq(Events) /\ Len(Tail(events)) = Len(events) - 1
      /\ \A k \in 1 .. Len(Tail(events)) : Tail(events)[k] = events[k + 1]
  BY <1>1, HeadTailProperties
<1>3. PICK e : e = Head(events)
  OBVIOUS
<1>4. CASE proc' = "crashed" /\ ProcessDies
  BY <1>4 DEF ProcessDies, Overtakes, OnInv, On
<1>5. CASE /\ e.kind = "available" => e.up
           /\ events' = Tail(events)
           /\ work' = [work EXCEPT !["conn"] = IF e.kind = "available"
                                               THEN OnAvailable(e.net) ELSE OnLost(e)]
           /\ UNCHANGED <<proc, hasContext, isWifiConnected, registered, serving>>
  <2>1. PICK ops : ops = IF e.kind = "available" THEN OnAvailable(e.net) ELSE OnLost(e)
    OBVIOUS
  <2>2. /\ work'["conn"] = ops /\ work'["main"] = work["main"] /\ DOMAIN work' = Threads
    BY <1>1, <1>5, <2>1
  <2>3. BaseInv'
    BY <1>1, <1>5, <2>2 DEF BaseInv
  <2>4. WantedKind' = WantedKind /\ \A kind : Towards(kind)' = Towards(kind)
    BY <1>1 DEF WantedKind, Towards, SetOp, OtherOp, Both
  <2>5. ~("wifi" \in usable /\ ~assoc)
    BY <1>1 DEF OnInv, OnWork, Quiescent
  <2>6. OnWork'
    BY <1>1, <1>5, <2>2, <2>4, <2>5 DEF OnInv, OnWork, Idle
  <2>7. /\ <<ForceNetworkMode("default"), <<"flag", FALSE>> >> \in Seq(Towards("default"))
        /\ <<ForceNetworkMode("wifi"), <<"flag", TRUE>> >> \in Seq(Towards("wifi"))
    <3>1. FlagOp("default") = <<"flag", FALSE>> /\ FlagOp("wifi") = <<"flag", TRUE>>
      BY DEF FlagOp
    <3>2. /\ ForceNetworkMode("default") \in Towards("default")
          /\ <<"flag", FALSE>> \in Towards("default")
          /\ ForceNetworkMode("wifi") \in Towards("wifi") /\ <<"flag", TRUE>> \in Towards("wifi")
      BY <3>1 DEF Towards
    <3> QED
      BY <3>2
  <2>8. /\ ops \in Seq(Towards("wifi")) \/ ops \in Seq(Towards("default"))
        /\ e.kind # "available" \/ e.net # "wifi" => ops \in Seq(Towards("default"))
    <3>1. /\ ops \in {<< >>, <<ForceNetworkMode("default"), <<"flag", FALSE>> >>,
                      <<ForceNetworkMode("wifi"), <<"flag", TRUE>> >>}
          /\ e.kind # "available" \/ e.net # "wifi" =>
               ops \in {<< >>, <<ForceNetworkMode("default"), <<"flag", FALSE>> >>}
      BY <2>1 DEF OnAvailable, OnLost
    <3>2. << >> \in Seq(Towards("wifi")) /\ << >> \in Seq(Towards("default"))
      OBVIOUS
    <3> QED
      BY <2>7, <3>1, <3>2
  <2>9. ops \in Seq(Towards("wifi") \cup Towards("default"))
    BY <2>8
  <2>10. ASSUME NEW kind \in Kinds, NEW s,
                ops = <<ForceNetworkMode(kind), FlagOp(kind)>>
         PROVE  WillSet(s, kind)' /\ WillFlag(kind)'
    <3>1. In(ForceNetworkMode(kind), ops) /\ In(FlagOp(kind), ops)
      BY <2>10 DEF In
    <3> QED
      BY <1>1, <2>2, <3>1 DEF WillSet, WillFlag
  <2>11. CASE "wifi" \in usable
    <3>1. CASE Tail(events) = << >>
      <4>1. e = Available("wifi")
        <5>1. Len(Tail(events)) = 0
          BY <1>2, <3>1, EmptySeq
        <5>2. Len(events) \in Nat /\ Len(events) - 1 = 0
          BY <1>2, <5>1, Zenon
        <5>3. Len(events) = 1
          BY <5>2
        <5> QED
          BY <1>1, <1>2, <1>3, <2>11, <5>3 DEF OnInv, OnWifi
      <4>2. ops = <<ForceNetworkMode("wifi"), FlagOp("wifi")>>
        BY <2>1, <4>1 DEF Available, OnAvailable, FlagOp
      <4>3. ModemsFollow("wifi")' /\ FlagFollows("wifi")'
        BY <2>10, <4>2 DEF ModemsFollow, FlagFollows, Kinds
      <4>4. ops \in Seq(Towards("wifi"))
        <5>1. FlagOp("wifi") = <<"flag", TRUE>>
          BY DEF FlagOp
        <5> QED
          BY <2>7, <4>2, <5>1
      <4>5. OnWifi'
        BY <1>5, <2>2, <2>4, <3>1, <4>3, <4>4 DEF OnWifi
      <4> QED
        BY <1>1, <1>2, <1>5, <2>2, <2>3, <2>4, <2>6, <2>9, <2>11, <4>5 DEF OnInv, On, Alive
    <3>2. CASE Tail(events) # << >>
      <4>1. Len(Tail(events)) # 0
        BY <1>2, <3>2
      <4>2. Tail(events)[Len(Tail(events))] = events[Len(events)]
        <5>1. Len(Tail(events)) \in 1 .. Len(Tail(events)) /\ Len(Tail(events)) + 1 = Len(events)
          BY <1>2, <4>1
        <5> QED
          BY <1>2, <5>1
      <4>3. OnWifi'
        BY <1>1, <1>5, <2>11, <3>2, <4>2 DEF OnInv, OnWifi, Available
      <4> QED
        BY <1>1, <1>2, <1>5, <2>2, <2>3, <2>4, <2>6, <2>9, <2>11, <4>3 DEF OnInv, On, Alive
    <3> QED
      BY <3>1, <3>2
  <2>12. CASE "wifi" \notin usable
    <3>1. ops \in Seq(Towards("default"))
      BY <1>2, <1>3, <2>8, <2>12 DEF OnInv, OnDefault
    <3>2. \A k \in 1 .. Len(events') : events'[k].kind = "available" => events'[k].net = "cell"
      <4>1. \A k \in 1 .. Len(Tail(events)) : k + 1 \in 1 .. Len(events)
        BY <1>2
      <4> QED
        BY <1>2, <1>5, <2>12, <4>1 DEF OnInv, OnDefault
    <3>3. ModemsFollow("default")' /\ FlagFollows("default")'
      <4>1. CASE NewsOfLoss
        <5>1. ops = <<ForceNetworkMode("default"), FlagOp("default")>>
          <6>1. e.kind = "available" => e.net # "wifi"
            BY <1>2, <1>3, <2>12 DEF OnInv, OnDefault
          <6>2. FlagOp("default") = <<"flag", FALSE>>
            BY DEF FlagOp
          <6> QED
            BY <2>1, <4>1, <6>1, <6>2 DEF OnAvailable, OnLost, NewsOfLoss
        <5> QED
          BY <2>10, <5>1 DEF ModemsFollow, FlagFollows, Kinds
      <4>2. CASE ~NewsOfLoss
        <5>1. ModemsFollow("default") /\ FlagFollows("default")
          BY <2>12, <4>2 DEF OnInv, OnDefault
        <5>2. \A x : ~In(x, work["conn"])
          BY <1>1 DEF In
        <5>3. /\ \A s : WillSet(s, "default") => WillSet(s, "default")'
              /\ WillFlag("default") => WillFlag("default")'
          BY <1>1, <2>2, <5>2 DEF WillSet, WillFlag, SetOp, OtherOp, Both, Threads
        <5>4. Served' = Served
          BY <1>1 DEF Served
        <5> QED
          BY <1>1, <1>5, <5>1, <5>3, <5>4 DEF ModemsFollow, FlagFollows
      <4> QED
        BY <4>1, <4>2
    <3>4. OnDefault'
      BY <2>2, <2>4, <3>1, <3>2, <3>3 DEF OnDefault
    <3> QED
      BY <1>1, <1>2, <1>5, <2>2, <2>3, <2>4, <2>6, <2>9, <2>12, <3>4 DEF OnInv, On, Alive
  <2> QED
    BY <2>11, <2>12
<1> QED
  BY <1>3, <1>4, <1>5 DEF Callback, obj

-----------------------------------------------------------------------------
(* Wi-Fi and the networks, with the service on.                              *)

LEMMA NothingIn == \A x : ~In(x, << >>)
BY DEF In

LEMMA IdleOnWork ==
  ASSUME work'["main"] = << >>, registered', "wifi" \in usable' /\ ~assoc' => Quiescent'
  PROVE  OnWork'
<1>1. work'["main"] \in Seq(Towards(WantedKind)' \cup {<<"register">>, <<"checkWifi">>})
  BY EmptySeq
<1> QED
  BY <1>1 DEF OnWork, Idle

LEMMA OnWifiAssociation ==
  ASSUME BaseInv, OnInv, WifiAssociation, ~strayed'
  PROVE  BaseInv' /\ OnInv'
<1>1. /\ work["main"] = << >> /\ work["conn"] = << >> /\ events = << >>
      /\ UNCHANGED <<proc, enabled, mode, hasContext, isWifiConnected, registered, work, events,
                     usable, modem, sub, modems, serving>>
      /\ assoc' = ~assoc
  BY DEF WifiAssociation, Overtakes, Quiescent, Idle, user, obj, sims
<1>2. BaseInv'
  BY <1>1 DEF BaseInv
<1>3. /\ WantedKind' = WantedKind /\ (\A kind : Towards(kind)' = Towards(kind)) /\ Served' = Served
      /\ \A s, kind : WillSet(s, kind)' <=> WillSet(s, kind)
      /\ \A kind : WillFlag(kind)' <=> WillFlag(kind)
  BY <1>1 DEF WantedKind, Towards, SetOp, OtherOp, Both, Served, WillSet, WillFlag
<1>4. OnWork'
  BY <1>1, <1>3 DEF OnInv, OnWork, Idle, Quiescent
<1>5. CASE "wifi" \in usable
  <2>1. OnWifi'
    BY <1>1, <1>3, <1>5 DEF OnInv, OnWifi, ModemsFollow, FlagFollows
  <2> QED
    BY <1>1, <1>2, <1>3, <1>4, <1>5, <2>1 DEF OnInv, On, Alive
<1>6. CASE "wifi" \notin usable
  <2>1. OnDefault'
    BY <1>1, <1>3, <1>6 DEF OnInv, OnDefault, ModemsFollow, FlagFollows, NewsOfLoss
  <2> QED
    BY <1>1, <1>2, <1>3, <1>4, <1>6, <2>1 DEF OnInv, On, Alive
<1> QED
  BY <1>5, <1>6

\* With the main thread idle, a network comes up.
LEMMA OnNetworkUp ==
  ASSUME BaseInv, OnInv, NEW n \in {"wifi", "cell"}, NetworkUp(n), ~strayed'
  PROVE  BaseInv' /\ OnInv'
<1>1. /\ work["main"] = << >> /\ events \in Seq(Events)
      /\ UNCHANGED <<proc, enabled, mode, hasContext, isWifiConnected, registered, work,
                     assoc, modem, sub, modems, serving>>
      /\ n \notin usable /\ (n = "wifi" => assoc) /\ usable' = usable \cup {n}
  BY DEF NetworkUp, Overtakes, Idle, user, obj, sims, OnInv
<1>2. registered
  BY <1>1, NothingIn DEF OnInv, OnWork
<1>3. events' = events \o (IF Best(usable') = n THEN <<Available(n)>> ELSE << >>)
  BY <1>2 DEF NetworkUp, Post
<1>4. BaseInv'
  BY <1>1 DEF BaseInv
<1>5. /\ (\A kind : Towards(kind)' = Towards(kind)) /\ Served' = Served
      /\ \A s, kind : WillSet(s, kind)' <=> WillSet(s, kind)
      /\ \A kind : WillFlag(kind)' <=> WillFlag(kind)
  BY <1>1 DEF Towards, SetOp, OtherOp, Both, Served, WillSet, WillFlag
<1>6. Available(n) \in Events
  BY DEF Available, Events
<1>7. CASE Best(usable') = n
  <2>1. "wifi" \notin usable /\ events' = Append(events, Available(n))
    BY <1>1, <1>3, <1>7 DEF Best
  <2>2. /\ events' \in Seq(Events) /\ Len(events') = Len(events) + 1 /\ Len(events) \in Nat
        /\ events'[Len(events')] = Available(n) /\ events' # << >>
        /\ \A k \in 1 .. Len(events) : events'[k] = events[k]
    BY <1>1, <1>6, <2>1, AppendProperties
  <2>3. CASE n = "wifi"
    <3>1. OnWifi'
      BY <2>2, <2>3 DEF OnWifi, Available
    <3>2. OnWork'
      BY <1>1, <1>2, <2>3, IdleOnWork
    <3> QED
      BY <1>1, <1>4, <1>5, <2>2, <2>3, <3>1, <3>2 DEF OnInv, On, Alive
  <2>4. CASE n = "cell"
    <3>1. "wifi" \notin usable'
      BY <1>1, <2>1, <2>4
    <3>2. \A k \in 1 .. Len(events') : events'[k].kind = "available" => events'[k].net = "cell"
      <4>1. Available(n).net = "cell"
        BY <2>4 DEF Available
      <4>2. \A k \in 1 .. Len(events') : k \in 1 .. Len(events) \/ k = Len(events')
        BY <2>2
      <4> QED
        BY <2>1, <2>2, <4>1, <4>2 DEF OnInv, OnDefault
    <3>3. OnDefault'
      BY <1>1, <1>5, <2>1, <2>2, <3>2 DEF OnInv, OnDefault, ModemsFollow, FlagFollows, NewsOfLoss, Idle
    <3>4. OnWork'
      BY <1>1, <1>2, <3>1, IdleOnWork
    <3> QED
      BY <1>1, <1>4, <1>5, <2>2, <3>1, <3>3, <3>4 DEF OnInv, On, Alive
  <2> QED
    BY <2>3, <2>4
<1>8. CASE Best(usable') # n
  <2>1. n = "cell" /\ "wifi" \in usable /\ "wifi" \in usable'
    BY <1>1, <1>8 DEF Best, BaseInv
  <2>2. events' = events
    BY <1>1, <1>3, <1>8
  <2>3. OnWifi'
    BY <1>1, <1>5, <2>1, <2>2 DEF OnInv, OnWifi, ModemsFollow, FlagFollows, Available
  <2>4. OnWork'
    <3>1. "wifi" \in usable' /\ ~assoc' => Quiescent'
      BY <1>1, <2>1, <2>2 DEF OnInv, OnWork, Idle, Quiescent
    <3> QED
      BY <1>1, <1>2, <3>1, IdleOnWork
  <2> QED
    BY <1>1, <1>4, <1>5, <2>1, <2>2, <2>3, <2>4 DEF OnInv, On, Alive
<1> QED
  BY <1>7, <1>8

\* The announcements on their way when network n goes away.
Posted(n, up) == [i \in DOMAIN events |->
                    IF events[i].net = n THEN [events[i] EXCEPT !.up = @ /\ up] ELSE events[i]]

LEMMA PostedIs ==
  ASSUME events \in Seq(Events), NEW n, NEW up \in BOOLEAN
  PROVE  /\ Posted(n, up) \in Seq(Events) /\ Len(Posted(n, up)) = Len(events)
         /\ \A k \in 1 .. Len(events) :
              /\ Posted(n, up)[k].kind = events[k].kind /\ Posted(n, up)[k].net = events[k].net
              /\ events[k].net # n => Posted(n, up)[k] = events[k]
         /\ events = << >> => Posted(n, up) = << >>
<1>1. Len(events) \in Nat /\ DOMAIN events = 1 .. Len(events)
      /\ \A k \in 1 .. Len(events) : events[k] \in Events
  OBVIOUS
<1>2. ASSUME NEW k \in 1 .. Len(events)
      PROVE  /\ Posted(n, up)[k] \in Events
             /\ Posted(n, up)[k].kind = events[k].kind /\ Posted(n, up)[k].net = events[k].net
             /\ events[k].net # n => Posted(n, up)[k] = events[k]
  <2>1. PICK e \in Events : e = events[k]
    BY <1>1
  <2>2. Posted(n, up)[k] = IF e.net = n THEN [e EXCEPT !.up = @ /\ up] ELSE e
    BY <1>1, <2>1 DEF Posted
  <2>3. PICK b \in BOOLEAN : b = (e.up /\ up)
    OBVIOUS
  <2>4. [e EXCEPT !.up = @ /\ up] = [e EXCEPT !.up = b]
    BY <2>3
  <2>5. [e EXCEPT !.up = b] \in Events /\ [e EXCEPT !.up = b].kind = e.kind
        /\ [e EXCEPT !.up = b].net = e.net
    BY <2>1 DEF Events
  <2> QED
    BY <2>1, <2>2, <2>4, <2>5
<1>3. Posted(n, up) \in [1 .. Len(events) -> Events]
  <2>1. DOMAIN Posted(n, up) = 1 .. Len(events) /\ Posted(n, up) = [k \in 1 .. Len(events) |-> Posted(n, up)[k]]
    BY <1>1, Zenon DEF Posted
  <2> QED
    BY <1>2, <2>1
<1>4. Posted(n, up) \in Seq(Events) /\ Len(Posted(n, up)) = Len(events)
  BY <1>1, <1>3
<1>5. events = << >> => Posted(n, up) = << >>
  <2>1. events = << >> => Len(Posted(n, up)) = 0
    BY <1>4, EmptySeq
  <2> QED
    BY <1>4, <2>1, EmptySeq
<1> QED
  BY <1>2, <1>4, <1>5

\* With the main thread idle, a network goes away.
LEMMA OnNetworkDown ==
  ASSUME BaseInv, OnInv, NEW n \in {"wifi", "cell"}, NEW up \in BOOLEAN, NetworkDown(n, up),
         ~strayed'
  PROVE  BaseInv' /\ OnInv'
<1>1. /\ work["main"] = << >> /\ events \in Seq(Events)
      /\ UNCHANGED <<proc, enabled, mode, hasContext, isWifiConnected, registered, work,
                     assoc, modem, sub, modems, serving>>
      /\ n \in usable /\ (n = "wifi" => ~assoc) /\ usable' = usable \ {n}
  BY DEF NetworkDown, Overtakes, Idle, user, obj, sims, OnInv
<1>2. registered
  BY <1>1, NothingIn DEF OnInv, OnWork
<1>3. PICK posted : posted = Posted(n, up)
  OBVIOUS
<1>4. PICK lost : lost = [kind |-> "lost", net |-> n, up |-> up]
  OBVIOUS
<1>5. events' = IF Best(usable) # n THEN posted
                ELSE IF Best(usable \ {n}) = "none" THEN posted \o <<lost>>
                ELSE posted \o <<lost>> \o <<Available(Best(usable \ {n}))>>
  BY <1>2, <1>3, <1>4 DEF NetworkDown, Posted
<1>6. BaseInv'
  BY <1>1 DEF BaseInv
<1>7. /\ (\A kind : Towards(kind)' = Towards(kind)) /\ Served' = Served
      /\ \A s, kind : WillSet(s, kind)' <=> WillSet(s, kind)
      /\ \A kind : WillFlag(kind)' <=> WillFlag(kind)
  BY <1>1 DEF Towards, SetOp, OtherOp, Both, Served, WillSet, WillFlag
<1>8. lost \in Events /\ lost.kind = "lost" /\ Available("cell") \in Events /\ Available("cell").net = "cell"
  BY <1>4 DEF Events, Available
<1>9. /\ posted \in Seq(Events) /\ Len(posted) = Len(events)
      /\ \A k \in 1 .. Len(events) :
           /\ posted[k].kind = events[k].kind /\ posted[k].net = events[k].net
           /\ events[k].net # n => posted[k] = events[k]
      /\ events = << >> => posted = << >>
  BY <1>1, <1>3, PostedIs
<1>10. CASE n = "wifi"
  <2>1. "wifi" \notin usable' /\ "wifi" \in usable
    BY <1>1, <1>10
  <2>2. Quiescent /\ work["conn"] = << >> /\ events = << >> /\ posted = << >>
    BY <1>1, <1>9, <1>10 DEF OnInv, OnWork, Quiescent, Idle
  <2>3. isWifiConnected
    BY <1>1, <2>1, <2>2, NothingIn DEF OnInv, OnWifi, FlagFollows, WillFlag, Threads
  <2>4. events' = <<lost>> \/ events' = <<lost>> \o <<Available("cell")>>
    <3>1. Best(usable) = n /\ (Best(usable \ {n}) = "none" \/ Best(usable \ {n}) = "cell")
      BY <1>10, <2>1 DEF Best
    <3>2. << >> \o <<lost>> = <<lost>>
      OBVIOUS
    <3>3. CASE Best(usable \ {n}) = "none"
      BY <1>5, <2>2, <3>1, <3>2, <3>3
    <3>4. CASE Best(usable \ {n}) = "cell"
      BY <1>5, <2>2, <3>1, <3>2, <3>4
    <3> QED
      BY <3>1, <3>3, <3>4
  <2>5. /\ events' \in Seq(Events) /\ events' # << >>
        /\ \A k \in 1 .. Len(events') : events'[k].kind = "available" => events'[k].net = "cell"
    <3>1. PICK c \in Events : c = Available("cell") /\ c.net = "cell"
      BY <1>8
    <3>2. CASE events' = <<lost>>
      BY <1>8, <3>2
    <3>3. CASE events' = <<lost>> \o <<c>>
      <4>1. /\ events' \in Seq(Events) /\ Len(events') = 2
            /\ events'[1] = lost /\ events'[2] = c
        <5>1. <<lost>> \in Seq(Events) /\ <<c>> \in Seq(Events) /\ Len(<<lost>>) = 1 /\ Len(<<c>>) = 1
          BY <1>8, <3>1
        <5> QED
          BY <3>3, <5>1, ConcatProperties
      <4>2. \A k \in 1 .. Len(events') : k = 1 \/ k = 2
        BY <4>1
      <4>3. events' # << >>
        BY <4>1, EmptySeq
      <4> QED
        BY <1>8, <3>1, <4>1, <4>2, <4>3
    <3> QED
      BY <2>4, <3>1, <3>2, <3>3
  <2>6. OnDefault'
    <3>1. work'["conn"] \in Seq(Towards("default"))
      BY <1>1, <2>2, EmptySeq
    <3>2. NewsOfLoss'
      BY <1>1, <1>10, <2>2, <2>3, <2>5 DEF NewsOfLoss, Idle
    <3> QED
      BY <1>7, <2>5, <3>1, <3>2 DEF OnDefault
  <2>7. OnWork'
    BY <1>1, <1>2, <2>1, IdleOnWork
  <2> QED
    BY <1>1, <1>6, <1>7, <2>1, <2>5, <2>6, <2>7 DEF OnInv, On, Alive
<1>11. CASE n = "cell" /\ "wifi" \in usable
  <2>1. "wifi" \in usable' /\ events' = posted
    BY <1>1, <1>5, <1>11 DEF Best
  <2>2. events' # << >> => events # << >>
    BY <1>9, <2>1
  <2>3. events' = << >> => events = << >>
    BY <1>1, <1>9, <2>1, EmptySeq
  <2>4. events' # << >> => events'[Len(events')] = Available("wifi")
    <3> SUFFICES ASSUME events' # << >> PROVE events'[Len(events')] = Available("wifi")
      OBVIOUS
    <3>1. events[Len(events)] = Available("wifi") /\ Len(events) \in 1 .. Len(events)
      <4>1. events # << >>
        BY <2>2
      <4>2. Len(events) \in Nat \ {0}
        BY <1>1, <4>1, EmptySeq
      <4> QED
        BY <1>11, <4>1, <4>2 DEF OnInv, OnWifi
    <3>2. events[Len(events)].net # n
      BY <1>11, <3>1 DEF Available
    <3> QED
      BY <1>9, <2>1, <3>1, <3>2
  <2>5. OnWifi'
    BY <1>1, <1>7, <1>11, <2>3, <2>4 DEF OnInv, OnWifi, ModemsFollow, FlagFollows, Available
  <2>6. OnWork'
    <3>1. "wifi" \in usable' /\ ~assoc' => Quiescent'
      BY <1>1, <1>9, <1>11, <2>1 DEF OnInv, OnWork, Idle, Quiescent
    <3> QED
      BY <1>1, <1>2, <3>1, IdleOnWork
  <2> QED
    BY <1>1, <1>6, <1>7, <1>9, <2>1, <2>5, <2>6 DEF OnInv, On, Alive
<1>12. CASE n = "cell" /\ "wifi" \notin usable
  <2>1. "wifi" \notin usable' /\ events' = Append(posted, lost)
    <3>1. Best(usable) = n /\ Best(usable \ {n}) = "none"
      BY <1>1, <1>12 DEF Best
    <3> QED
      BY <1>1, <1>5, <1>9, <1>12, <3>1
  <2>2. /\ events' \in Seq(Events) /\ Len(events') = Len(events) + 1 /\ Len(events) \in Nat
        /\ events'[Len(events')] = lost /\ events' # << >>
        /\ \A k \in 1 .. Len(events) : events'[k] = posted[k]
    BY <1>1, <1>8, <1>9, <2>1, AppendProperties
  <2>3. \A k \in 1 .. Len(events') : events'[k].kind = "available" => events'[k].net = "cell"
    <3>1. \A k \in 1 .. Len(events') : k \in 1 .. Len(events) \/ k = Len(events')
      BY <2>2
    <3> QED
      BY <1>8, <1>9, <1>12, <2>2, <3>1 DEF OnInv, OnDefault
  <2>4. OnDefault'
    BY <1>1, <1>7, <1>12, <2>2, <2>3
       DEF OnInv, OnDefault, ModemsFollow, FlagFollows, NewsOfLoss, Idle
  <2>5. OnWork'
    BY <1>1, <1>2, <2>1, IdleOnWork
  <2> QED
    BY <1>1, <1>6, <1>7, <2>1, <2>2, <2>4, <2>5 DEF OnInv, On, Alive
<1> QED
  BY <1>10, <1>11, <1>12

-----------------------------------------------------------------------------
(* Calm states, and where the handlers of the main thread begin.             *)

LEMMA OffIdle ==
  ASSUME OffInv, work["main"] = << >>
  PROVE  ~registered /\ \A s \in Served : Defaulted(s)
<1>1. \A x : ~In(x, work["main"]) /\ ~In(x, work["conn"])
  BY NothingIn DEF OffInv, Idle
<1> QED
  BY <1>1 DEF OffInv, OffModems, WillSet, Threads

LEMMA OnCalm ==
  ASSUME OnInv, ~InFlight
  PROVE  /\ registered
         /\ \A s \in Served : modem[s] = <<WantedKind, mode[WantedKind]>>
         /\ isWifiConnected = (WantedKind = "wifi")
<1>1. work["main"] = << >> /\ work["conn"] = << >> /\ events = << >>
  BY DEF InFlight, Idle
<1>2. \A x : ~In(x, work["main"]) /\ ~In(x, work["conn"])
  BY <1>1, NothingIn
<1>3. (\A s, kind : ~WillSet(s, kind)) /\ (\A kind : ~WillFlag(kind)) /\ ~NewsOfLoss
  BY <1>1, <1>2 DEF WillSet, WillFlag, NewsOfLoss, Threads
<1>4. registered
  BY <1>2 DEF OnInv, OnWork
<1>5. CASE "wifi" \in usable
  BY <1>1, <1>3, <1>4, <1>5, KindIs DEF OnInv, OnWifi, ModemsFollow, FlagFollows
<1>6. CASE "wifi" \notin usable
  BY <1>1, <1>3, <1>4, <1>6, KindIs DEF OnInv, OnDefault, ModemsFollow, FlagFollows
<1> QED
  BY <1>5, <1>6

\* onStartup and forceNetworkSettingsUpdate.
LEMMA StartsOn ==
  ASSUME On', events' = << >>, work'["conn"] = << >>,
         NEW ops \in {Startup, << <<"checkWifi">> >>}, work'["main"] = ops,
         registered' \/ ops = Startup, assoc' = ("wifi" \in usable')
  PROVE  OnInv'
<1>1. /\ In(<<"checkWifi">>, ops) /\ (ops = Startup => In(<<"register">>, ops))
      /\ \A S : <<"register">> \in S /\ <<"checkWifi">> \in S => ops \in Seq(S)
  <2>1. CASE ops = Startup
    BY <2>1 DEF Startup, In
  <2>2. CASE ops = << <<"checkWifi">> >>
    <3>1. ops # Startup
      <4>1. ops[1] = <<"checkWifi">> /\ Startup[1] = <<"register">>
        BY <2>2 DEF Startup
      <4> QED
        BY <4>1
    <3> QED
      BY <2>2, <3>1 DEF In
  <2> QED
    BY <2>1, <2>2
<1>2. /\ work'["conn"] \in Seq((Towards("wifi") \cup Towards("default"))')
      /\ work'["conn"] \in Seq(Towards("wifi")') /\ work'["conn"] \in Seq(Towards("default")')
      /\ events' \in Seq(Events')
  BY EmptySeq
<1>3. OnWork'
  <2>1. work'["main"] \in Seq(Towards(WantedKind)' \cup {<<"register">>, <<"checkWifi">>})
    BY <1>1
  <2> QED
    BY <1>1, <2>1 DEF OnWork
<1>4. (\A s, kind : WillSet(s, kind)') /\ (\A kind : WillFlag(kind)')
  BY <1>1 DEF WillSet, WillFlag
<1>5. Len(events') = 0
  BY EmptySeq
<1>6. OnWifi' /\ OnDefault'
  BY <1>2, <1>4, <1>5 DEF OnWifi, OnDefault, ModemsFollow, FlagFollows
<1> QED
  BY <1>2, <1>3, <1>6 DEF OnInv

\* onClose of a service that has been on.
LEMMA StartsOff ==
  ASSUME Off', events' = << >>, work'["conn"] = << >>, hasContext,
         work'["main"] = Closing, assoc' = ("wifi" \in usable')
  PROVE  OffInv'
<1>1. PICK ops : ops = <<ForceNetworkMode("default"), <<"unregister">> >>
  OBVIOUS
<1>2. work'["main"] = ops
  BY <1>1 DEF Closing
<1>3. /\ In(ForceNetworkMode("default"), ops) /\ In(<<"unregister">>, ops)
      /\ \A S : ForceNetworkMode("default") \in S /\ <<"unregister">> \in S => ops \in Seq(S)
  BY <1>1 DEF In
<1>4. work'["main"] \in Seq((Towards("default") \cup {<<"unregister">>})')
  BY <1>2, <1>3 DEF Towards
<1>5. OffModems'
  BY <1>2, <1>3 DEF OffModems, WillSet, Threads
<1> QED
  BY <1>2, <1>3, <1>4, <1>5 DEF OffInv, Idle

LEMMA IdleOff ==
  ASSUME Off', events' = << >>, work'["conn"] = << >>, work'["main"] = << >>, ~registered',
         \A s \in Served' : Defaulted(s)'
  PROVE  OffInv'
<1>1. work'["main"] \in Seq((Towards("default") \cup {<<"unregister">>})')
  BY EmptySeq
<1> QED
  BY <1>1 DEF OffInv, OffModems, Idle

-----------------------------------------------------------------------------
(* The handlers of the main thread, and what restores order after something  *)
(* went astray.                                                              *)

\* Startup and Closing do something.
LEMMA Programs ==
  /\ Startup # << >> /\ (hasContext => Closing # << >>) /\ (~hasContext => Closing = << >>)
<1>1. Len(Startup) = 2 /\ Len(<< >>) = 0
  BY DEF Startup
<1>2. hasContext => Len(Closing) = 2
  BY DEF Closing
<1> QED
  BY <1>1, <1>2 DEF Closing

LEMMA Calm ==
  ASSUME ~InFlight
  PROVE  /\ work["main"] = << >> /\ work["conn"] = << >> /\ events = << >>
         /\ assoc = ("wifi" \in usable)
BY DEF InFlight, Idle

LEMMA ServiceConnectedInv ==
  ASSUME BaseInv, LifeInv, strayed \/ StateInv, ServiceConnected, ~strayed'
  PROVE  StateInv'
<1>1. /\ UNCHANGED <<enabled, mode, isWifiConnected, registered, events, assoc, usable, modem, sub, modems>>
      /\ proc = "starting" /\ proc' = "connected" /\ hasContext' = enabled /\ serving' = enabled
      /\ work' = [work EXCEPT !["main"] = IF enabled THEN Startup ELSE << >>]
      /\ strayed' = IF (IF enabled THEN Startup ELSE << >>) = << >> THEN strayed ELSE InFlight
  BY DEF ServiceConnected, Begins, user, net, sims
<1>2. work["main"] = << >> /\ work["conn"] = << >> /\ events = << >> /\ ~registered
  BY <1>1 DEF LifeInv, Alive, Threads
<1>3. /\ work'["main"] = (IF enabled THEN Startup ELSE << >>) /\ work'["conn"] = << >>
  BY <1>1, <1>2 DEF BaseInv, Threads
<1>4. CASE enabled
  <2>1. On' /\ Startup \in {Startup, << <<"checkWifi">> >>}
    BY <1>1, <1>4 DEF On, Alive
  <2>2. assoc' = ("wifi" \in usable')
    BY <1>1, <1>4, Programs, Calm
  <2> QED
    BY <1>1, <1>2, <1>3, <1>4, <2>1, <2>2, StartsOn DEF StateInv
<1>5. CASE ~enabled
  <2>1. DeadInv
    BY <1>1, <1>5 DEF StateInv, OffInv, OnInv, On, Off, Alive
  <2>2. Off' /\ \A s \in Served' : Defaulted(s)'
    BY <1>1, <1>5, <2>1 DEF Off, Alive, DeadInv, Served, Defaulted
  <2> QED
    BY <1>1, <1>2, <1>3, <1>5, <2>2, IdleOff DEF StateInv
<1> QED
  BY <1>4, <1>5

LEMMA DynamicModemChangedInv ==
  ASSUME BaseInv, LifeInv, DynamicModemChanged, ~strayed'
  PROVE  StateInv'
<1>1. /\ UNCHANGED <<proc, mode, isWifiConnected, registered, events, assoc, usable, modem, sub, modems>>
      /\ Alive /\ enabled' = ~enabled /\ serving' = ~enabled
      /\ work' = [work EXCEPT !["main"] = IF enabled THEN Closing ELSE Startup]
      /\ strayed' = IF (IF enabled THEN Closing ELSE Startup) = << >> THEN strayed ELSE InFlight
  BY DEF DynamicModemChanged, Begins, net, sims
<1>2. enabled => hasContext
  BY <1>1 DEF LifeInv
<1>3. ~InFlight
  BY <1>1, <1>2, Programs
<1>4. /\ work["main"] = << >> /\ work["conn"] = << >> /\ events = << >>
      /\ assoc = ("wifi" \in usable)
  BY <1>3, Calm
<1>5. work'["main"] = (IF enabled THEN Closing ELSE Startup) /\ work'["conn"] = << >>
  BY <1>1, <1>4 DEF BaseInv, Threads
<1>6. CASE enabled
  <2>1. Off'
    BY <1>1, <1>6 DEF Off, Alive
  <2> QED
    BY <1>1, <1>2, <1>4, <1>5, <1>6, <2>1, StartsOff DEF StateInv
<1>7. CASE ~enabled
  <2>1. On' /\ Startup \in {Startup, << <<"checkWifi">> >>}
    BY <1>1, <1>7 DEF On, Alive
  <2> QED
    BY <1>1, <1>4, <1>5, <1>7, <2>1, StartsOn DEF StateInv
<1> QED
  BY <1>6, <1>7

LEMMA NetworkModeChangedInv ==
  ASSUME BaseInv, LifeInv, NEW kind \in Kinds, NEW m \in Modes, NetworkModeChanged(kind, m), ~strayed'
  PROVE  StateInv'
<1>1. /\ UNCHANGED <<proc, enabled, registered, events, assoc, usable, serving>>
      /\ Alive /\ serving /\ ~InFlight
      /\ work' = [work EXCEPT !["main"] = << <<"checkWifi">> >>]
  BY DEF NetworkModeChanged, obj, net
<1>2. /\ work["main"] = << >> /\ work["conn"] = << >> /\ events = << >>
      /\ assoc = ("wifi" \in usable)
  BY <1>1, Calm
<1>3. registered
  BY <1>1, <1>2, NothingIn DEF LifeInv
<1>4. work'["main"] = << <<"checkWifi">> >> /\ work'["conn"] = << >>
  BY <1>1, <1>2 DEF BaseInv, Threads
<1>5. On' /\ << <<"checkWifi">> >> \in {Startup, << <<"checkWifi">> >>}
  BY <1>1 DEF On, Alive
<1> QED
  BY <1>1, <1>2, <1>3, <1>4, <1>5, StartsOn DEF StateInv

LEMMA OnDestroyInv ==
  ASSUME BaseInv, LifeInv, strayed \/ StateInv, OnDestroy, ~strayed'
  PROVE  StateInv'
<1>1. /\ UNCHANGED <<enabled, mode, hasContext, isWifiConnected, registered, events, assoc, usable,
                     modem, sub, modems>>
      /\ proc = "connected" /\ proc' = "destroyed" /\ serving' = FALSE /\ work["main"] = << >>
      /\ work' = [work EXCEPT !["main"] = Closing]
      /\ strayed' = IF Closing = << >> THEN strayed ELSE InFlight
  BY DEF OnDestroy, Begins, Idle, user, obj, net, sims
<1>2. work'["main"] = Closing /\ work'["conn"] = work["conn"] /\ Off'
  BY <1>1 DEF BaseInv, Threads, Off, Alive
<1>3. CASE hasContext
  <2>1. ~InFlight
    BY <1>1, <1>3, Programs
  <2>2. work["conn"] = << >> /\ events = << >> /\ assoc = ("wifi" \in usable)
    BY <2>1, Calm
  <2> QED
    BY <1>1, <1>2, <1>3, <2>2, StartsOff DEF StateInv
<1>4. CASE ~hasContext
  <2>1. OffInv
    BY <1>1, <1>4, Programs DEF StateInv, DeadInv, OnInv, On, LifeInv
  <2>2. ~registered /\ \A s \in Served : Defaulted(s)
    BY <1>1, <2>1, OffIdle
  <2>3. /\ work'["main"] = << >> /\ work'["conn"] = << >> /\ events' = << >>
        /\ ~registered' /\ \A s \in Served' : Defaulted(s)'
    BY <1>1, <1>2, <1>4, <2>1, <2>2, Programs DEF OffInv, Idle, Served, Defaulted
  <2> QED
    BY <1>2, <2>3, IdleOff DEF StateInv
<1> QED
  BY <1>3, <1>4

LEMMA RestartInv ==
  ASSUME BaseInv, StateInv, Restart, ~strayed'
  PROVE  StateInv'
<1>1. /\ UNCHANGED <<mode, modem, sub, modems>>
      /\ proc' = "starting" /\ ~registered'
      /\ work' = [t \in Threads |-> << >>] /\ events' = << >>
      /\ Alive => Quiescent /\ ~serving
  BY DEF Restart, Overtakes, ProcessDies, user, sims
<1>2. \A s \in Served : Defaulted(s)
  <2>1. CASE DeadInv
    BY <2>1 DEF DeadInv
  <2>2. CASE OffInv
    <3>1. work["main"] = << >>
      BY <1>1, <2>2 DEF Quiescent, Idle, OffInv, Off
    <3> QED
      BY <2>2, <3>1, OffIdle
  <2>3. CASE OnInv
    BY <1>1, <2>3 DEF OnInv, On
  <2> QED
    BY <2>1, <2>2, <2>3 DEF StateInv
<1>3. DeadInv'
  BY <1>1, <1>2 DEF DeadInv, Served, Defaulted
<1> QED
  BY <1>3 DEF StateInv

LEMMA DynamicModemUnseenInv ==
  ASSUME StateInv, DynamicModemUnseen
  PROVE  StateInv'
<1>1. UNCHANGED <<proc, mode, registered, work, events, modem, sub, modems>> /\ ~Alive
  BY DEF DynamicModemUnseen, obj, sims
<1>2. DeadInv
  BY <1>1 DEF StateInv, OffInv, OnInv, On, Off
<1>3. DeadInv'
  BY <1>1, <1>2 DEF DeadInv, Served, Defaulted
<1> QED
  BY <1>3 DEF StateInv

\* The last announcement sets everything, whatever was wrong before.
LEMMA CallbackRestores ==
  ASSUME BaseInv, LifeInv, Callback, strayed, ~strayed'
  PROVE  OnInv'
<1>1. PICK e : e = Head(events)
  OBVIOUS
<1>2. UpToDate(e) /\ Alive
  BY <1>1 DEF Callback, ProcessDies, Overtakes
<1>3. /\ events' = << >> /\ work["main"] = << >> /\ serving
      /\ work' = [work EXCEPT !["conn"] = OnAvailable(e.net)]
      /\ UNCHANGED <<proc, registered, serving, assoc, usable>>
      /\ assoc = ("wifi" \in usable) /\ (e.net = "wifi") = ("wifi" \in usable)
  BY <1>1, <1>2 DEF Callback, ProcessDies, Overtakes, UpToDate, Idle, obj, net
<1>4. registered /\ "conn" \in Threads /\ "main" \in Threads
  BY <1>3, NothingIn DEF LifeInv, Threads
<1>5. PICK K \in Kinds : K = WantedKind
  BY KindIs
<1>6. ("wifi" \in usable => K = "wifi") /\ ("wifi" \notin usable => K = "default") /\ WantedKind' = K
  BY <1>3, <1>5, KindIs DEF WantedKind
<1>7. PICK ops : ops = <<ForceNetworkMode(K), FlagOp(K)>>
  OBVIOUS
<1>8. work'["conn"] = ops /\ work'["main"] = << >>
  <2>1. OnAvailable(e.net) = ops
    <3>1. CASE "wifi" \in usable
      BY <1>3, <1>6, <1>7, <3>1 DEF OnAvailable, FlagOp
    <3>2. CASE "wifi" \notin usable
      <4>1. FlagOp(K) = <<"flag", FALSE>>
        BY <1>6, <3>2 DEF FlagOp
      <4> QED
        BY <1>3, <1>6, <1>7, <3>2, <4>1 DEF OnAvailable
    <3> QED
      BY <3>1, <3>2
  <2> QED
    BY <1>3, <1>4, <2>1 DEF BaseInv
<1>9. In(ForceNetworkMode(K), ops) /\ In(FlagOp(K), ops)
  BY <1>7 DEF In
<1>10. (\A s : WillSet(s, K)') /\ WillFlag(K)'
  BY <1>4, <1>8, <1>9 DEF WillSet, WillFlag
<1>11. ModemsFollow(K)' /\ FlagFollows(K)'
  BY <1>10 DEF ModemsFollow, FlagFollows
<1>12. ops \in Seq(Towards(K)')
  <2>1. ForceNetworkMode(K) \in Towards(K)' /\ FlagOp(K) \in Towards(K)'
    BY DEF Towards
  <2> QED
    BY <1>7, <2>1
<1>13. work'["conn"] \in Seq((Towards("wifi") \cup Towards("default"))')
  BY <1>8, <1>12 DEF Kinds
<1>14. OnWork'
  BY <1>3, <1>4, <1>8, IdleOnWork
<1>15. Len(events') = 0 /\ events' \in Seq(Events')
  BY <1>3, EmptySeq
<1>16. On'
  BY <1>2, <1>3 DEF On, Alive
<1>17. CASE "wifi" \in usable
  <2>1. OnWifi'
    BY <1>3, <1>6, <1>8, <1>11, <1>12, <1>17 DEF OnWifi
  <2> QED
    BY <1>3, <1>13, <1>14, <1>15, <1>16, <1>17, <2>1 DEF OnInv
<1>18. CASE "wifi" \notin usable
  <2>1. OnDefault'
    BY <1>3, <1>6, <1>8, <1>11, <1>12, <1>15, <1>18 DEF OnDefault
  <2> QED
    BY <1>3, <1>13, <1>14, <1>15, <1>16, <1>18, <2>1 DEF OnInv
<1> QED
  BY <1>17, <1>18

-----------------------------------------------------------------------------
(* Threads and networks, with the service off.                               *)

LEMMA OffThread ==
  ASSUME BaseInv, OffInv, NEW t \in Threads, Does(t)
  PROVE  BaseInv' /\ OffInv'
<1>1. /\ proc' = proc /\ enabled' = enabled /\ mode' = mode /\ assoc' = assoc /\ usable' = usable
      /\ sub' = sub /\ modems' = modems /\ serving' = serving /\ registered' = registered
      /\ events' = events /\ work[t] # << >> /\ Head(work[t])[1] \in {"flag", "read", "set", "other"}
  BY DEF Does, SetFlag, ReadMode, SetMode, SetOtherMode, Doing, Idle, user, net, sims, obj
<1>2. t = "main"
  BY <1>1 DEF OffInv, Idle, Threads
<1>3. PICK S : S = Towards("default") \cup {<<"unregister">>}
  OBVIOUS
<1>4. work[t] \in Seq(S)
  BY <1>2, <1>3 DEF OffInv
<1>5. Head(work[t]) \in Towards("default") /\ Head(work[t]) # <<"unregister">>
  <2>1. Head(work[t]) \in S
    BY <1>1, <1>4
  <2> QED
    BY <1>1, <1>3, <2>1, OpsDiffer
<1>6. Moves("default") /\ BaseInv' /\ \E ops : Replaces(t, ops, S)
  <2>1. "default" \in Kinds /\ Towards("default") \subseteq S
    BY <1>3 DEF Kinds
  <2> QED
    BY <1>4, <1>5, <2>1, ThreadStep
<1>7. PICK ops : Replaces(t, ops, S)
  BY <1>6
<1>8. /\ work'["main"] \in Seq(S) /\ work'["conn"] = work["conn"]
      /\ In(<<"unregister">>, work["main"]) => In(<<"unregister">>, work'["main"])
  <2>1. /\ work'[t] \in Seq(S) /\ \A u \in Threads : u # t => work'[u] = work[u]
        /\ \A u \in Threads : \A x : In(x, work[u]) /\ x # Head(work[t]) => In(x, work'[u])
    BY <1>7, Kept
  <2> QED
    BY <1>2, <1>5, <2>1 DEF Threads
<1>9. Towards("default")' = Towards("default")
  BY <1>1 DEF Towards, SetOp, OtherOp, Both
<1>10. OffModems'
  BY <1>1, <1>6, MovesFollow DEF OffInv, Kinds
<1> QED
  BY <1>1, <1>2, <1>3, <1>6, <1>8, <1>9, <1>10 DEF OffInv, Off, Alive, Idle

LEMMA OffUnregister ==
  ASSUME BaseInv, OffInv, Unregister
  PROVE  BaseInv' /\ OffInv'
<1>1. /\ UNCHANGED <<proc, enabled, mode, hasContext, isWifiConnected, assoc, usable, modem, sub, modems, serving>>
      /\ ~registered' /\ events' = << >>
      /\ work["main"] # << >> /\ Head(work["main"])[1] = "unregister"
      /\ work' = [work EXCEPT !["main"] = << >> \o Tail(@)]
  BY DEF Unregister, Doing, Idle, Continue, user, net, sims
<1>2. PICK S : S = Towards("default") \cup {<<"unregister">>}
  OBVIOUS
<1>3. Replaces("main", << >>, S)
  <2>1. work["main"] \in Seq(S)
    BY <1>2 DEF OffInv
  <2> QED
    BY <1>1, <2>1 DEF Replaces
<1>4. work'["main"] \in Seq(S) /\ work'["conn"] = << >> /\ DOMAIN work' = Threads
  <2>1. /\ DOMAIN work' = Threads /\ work'["main"] \in Seq(S)
        /\ \A u \in Threads : u # "main" => work'[u] = work[u]
    BY <1>3, Kept DEF Threads
  <2> QED
    BY <2>1 DEF Threads, OffInv, Idle
<1>5. \A s : WillSet(s, "default") => WillSet(s, "default")'
  BY <1>1, <1>3, StillPending, OpsDiffer DEF Threads, Kinds
<1>6. OffModems'
  BY <1>1, <1>5 DEF OffInv, OffModems, Served, Defaulted
<1>7. Towards("default")' = Towards("default") /\ BaseInv'
  BY <1>1, <1>4 DEF Towards, SetOp, OtherOp, Both, BaseInv
<1> QED
  BY <1>1, <1>2, <1>4, <1>6, <1>7 DEF OffInv, Off, Alive, Idle

NetworkStep ==
  \/ WifiAssociation
  \/ \E n \in {"wifi", "cell"} : NetworkUp(n)
  \/ \E n \in {"wifi", "cell"}, up \in BOOLEAN : NetworkDown(n, up)

\* Without a request nothing is announced.
LEMMA QuietNetwork ==
  ASSUME BaseInv, DeadInv \/ OffInv, NetworkStep, ~strayed'
  PROVE  StateInv'
<1>1. /\ UNCHANGED <<proc, enabled, mode, hasContext, isWifiConnected, registered, work,
                     modem, sub, modems, serving>>
      /\ work["main"] = << >> \/ DeadInv
  BY DEF NetworkStep, WifiAssociation, NetworkUp, NetworkDown, Overtakes, Quiescent, Idle,
         user, obj, sims
<1>4. ~registered /\ events = << >>
  BY <1>1, OffIdle DEF DeadInv, OffInv
<1>5. events' = << >>
  BY <1>4 DEF NetworkStep, WifiAssociation, NetworkUp, NetworkDown, Post
<1>6. CASE DeadInv
  <2>1. DeadInv'
    BY <1>1, <1>5, <1>6 DEF DeadInv, Served, Defaulted
  <2> QED
    BY <2>1 DEF StateInv
<1>7. CASE OffInv /\ work["main"] = << >>
  <2>1. Off' /\ work'["conn"] = << >> /\ ~registered' /\ \A s \in Served' : Defaulted(s)'
    BY <1>1, <1>4, <1>7, OffIdle DEF OffInv, Off, Alive, Idle, Served, Defaulted
  <2> QED
    BY <1>1, <1>5, <1>7, <2>1, IdleOff DEF StateInv
<1> QED
  BY <1>1, <1>6, <1>7

-----------------------------------------------------------------------------
\* A process that is not alive does nothing.
LEMMA DeadThreads ==
  ASSUME DeadInv
  PROVE  /\ \A t \in Threads : ~Does(t)
         /\ ~CheckWifi("main") /\ ~Register /\ ~Unregister /\ ~Callback
<1>1. ~Alive
  BY DEF DeadInv, Alive
<1> QED
  BY <1>1 DEF Does, SetFlag, ReadMode, SetMode, SetOtherMode, CheckWifi, Register, Unregister, Callback, Doing

LEMMA OffOnly ==
  ASSUME OffInv
  PROVE  ~CheckWifi("main") /\ ~Register /\ ~Callback
<1>1. work["main"] # << >> => Head(work["main"]) \in Towards("default") \cup {<<"unregister">>}
  BY DEF OffInv
<1>2. work["main"] # << >> => Head(work["main"])[1] \in {"flag", "read", "set", "other", "unregister"}
  BY <1>1, OpsDiffer DEF Towards
<1> QED
  BY <1>2 DEF OffInv, CheckWifi, Register, Callback, Doing, Idle

LEMMA OnOnly ==
  ASSUME OnInv
  PROVE  ~Unregister
<1>1. work["main"] # << >> => Head(work["main"]) \in Towards(WantedKind) \cup {<<"register">>, <<"checkWifi">>}
  BY DEF OnInv, OnWork
<1>2. work["main"] # << >> => Head(work["main"])[1] \in {"flag", "read", "set", "other", "register", "checkWifi"}
  BY <1>1, OpsDiffer DEF Towards
<1> QED
  BY <1>2 DEF Unregister, Doing, Idle

-----------------------------------------------------------------------------
(* What holds in any case: types, contexts and requests.                     *)

\* What the operations carry.
LEMMA PlainOps ==
  ASSUME NEW on \in BOOLEAN, NEW op \in MainOps(on)
  PROVE  /\ op[1] = "flag" => op[2] \in BOOLEAN
         /\ op[1] = "read" => op[2] \in Kinds
         /\ op[1] \in {"set", "other"} => op[2] \in Subs /\ op[3] \in Kinds /\ op[4] \in Modes
         /\ op[1] = "register" => on /\ op = <<"register">>
         /\ op[1] = "unregister" => ~on /\ op = <<"unregister">>
         /\ op[1] = "checkWifi" => op = <<"checkWifi">>
<1>1. CASE op \in {"flag"} \X BOOLEAN
  BY <1>1
<1>2. CASE op \in {"read"} \X Kinds
  BY <1>2
<1>3. CASE op \in {"set", "other"} \X Subs \X Kinds \X Modes
  BY <1>3
<1>4. CASE op = <<"checkWifi">>
  BY <1>4
<1>5. CASE (on /\ op = <<"register">>) \/ (~on /\ op = <<"unregister">>)
  BY <1>5
<1> QED
  BY <1>1, <1>2, <1>3, <1>4, <1>5 DEF MainOps, Plain

LEMMA TwoSeq ==
  ASSUME NEW S, NEW a \in S, NEW b \in S
  PROVE  <<a, b>> \in Seq(S)
OBVIOUS

\* The programs of handlers consist of plain operations, but for Startup and
\* Closing.
LEMMA PlainPrograms ==
  ASSUME BaseInv
  PROVE  /\ \A kind \in Kinds : SetModems(kind) \in Seq(Plain)
         /\ \A q \in Subs, kind \in Kinds, m \in Modes : SetOther(q, kind, m) \in Seq(Plain)
         /\ AfterWifiCheck \in Seq(Plain)
         /\ \A n : OnAvailable(n) \in Seq(Plain)
         /\ \A e : OnLost(e) \in Seq(Plain)
         /\ Startup \in Seq(MainOps(TRUE)) /\ Closing \in Seq(MainOps(FALSE))
         /\ \A on \in BOOLEAN : << <<"checkWifi">> >> \in Seq(MainOps(on))
<1>1. /\ \A kind \in Kinds : ForceNetworkMode(kind) \in Plain
      /\ <<"flag", TRUE>> \in Plain /\ <<"flag", FALSE>> \in Plain
      /\ "wifi" \in Kinds /\ "default" \in Kinds
  BY DEF ForceNetworkMode, Plain, Kinds
<1>2. ASSUME NEW kind \in Kinds PROVE SetModems(kind) \in Seq(Plain)
  <2>1. CASE sub = 0
    BY <2>1 DEF SetModems
  <2>2. CASE sub # 0
    <3>1. <<"set", sub, kind, mode[kind]>> \in Plain
      BY <2>2 DEF BaseInv, Subs, Plain
    <3> QED
      BY <2>2, <3>1 DEF SetModems
  <2> QED
    BY <2>1, <2>2
<1>3. ASSUME NEW q \in Subs, NEW kind \in Kinds, NEW m \in Modes
      PROVE  SetOther(q, kind, m) \in Seq(Plain)
  <2>1. CASE modems > 1 /\ q \in 1 .. 2
    <3>1. 3 - q \in Subs
      BY <2>1 DEF Subs
    <3>2. <<"other", 3 - q, kind, m>> \in Plain
      BY <3>1 DEF Plain
    <3> QED
      BY <2>1, <3>2 DEF SetOther
  <2>2. CASE ~(modems > 1 /\ q \in 1 .. 2)
    BY <2>2 DEF SetOther
  <2> QED
    BY <2>1, <2>2
<1>4. AfterWifiCheck \in Seq(Plain)
  BY <1>1 DEF AfterWifiCheck
<1>5. \A n : OnAvailable(n) \in Seq(Plain)
  BY <1>1 DEF OnAvailable
<1>6. \A e : OnLost(e) \in Seq(Plain)
  BY <1>1 DEF OnLost
<1>7. Startup \in Seq(MainOps(TRUE))
  <2>1. <<"register">> \in MainOps(TRUE) /\ <<"checkWifi">> \in MainOps(TRUE)
    BY DEF MainOps
  <2> QED
    BY <2>1, TwoSeq DEF Startup
<1>8. Closing \in Seq(MainOps(FALSE))
  <2>1. ForceNetworkMode("default") \in MainOps(FALSE) /\ <<"unregister">> \in MainOps(FALSE)
    BY <1>1 DEF MainOps
  <2> QED
    <3>1. CASE hasContext
      BY <2>1, <3>1, TwoSeq DEF Closing
    <3>2. CASE ~hasContext
      BY <3>2, EmptySeq DEF Closing
    <3> QED
      BY <3>1, <3>2
<1>9. ASSUME NEW on \in BOOLEAN PROVE << <<"checkWifi">> >> \in Seq(MainOps(on))
  <2>1. <<"checkWifi">> \in MainOps(on)
    BY DEF MainOps
  <2> QED
    BY <2>1
<1> QED
  BY <1>2, <1>3, <1>4, <1>5, <1>6, <1>7, <1>8, <1>9

\* One operation of one thread, which leaves plain ones to be done.
LEMMA LifeStep ==
  ASSUME BaseInv, LifeInv, Alive, NEW t \in Threads, NEW ops \in Seq(Plain), work[t] # << >>,
         work' = [work EXCEPT ![t] = ops \o Tail(@)],
         UNCHANGED <<proc, enabled, hasContext, serving, mode, sub, modems>>
  PROVE  /\ work'["main"] \in Seq(MainOps(serving')) /\ work'["conn"] \in Seq(Plain)
         /\ DOMAIN work' = Threads
         /\ \A x : In(x, work["main"]) /\ (t = "main" => x # Head(work["main"])) => In(x, work'["main"])
         /\ Head(work[t]) \in MainOps(serving)
<1>1. PICK S : S = IF t = "main" THEN MainOps(serving) ELSE Plain
  OBVIOUS
<1>2. Plain \subseteq S /\ S \subseteq MainOps(serving) /\ work[t] \in Seq(S)
  BY <1>1 DEF MainOps, LifeInv, Threads
<1>3. Replaces(t, ops, S)
  BY <1>2 DEF Replaces
<1>4. /\ DOMAIN work' = Threads /\ work'[t] \in Seq(S) /\ Head(work[t]) \in S
      /\ \A u \in Threads : u # t => work'[u] = work[u]
      /\ \A u \in Threads : \A x : In(x, work[u]) /\ x # Head(work[t]) => In(x, work'[u])
  BY <1>3, Kept
<1>5. CASE t = "main"
  BY <1>1, <1>2, <1>4, <1>5 DEF LifeInv, Threads
<1>6. CASE t = "conn"
  BY <1>1, <1>2, <1>4, <1>6 DEF LifeInv, Threads
<1> QED
  BY <1>5, <1>6 DEF Threads

LEMMA LifeThread ==
  ASSUME BaseInv, LifeInv, NEW t \in Threads, Does(t)
  PROVE  BaseInv' /\ LifeInv'
<1>1. /\ Alive /\ work[t] # << >> /\ Head(work[t])[1] \in {"flag", "read", "set", "other"}
      /\ UNCHANGED <<proc, enabled, mode, hasContext, registered, events, assoc, usable,
                     sub, modems, serving>>
  BY DEF Does, SetFlag, ReadMode, SetMode, SetOtherMode, Doing, Idle, user, obj, net, sims
<1>2. Head(work[t]) \in MainOps(serving)
  <2>1. work[t] \in Seq(MainOps(serving))
    BY DEF LifeInv, MainOps, Threads
  <2> QED
    BY <1>1, <2>1
<1>3. PICK op : op = Head(work[t])
  OBVIOUS
<1>4. /\ op[1] = "flag" => op[2] \in BOOLEAN
      /\ op[1] = "read" => op[2] \in Kinds
      /\ op[1] \in {"set", "other"} => op[2] \in Subs /\ op[3] \in Kinds /\ op[4] \in Modes
  BY <1>2, <1>3, PlainOps DEF BaseInv
<1>5. /\ \E ops \in Seq(Plain) : work' = [work EXCEPT ![t] = ops \o Tail(@)]
      /\ isWifiConnected' \in BOOLEAN /\ modem' \in [Subs -> ModemStates]
  <2>1. CASE SetFlag(t)
    <3>1. /\ work' = [work EXCEPT ![t] = << >> \o Tail(@)] /\ modem' = modem
          /\ isWifiConnected' = op[2] /\ op[1] = "flag"
      BY <1>3, <2>1 DEF SetFlag, Doing, Continue, Arg
    <3>2. << >> \in Seq(Plain)
      OBVIOUS
    <3> QED
      BY <1>4, <3>1, <3>2 DEF BaseInv
  <2>2. CASE ReadMode(t)
    <3>1. /\ work' = [work EXCEPT ![t] = SetModems(op[2]) \o Tail(@)] /\ modem' = modem
          /\ isWifiConnected' = isWifiConnected /\ op[1] = "read"
      BY <1>3, <2>2 DEF ReadMode, Doing, Continue, Arg, obj
    <3>2. SetModems(op[2]) \in Seq(Plain)
      BY <1>4, <3>1, PlainPrograms
    <3> QED
      BY <3>1, <3>2 DEF BaseInv
  <2>3. CASE SetMode(t) \/ SetOtherMode(t)
    <3>1. /\ \/ work' = [work EXCEPT ![t] = SetOther(op[2], op[3], op[4]) \o Tail(@)]
             \/ work' = [work EXCEPT ![t] = << >> \o Tail(@)]
          /\ modem' = [modem EXCEPT ![op[2]] = <<op[3], op[4]>>]
          /\ isWifiConnected' = isWifiConnected /\ op[1] \in {"set", "other"}
      BY <1>3, <2>3 DEF SetMode, SetOtherMode, Sets, Doing, Continue, Arg, obj
    <3>2. SetOther(op[2], op[3], op[4]) \in Seq(Plain) /\ << >> \in Seq(Plain)
      BY <1>4, <3>1, PlainPrograms
    <3>3. <<op[3], op[4]>> \in ModemStates
      BY <1>4, <3>1 DEF ModemStates
    <3>4. modem' \in [Subs -> ModemStates]
      BY <3>1, <3>3 DEF BaseInv
    <3> QED
      BY <3>1, <3>2, <3>4 DEF BaseInv
  <2> QED
    BY <2>1, <2>2, <2>3 DEF Does
<1>6. PICK ops \in Seq(Plain) : work' = [work EXCEPT ![t] = ops \o Tail(@)]
  BY <1>5
<1>7. /\ work'["main"] \in Seq(MainOps(serving')) /\ work'["conn"] \in Seq(Plain)
      /\ DOMAIN work' = Threads
      /\ \A x : In(x, work["main"]) /\ (t = "main" => x # Head(work["main"])) => In(x, work'["main"])
  BY <1>1, <1>6, LifeStep
<1>8. In(<<"register">>, work["main"]) => In(<<"register">>, work'["main"])
  BY <1>1, <1>7, OpsDiffer
<1>9. In(<<"unregister">>, work["main"]) => In(<<"unregister">>, work'["main"])
  BY <1>1, <1>7, OpsDiffer
<1>10. BaseInv'
  BY <1>1, <1>5, <1>7 DEF BaseInv
<1> QED
  BY <1>1, <1>7, <1>8, <1>9, <1>10 DEF LifeInv, Alive

LEMMA LifeMain ==
  ASSUME BaseInv, LifeInv, CheckWifi("main") \/ Register \/ Unregister
  PROVE  BaseInv' /\ LifeInv'
<1>1. /\ Alive /\ work["main"] # << >> /\ Head(work["main"])[1] \in {"checkWifi", "register", "unregister"}
      /\ UNCHANGED <<proc, enabled, mode, hasContext, isWifiConnected, assoc, usable, modem,
                     sub, modems, serving>>
      /\ "main" \in Threads
  BY DEF CheckWifi, Register, Unregister, Doing, Idle, user, obj, net, sims, Threads
<1>2. PICK ops \in Seq(Plain) : work' = [work EXCEPT !["main"] = ops \o Tail(@)]
  <2>1. AfterWifiCheck \in Seq(Plain) /\ << >> \in Seq(Plain)
    BY PlainPrograms
  <2> QED
    BY <2>1 DEF CheckWifi, Register, Unregister, Continue
<1>3. /\ work'["main"] \in Seq(MainOps(serving')) /\ work'["conn"] \in Seq(Plain)
      /\ DOMAIN work' = Threads
      /\ \A x : In(x, work["main"]) /\ x # Head(work["main"]) => In(x, work'["main"])
      /\ Head(work["main"]) \in MainOps(serving)
  BY <1>1, <1>2, LifeStep
<1>4. /\ Head(work["main"])[1] = "register" => serving
      /\ Head(work["main"])[1] = "unregister" => ~serving
  BY <1>3, PlainOps DEF BaseInv
<1>5. BaseInv'
  BY <1>1, <1>3 DEF BaseInv
<1>6. CASE CheckWifi("main")
  <2>1. registered' = registered /\ events' = events /\ Head(work["main"])[1] = "checkWifi"
    BY <1>6 DEF CheckWifi, Doing, obj
  <2>2. /\ In(<<"register">>, work["main"]) => In(<<"register">>, work'["main"])
        /\ In(<<"unregister">>, work["main"]) => In(<<"unregister">>, work'["main"])
    BY <1>3, <2>1, OpsDiffer
  <2> QED
    BY <1>1, <1>3, <1>5, <2>1, <2>2 DEF LifeInv, Alive
<1>7. CASE Register
  BY <1>1, <1>3, <1>4, <1>5, <1>7 DEF LifeInv, Alive, Register, Doing
<1>8. CASE Unregister
  BY <1>1, <1>3, <1>4, <1>5, <1>8 DEF LifeInv, Alive, Unregister, Doing
<1> QED
  BY <1>6, <1>7, <1>8

LEMMA LifeDies ==
  ASSUME BaseInv, ProcessDies, proc' \in {"starting", "crashed"}
  PROVE  BaseInv' /\ LifeInv'
<1>1. /\ work'["main"] = << >> /\ work'["conn"] = << >> /\ DOMAIN work' = Threads
  BY DEF ProcessDies, Threads
<1>2. work'["main"] \in Seq(MainOps(serving')) /\ work'["conn"] \in Seq(Plain)
  BY <1>1, EmptySeq
<1>3. BaseInv'
  BY <1>1 DEF ProcessDies, BaseInv, user, net, sims
<1> QED
  BY <1>2, <1>3 DEF LifeInv, ProcessDies, Alive

LEMMA LifeCallback ==
  ASSUME BaseInv, LifeInv, Callback
  PROVE  BaseInv' /\ LifeInv'
<1>1. PICK e : e = Head(events)
  OBVIOUS
<1>2. CASE proc' = "crashed" /\ ProcessDies
  BY <1>2, LifeDies
<1>3. CASE /\ work' = [work EXCEPT !["conn"] = IF e.kind = "available"
                                               THEN OnAvailable(e.net) ELSE OnLost(e)]
           /\ UNCHANGED <<proc, user, obj, net, modem, sims, serving>>
  <2>1. work'["conn"] \in Seq(Plain) /\ work'["main"] = work["main"] /\ DOMAIN work' = Threads
    <3>1. OnAvailable(e.net) \in Seq(Plain) /\ OnLost(e) \in Seq(Plain)
      BY PlainPrograms
    <3> QED
      BY <1>3, <3>1 DEF BaseInv, Threads
  <2>2. BaseInv'
    BY <1>3, <2>1 DEF BaseInv, user, obj, net, sims
  <2>3. Alive
    BY DEF Callback
  <2> QED
    BY <1>3, <2>1, <2>2, <2>3 DEF LifeInv, Alive, user, obj
<1> QED
  BY <1>1, <1>2, <1>3 DEF Callback

LEMMA LifeHandlers ==
  ASSUME BaseInv, LifeInv,
         \/ ServiceConnected \/ DynamicModemChanged \/ OnDestroy
         \/ \E kind \in Kinds, m \in Modes : NetworkModeChanged(kind, m)
  PROVE  BaseInv' /\ LifeInv'
<1>1. PICK ops \in Seq(MainOps(serving')) :
        /\ work' = [work EXCEPT !["main"] = ops] /\ serving' \in BOOLEAN
        /\ serving' /\ ops # << <<"checkWifi">> >> => In(<<"register">>, ops) /\ hasContext'
        /\ serving' /\ ops = << <<"checkWifi">> >> => serving
        /\ ~serving' => \/ In(<<"unregister">>, ops)
                        \/ ~registered /\ ~registered'
  <2>1. /\ Startup \in Seq(MainOps(TRUE)) /\ Closing \in Seq(MainOps(FALSE))
        /\ \A on \in BOOLEAN : << <<"checkWifi">> >> \in Seq(MainOps(on))
        /\ << >> \in Seq(MainOps(FALSE))
    BY PlainPrograms, EmptySeq
  <2>2. In(<<"register">>, Startup) /\ (hasContext => In(<<"unregister">>, Closing))
    BY DEF Startup, Closing, In
  <2>3. Startup # << <<"checkWifi">> >>
    <3>1. Len(Startup) = 2 /\ Len(<< <<"checkWifi">> >>) = 1
      BY DEF Startup
    <3> QED
      BY <3>1
  <2>4. CASE ServiceConnected
    <3>1. ~registered /\ ~registered' /\ serving' = enabled /\ hasContext' = enabled
      BY <2>4 DEF ServiceConnected, LifeInv, Alive
    <3>2. CASE enabled
      BY <2>1, <2>2, <2>3, <2>4, <3>1, <3>2 DEF ServiceConnected, Begins
    <3>3. CASE ~enabled
      <4>1. work' = [work EXCEPT !["main"] = << >>] /\ serving' = FALSE
        BY <2>4, <3>1, <3>3 DEF ServiceConnected, Begins, BaseInv
      <4> QED
        BY <2>1, <3>1, <4>1
    <3> QED
      BY <3>2, <3>3
  <2>5. CASE DynamicModemChanged
    <3>1. /\ serving' = ~enabled /\ hasContext' = (hasContext \/ ~enabled)
          /\ work' = [work EXCEPT !["main"] = IF enabled THEN Closing ELSE Startup]
          /\ enabled => hasContext
      BY <2>5 DEF DynamicModemChanged, Begins, LifeInv
    <3>2. CASE enabled
      BY <2>1, <2>2, <3>1, <3>2 DEF BaseInv
    <3>3. CASE ~enabled
      BY <2>1, <2>2, <2>3, <3>1, <3>3 DEF BaseInv
    <3> QED
      BY <3>2, <3>3
  <2>6. CASE OnDestroy
    <3>1. /\ serving' = FALSE /\ work' = [work EXCEPT !["main"] = Closing]
          /\ registered' = registered /\ work["main"] = << >>
      BY <2>6 DEF OnDestroy, Begins, obj, Idle
    <3>2. hasContext \/ ~registered
      BY <3>1, NothingIn DEF LifeInv, BaseInv
    <3> QED
      BY <2>1, <2>2, <3>1, <3>2
  <2>7. CASE \E kind \in Kinds, m \in Modes : NetworkModeChanged(kind, m)
    <3>1. /\ serving' = serving /\ work' = [work EXCEPT !["main"] = << <<"checkWifi">> >>]
          /\ registered' = registered /\ work["main"] = << >>
      BY <2>7 DEF NetworkModeChanged, obj, Idle
    <3>2. ~serving => ~registered
      BY <3>1, NothingIn DEF LifeInv, BaseInv
    <3>3. << <<"checkWifi">> >> \in Seq(MainOps(serving)) /\ serving \in BOOLEAN
      BY <2>1 DEF BaseInv
    <3> QED
      BY <3>1, <3>2, <3>3
  <2> QED
    BY <2>4, <2>5, <2>6, <2>7
<1>2. /\ work'["main"] = ops /\ work'["conn"] = work["conn"] /\ DOMAIN work' = Threads
  BY <1>1 DEF BaseInv, Threads
<1>3. /\ Alive' /\ enabled' \in BOOLEAN /\ mode' \in [Kinds -> Modes]
      /\ UNCHANGED <<isWifiConnected, registered, events, assoc, usable, modem, sub, modems>>
      /\ enabled' => hasContext'
      /\ hasContext => hasContext' \/ ServiceConnected
      /\ serving => work["main"] = << >> \/ ~Alive
  <2>1. CASE ServiceConnected
    BY <2>1 DEF ServiceConnected, Alive, BaseInv, LifeInv, user, net, sims
  <2>2. CASE DynamicModemChanged
    BY <2>2 DEF DynamicModemChanged, Alive, BaseInv, LifeInv, net, sims, Idle
  <2>3. CASE OnDestroy
    BY <2>3 DEF OnDestroy, Alive, BaseInv, LifeInv, user, obj, net, sims, Idle
  <2>4. CASE \E kind \in Kinds, m \in Modes : NetworkModeChanged(kind, m)
    BY <2>4 DEF NetworkModeChanged, Alive, BaseInv, LifeInv, obj, net, sims, Idle
  <2> QED
    BY <2>1, <2>2, <2>3, <2>4
<1>4. BaseInv'
  BY <1>1, <1>2, <1>3 DEF BaseInv
<1>5. serving' /\ ops = << <<"checkWifi">> >> => hasContext' /\ registered'
  <2> SUFFICES ASSUME serving', ops = << <<"checkWifi">> >> PROVE hasContext' /\ registered'
    OBVIOUS
  <2>1. serving /\ Alive /\ hasContext /\ (registered \/ In(<<"register">>, work["main"]))
    BY <1>1 DEF LifeInv
  <2>2. ~ServiceConnected /\ work["main"] = << >>
    BY <1>3, <2>1 DEF ServiceConnected, Alive
  <2> QED
    BY <1>3, <2>1, <2>2, NothingIn
<1> QED
  BY <1>1, <1>2, <1>3, <1>4, <1>5 DEF LifeInv

\* Preferences nobody sees, networks and subscriptions.
LEMMA LifeWorld ==
  ASSUME BaseInv, LifeInv,
         \/ DynamicModemUnseen \/ NetworkStep \/ SubscriptionChanged
         \/ \E kind \in Kinds, m \in Modes : NetworkModeUnseen(kind, m)
  PROVE  BaseInv' /\ LifeInv'
<1>1. /\ UNCHANGED <<proc, hasContext, isWifiConnected, registered, work, modem, serving>>
      /\ ~Alive \/ enabled' = enabled
  BY DEF DynamicModemUnseen, NetworkModeUnseen, NetworkStep, WifiAssociation, NetworkUp, NetworkDown,
         SubscriptionChanged, user, obj
<1>2. /\ enabled' \in BOOLEAN /\ mode' \in [Kinds -> Modes]
      /\ assoc' \in BOOLEAN /\ usable' \subseteq {"wifi", "cell"}
      /\ sub' \in DataSubs /\ modems' \in 1 .. 2
      /\ ~registered => events' \in {events, << >>}
  <2>1. CASE DynamicModemUnseen
    BY <2>1 DEF DynamicModemUnseen, BaseInv, net, sims
  <2>2. CASE \E kind \in Kinds, m \in Modes : NetworkModeUnseen(kind, m)
    BY <2>2 DEF NetworkModeUnseen, BaseInv, net, sims
  <2>3. CASE SubscriptionChanged
    BY <2>3 DEF SubscriptionChanged, BaseInv, net, user
  <2>4. CASE WifiAssociation
    BY <2>4 DEF WifiAssociation, BaseInv, user, sims
  <2>5. CASE \E n \in {"wifi", "cell"} : NetworkUp(n)
    BY <2>5 DEF NetworkUp, Post, BaseInv, user, sims
  <2>6. CASE \E n \in {"wifi", "cell"}, up \in BOOLEAN : NetworkDown(n, up)
    BY <2>6 DEF NetworkDown, BaseInv, user, sims
  <2> QED
    BY <2>1, <2>2, <2>3, <2>4, <2>5, <2>6 DEF NetworkStep
<1>3. BaseInv'
  BY <1>1, <1>2 DEF BaseInv
<1> QED
  BY <1>1, <1>2, <1>3 DEF LifeInv, Alive

LEMMA LifeNext ==
  ASSUME BaseInv, LifeInv, [Next]_vars
  PROVE  BaseInv' /\ LifeInv'
<1>1. CASE \E t \in Threads : Does(t)
  BY <1>1, LifeThread
<1>2. CASE CheckWifi("main") \/ Register \/ Unregister
  BY <1>2, LifeMain
<1>3. CASE Callback
  BY <1>3, LifeCallback
<1>4. CASE Restart
  BY <1>4, LifeDies DEF Restart
<1>5. CASE \/ ServiceConnected \/ DynamicModemChanged \/ OnDestroy
           \/ \E kind \in Kinds, m \in Modes : NetworkModeChanged(kind, m)
  BY <1>5, LifeHandlers
<1>6. CASE \/ DynamicModemUnseen \/ NetworkStep \/ SubscriptionChanged
           \/ \E kind \in Kinds, m \in Modes : NetworkModeUnseen(kind, m)
  BY <1>6, LifeWorld
<1>7. CASE UNCHANGED vars
  BY <1>7 DEF vars, BaseInv, LifeInv, Alive
<1> QED
  BY <1>1, <1>2, <1>3, <1>4, <1>5, <1>6, <1>7 DEF Next, Does, NetworkStep

-----------------------------------------------------------------------------
LEMMA ModemInit == Init => ModemInv
<1> SUFFICES ASSUME Init PROVE BaseInv /\ LifeInv /\ DeadInv
  BY DEF ModemInv, StateInv
<1>1. BaseInv
  <2>1. modem \in [Subs -> ModemStates]
    BY DEF Init, ModemStates
  <2>2. assoc \in BOOLEAN /\ usable \subseteq {"wifi", "cell"}
    BY DEF Init
  <2>3. /\ enabled \in BOOLEAN /\ isWifiConnected \in BOOLEAN /\ serving \in BOOLEAN
        /\ sub \in DataSubs /\ modems \in 1 .. 2
    BY DEF Init
  <2>4. mode \in [Kinds -> Modes] /\ DOMAIN work = Threads
    BY DEF Init
  <2> QED
    BY <2>1, <2>2, <2>3, <2>4 DEF BaseInv
<1>2. work["main"] = << >> /\ work["conn"] = << >>
  BY DEF Init, Threads
<1>3. LifeInv
  <2>1. work["main"] \in Seq(MainOps(serving)) /\ work["conn"] \in Seq(Plain)
    BY <1>2, EmptySeq
  <2> QED
    BY <2>1 DEF Init, LifeInv, Alive
<1>4. \A s \in Served : s \in Subs
  BY <1>1, SetModemsIs DEF Kinds
<1>5. DeadInv
  BY <1>4 DEF Init, DeadInv, Defaulted
<1> QED
  BY <1>1, <1>3, <1>5

\* Steps that leave strayed set, or set it.
LEMMA OnlyHandlersRestore ==
  ASSUME [Next]_vars, strayed, ~strayed'
  PROVE  \/ ServiceConnected \/ DynamicModemChanged \/ OnDestroy \/ Callback
         \/ \E kind \in Kinds, m \in Modes : NetworkModeChanged(kind, m)
BY DEF Next, vars, DynamicModemUnseen, NetworkModeUnseen, Restart, ProcessDies,
       SetFlag, ReadMode, SetMode, SetOtherMode, CheckWifi, Register, Unregister, WifiAssociation,
       NetworkUp, NetworkDown, SubscriptionChanged, Overtakes

LEMMA ModemNext == ModemInv /\ [Next]_vars => ModemInv'
<1> SUFFICES ASSUME BaseInv, LifeInv, strayed \/ StateInv, [Next]_vars, ~strayed' PROVE StateInv'
  BY LifeNext DEF ModemInv
<1>1. CASE ServiceConnected
  BY <1>1, ServiceConnectedInv
<1>2. CASE DynamicModemChanged
  BY <1>2, DynamicModemChangedInv
<1>3. CASE \E kind \in Kinds, m \in Modes : NetworkModeChanged(kind, m)
  BY <1>3, NetworkModeChangedInv
<1>4. CASE OnDestroy
  BY <1>4, OnDestroyInv
<1>5. CASE Callback /\ strayed
  BY <1>5, CallbackRestores DEF StateInv
<1> SUFFICES ASSUME StateInv PROVE StateInv'
  BY <1>1, <1>2, <1>3, <1>4, <1>5, OnlyHandlersRestore
<1>6. CASE Restart
  BY <1>6, RestartInv
<1>7. CASE \E t \in Threads : Does(t)
  BY <1>7, OnThread, OffThread, DeadThreads DEF StateInv
<1>8. CASE CheckWifi("main")
  BY <1>8, OnCheckWifi, OffOnly, DeadThreads DEF StateInv
<1>9. CASE Register
  BY <1>9, OnRegister, OffOnly, DeadThreads DEF StateInv
<1>10. CASE Unregister
  BY <1>10, OnOnly, OffUnregister, DeadThreads DEF StateInv
<1>11. CASE Callback
  BY <1>11, OnCallback, OffOnly, DeadThreads DEF StateInv
<1>12. CASE NetworkStep
  <2>1. CASE DeadInv \/ OffInv
    BY <1>12, <2>1, QuietNetwork
  <2>2. CASE OnInv
    BY <1>12, <2>2, OnWifiAssociation, OnNetworkUp, OnNetworkDown DEF StateInv, NetworkStep
  <2> QED
    BY <2>1, <2>2 DEF StateInv
<1>13. CASE DynamicModemUnseen
  BY <1>13, DynamicModemUnseenInv
<1>14. CASE SubscriptionChanged \/ \E kind \in Kinds, m \in Modes : NetworkModeUnseen(kind, m)
  BY <1>14 DEF SubscriptionChanged, NetworkModeUnseen
<1>15. CASE UNCHANGED vars
  <2>1. DeadInv => DeadInv'
    BY <1>15 DEF vars, DeadInv, Served, Defaulted
  <2>2. OffInv => OffInv'
    BY <1>15 DEF vars, OffInv, Off, Alive, Idle, OffModems, Served, Defaulted, WillSet, SetOp,
                 OtherOp, Both, Towards
  <2>3. OnInv => OnInv'
    <3>1. /\ WantedKind' = WantedKind /\ (\A kind : Towards(kind)' = Towards(kind)) /\ Served' = Served
          /\ \A s, kind : WillSet(s, kind)' <=> WillSet(s, kind)
          /\ \A kind : WillFlag(kind)' <=> WillFlag(kind)
      BY <1>15 DEF vars, WantedKind, Towards, SetOp, OtherOp, Both, Served, WillSet, WillFlag
    <3>2. OnWork => OnWork'
      BY <1>15, <3>1 DEF vars, OnWork, Idle, Quiescent
    <3>3. (OnWifi => OnWifi') /\ (OnDefault => OnDefault')
      BY <1>15, <3>1 DEF vars, OnWifi, OnDefault, ModemsFollow, FlagFollows, NewsOfLoss, Idle, Available
    <3> QED
      BY <1>15, <3>1, <3>2, <3>3 DEF vars, OnInv, On, Alive
  <2> QED
    BY <2>1, <2>2, <2>3 DEF StateInv
<1> QED
  BY <1>1, <1>2, <1>3, <1>4, <1>6, <1>7, <1>8, <1>9, <1>10, <1>11, <1>12, <1>13, <1>14, <1>15
     DEF Next, Does, NetworkStep

LEMMA ModemCorrect == Spec => []ModemInv
BY ModemInit, ModemNext, PTL DEF Spec

\* In calm, the regions are what the properties speak of.
LEMMA InvImplies ==
  ASSUME ModemInv
  PROVE  ModeFollowsWifi /\ OffMeansDefault /\ FlagAgrees
<1>1. CASE strayed
  BY <1>1 DEF ModeFollowsWifi, OffMeansDefault, FlagAgrees, Settled
<1>2. CASE StateInv /\ ~strayed
  <2>1. ASSUME On, Settled
        PROVE  /\ \A s \in Served : modem[s] = <<WantedKind, mode[WantedKind]>>
               /\ isWifiConnected = (WantedKind = "wifi")
    <3>1. OnInv /\ ~InFlight
      BY <1>2, <2>1 DEF StateInv, DeadInv, OffInv, On, Off, Alive, Settled
    <3> QED
      BY <3>1, OnCalm
  <2>2. ASSUME Off, Settled
        PROVE  \A s \in Served : Defaulted(s)
    <3>1. OffInv /\ ~InFlight
      BY <1>2, <2>2 DEF StateInv, DeadInv, OnInv, On, Off, Alive, Settled
    <3> QED
      BY <3>1, OffIdle DEF InFlight, Idle
  <2>3. ModeFollowsWifi
    BY <2>1 DEF ModeFollowsWifi
  <2>4. OffMeansDefault
    BY <2>2 DEF OffMeansDefault, Defaulted
  <2>5. FlagAgrees
    <3> SUFFICES ASSUME On, Settled, sub # 0 PROVE isWifiConnected = (modem[sub][1] = "wifi")
      BY DEF FlagAgrees
    <3>1. sub \in Served
      BY DEF Served
    <3>2. modem[sub][1] = WantedKind
      BY <2>1, <3>1
    <3> QED
      BY <2>1, <3>2
  <2> QED
    BY <2>3, <2>4, <2>5
<1> QED
  BY <1>1, <1>2 DEF ModemInv

\* With the service on, nothing in flight and nothing astray since the last
\* handler that set everything in calm, every served modem has the mode the user
\* chose for the current Wi-Fi status, whatever went wrong before that handler.
THEOREM FollowsWifi == Spec => []ModeFollowsWifi
BY ModemCorrect, InvImplies, PTL

\* Switching the service off, or destroying it, in calm leaves no served modem in
\* Wi-Fi mode.
THEOREM OffRestores == Spec => []OffMeansDefault
BY ModemCorrect, InvImplies, PTL

\* The flag that onLost relies on agrees with the mode of the modems, likewise.
THEOREM FlagIsRight == Spec => []FlagAgrees
BY ModemCorrect, InvImplies, PTL

\* With the service off and the main thread done, no network request is left,
\* whatever the callback thread does and whatever went astray.
THEOREM OffEndsRequest == Spec => []OffUnregisters
<1>1. LifeInv => OffUnregisters
  <2> SUFFICES ASSUME LifeInv, ~serving, work["main"] = << >>, registered PROVE FALSE
    BY DEF OffUnregisters, Off, Idle
  <2>1. In(<<"unregister">>, << >>)
    BY DEF LifeInv
  <2> QED
    BY <2>1, NothingIn
<1> QED
  BY <1>1, ModemCorrect, PTL DEF ModemInv

-----------------------------------------------------------------------------
(* The power-off alarm.                                                      *)

\* C is the history to come of a clock that gets the requests rs, and none of
\* its states has two alarms.
Clocks(C, rs) ==
  /\ C \in [0 .. Len(rs) -> SUBSET Saved]
  /\ \A k \in 1 .. Len(rs) : C[k] = Applied(C[k - 1], rs[k])
  /\ \A k \in 0 .. Len(rs) : \A s, t \in C[k] : s = t

\* The requests in flight take the clock from what it has to what the preference
\* says, one alarm at a time.
ClockInv ==
  ~forgotten =>
    \E C \in [0 .. Len(requests) -> SUBSET Saved] :
      Clocks(C, requests) /\ C[0] = rtc /\ C[Len(requests)] = {saved} \ {None}

\* A dead process has left in the file what it knew.
DiskInv == ~connected /\ ~forgotten => onDisk = saved

AlarmInv == AlarmTypeOK /\ ClockInv /\ DiskInv

-----------------------------------------------------------------------------
LEMMA SavesTyped ==
  ASSUME NEW n \in Triggers \cup {None}
  PROVE  Saves(n) \in Saved /\ (n # None => Saves(n) # None)
<1>1. CASE n = None
  BY <1>1 DEF Saves, Saved
<1>2. CASE n # None
  <2>1. n \in Triggers /\ n \in Nat /\ n >= 60
    BY <1>2, AlarmAssumption DEF Margin
  <2>2. Saves(n) = n - Margin
    BY <1>2 DEF Saves
  <2>3. n - Margin \in Saved
    BY <2>1 DEF Saved
  <2> QED
    BY <2>1, <2>2, <2>3 DEF Margin, None
<1> QED
  BY <1>1, <1>2

\* One more request that leaves at most one alarm.
LEMMA ClocksAppend ==
  ASSUME NEW rs \in Seq(Requests), NEW r \in Requests,
         NEW C \in [0 .. Len(rs) -> SUBSET Saved], Clocks(C, rs),
         \A s, t \in Applied(C[Len(rs)], r) : s = t
  PROVE  \E D \in [0 .. Len(Append(rs, r)) -> SUBSET Saved] :
           /\ Clocks(D, Append(rs, r)) /\ D[0] = C[0]
           /\ D[Len(Append(rs, r))] = Applied(C[Len(rs)], r)
<1> DEFINE n == Len(rs)
<1> DEFINE qs == Append(rs, r)
<1>1. n \in Nat /\ Len(qs) = n + 1 /\ qs[n + 1] = r /\ \A k \in 1 .. n : qs[k] = rs[k]
  BY AppendProperties, LenProperties
<1>2. Applied(C[n], r) \in SUBSET Saved
  <2>1. C[n] \in SUBSET Saved /\ r[2] \in Saved
    BY <1>1 DEF Requests
  <2> QED
    BY <2>1 DEF Applied
<1> DEFINE D == [k \in 0 .. n + 1 |-> IF k <= n THEN C[k] ELSE Applied(C[n], r)]
<1>3. D \in [0 .. n + 1 -> SUBSET Saved] /\ D[n + 1] = Applied(C[n], r)
      /\ \A k \in 0 .. n : D[k] = C[k]
  BY <1>1, <1>2
<1> HIDE DEF D, qs
<1>4. \A k \in 1 .. n + 1 : D[k] = Applied(D[k - 1], qs[k])
  <2> TAKE k \in 1 .. n + 1
  <2>1. CASE k = n + 1
    <3>1. D[k - 1] = C[n] /\ qs[k] = r
      BY <1>1, <1>3, <2>1
    <3> QED
      BY <1>3, <2>1, <3>1
  <2>2. CASE k # n + 1
    <3>1. k \in 1 .. n /\ k - 1 \in 0 .. n /\ k \in 0 .. n
      BY <1>1, <2>2
    <3>2. C[k] = Applied(C[k - 1], rs[k])
      BY <3>1 DEF Clocks
    <3> QED
      BY <1>1, <1>3, <3>1, <3>2
  <2> QED
    BY <2>1, <2>2
<1>5. \A k \in 0 .. n + 1 : \A s, t \in D[k] : s = t
  <2> TAKE k \in 0 .. n + 1
  <2>1. k = n + 1 \/ k \in 0 .. n
    BY <1>1
  <2> QED
    BY <1>3, <2>1 DEF Clocks
<1>6. Clocks(D, qs)
  BY <1>1, <1>3, <1>4, <1>5 DEF Clocks
<1> QED
  BY <1>1, <1>3, <1>6 DEF qs

\* The requests of onReceive: cancel what the preference names, then set.
LEMMA Broadcast ==
  ASSUME NEW rs \in Seq(Requests), NEW n \in Triggers \cup {None}, NEW c \in Saved
  PROVE  /\ n = None /\ c = None => rs \o Broadcasts(n, c) = rs
         /\ n = None /\ c # None => rs \o Broadcasts(n, c) = Append(rs, <<"cancel", c>>)
         /\ n # None /\ c = None => rs \o Broadcasts(n, c) = Append(rs, <<"set", Saves(n)>>)
         /\ n # None /\ c # None =>
              rs \o Broadcasts(n, c) = Append(Append(rs, <<"cancel", c>>), <<"set", Saves(n)>>)
<1> DEFINE a == <<"cancel", c>>
<1> DEFINE b == <<"set", Saves(n)>>
<1>1. a \in Requests /\ b \in Requests
  BY SavesTyped DEF Requests
<1> HIDE DEF a, b
<1>2. rs \o << >> = rs /\ << >> \o <<b>> = <<b>>
  BY <1>1, ConcatEmptySeq
<1>3. rs \o <<a>> = Append(rs, a) /\ rs \o <<b>> = Append(rs, b)
  BY <1>1, AppendIsConcat
<1>4. rs \o (<<a>> \o <<b>>) = Append(Append(rs, a), b)
  <2>1. <<a>> \in Seq(Requests) /\ <<b>> \in Seq(Requests)
    BY <1>1
  <2>2. rs \o (<<a>> \o <<b>>) = (rs \o <<a>>) \o <<b>>
    BY <2>1, ConcatAssociative
  <2>3. Append(rs, a) \in Seq(Requests)
    BY <1>1, AppendProperties
  <2> QED
    BY <1>1, <1>3, <2>2, <2>3, AppendIsConcat
<1>5. CASE n = None
  BY <1>2, <1>3, <1>5 DEF Broadcasts, a
<1>6. CASE n # None
  BY <1>2, <1>3, <1>4, <1>6 DEF Broadcasts, Saves, a, b
<1> QED
  BY <1>5, <1>6 DEF a, b

LEMMA AlarmInvInit == AlarmInit => AlarmInv
<1> SUFFICES ASSUME AlarmInit PROVE AlarmInv
  OBVIOUS
<1>1. requests = << >> /\ requests \in Seq(Requests) /\ Len(requests) = 0
  BY DEF AlarmInit
<1>2. AlarmTypeOK
  BY <1>1 DEF AlarmInit, AlarmTypeOK, Saved
<1>3. ClockInv
  <2> DEFINE C == [k \in 0 .. Len(requests) |-> {}]
  <2>1. C \in [0 .. Len(requests) -> SUBSET Saved] /\ C[0] = {} /\ C[Len(requests)] = {}
    BY <1>1
  <2>2. Clocks(C, requests)
    BY <1>1, <2>1 DEF Clocks
  <2>3. rtc = {} /\ {saved} \ {None} = {}
    BY DEF AlarmInit
  <2> HIDE DEF C
  <2> QED
    BY <2>1, <2>2, <2>3 DEF ClockInv
<1> QED
  BY <1>2, <1>3 DEF AlarmInv, DiskInv, AlarmInit

\* alarmReceiver runs.
LEMMA OnReceiveInv ==
  ASSUME AlarmInv, OnReceive
  PROVE  AlarmInv'
<1>1. PICK rs \in Seq(Requests), n \in Triggers \cup {None}, c \in Saved :
        rs = requests /\ n = next /\ c = saved
  BY DEF AlarmInv, AlarmTypeOK
<1>2. /\ requests' = rs \o Broadcasts(n, c) /\ saved' = Saves(n) /\ rtc' = rtc
      /\ forgotten' = forgotten /\ connected' = connected /\ connected /\ next' = next
      /\ onDisk' = onDisk /\ changes' = changes - 1 /\ changes > 0
  BY <1>1 DEF OnReceive
<1>3. Saves(n) \in Saved /\ (n # None => Saves(n) # None) /\ (n = None => Saves(n) = None)
  BY SavesTyped DEF Saves
<1> DEFINE a == <<"cancel", c>>
<1> DEFINE b == <<"set", Saves(n)>>
<1>4. a \in Requests /\ b \in Requests
  BY <1>3 DEF Requests
<1>5. /\ \A clock : Applied(clock, a) = clock \ {c}
      /\ \A clock : Applied(clock, b) = clock \cup {Saves(n)}
  BY DEF Applied
<1> HIDE DEF a, b
<1>6. /\ n = None /\ c = None => requests' = rs
      /\ n = None /\ c # None => requests' = Append(rs, a)
      /\ n # None /\ c = None => requests' = Append(rs, b)
      /\ n # None /\ c # None => requests' = Append(Append(rs, a), b)
  BY <1>2, Broadcast DEF a, b
<1>7. requests' \in Seq(Requests)
  BY <1>4, <1>6, AppendProperties
<1>8. AlarmTypeOK'
  <2>1. changes' \in Nat
    BY <1>2 DEF AlarmInv, AlarmTypeOK
  <2> QED
    BY <1>2, <1>3, <1>7, <2>1 DEF AlarmInv, AlarmTypeOK
<1>9. ASSUME ~forgotten
      PROVE  \E D \in [0 .. Len(requests') -> SUBSET Saved] :
               Clocks(D, requests') /\ D[0] = rtc /\ D[Len(requests')] = {Saves(n)} \ {None}
  <2>1. PICK C \in [0 .. Len(rs) -> SUBSET Saved] :
          Clocks(C, rs) /\ C[0] = rtc /\ C[Len(rs)] = {c} \ {None}
    BY <1>1, <1>9 DEF AlarmInv, ClockInv
  <2>2. CASE n = None /\ c = None
    BY <1>3, <1>6, <2>1, <2>2
  <2>3. CASE n # None /\ c = None
    <3>1. Applied(C[Len(rs)], b) = {Saves(n)}
      BY <1>5, <2>1, <2>3
    <3>2. PICK D \in [0 .. Len(Append(rs, b)) -> SUBSET Saved] :
            Clocks(D, Append(rs, b)) /\ D[0] = C[0]
            /\ D[Len(Append(rs, b))] = Applied(C[Len(rs)], b)
      BY <1>4, <2>1, <3>1, ClocksAppend
    <3>3. requests' = Append(rs, b)
      BY <1>6, <2>3
    <3> QED
      BY <1>3, <2>1, <2>3, <3>1, <3>2, <3>3
  <2>4. CASE c # None
    <3>1. Applied(C[Len(rs)], a) = {}
      BY <1>5, <2>1
    <3> DEFINE qs == Append(rs, a)
    <3>2. PICK D \in [0 .. Len(qs) -> SUBSET Saved] :
            Clocks(D, qs) /\ D[0] = C[0] /\ D[Len(qs)] = Applied(C[Len(rs)], a)
      BY <1>4, <2>1, <3>1, ClocksAppend
    <3>3. qs \in Seq(Requests)
      BY <1>4, AppendProperties
    <3> HIDE DEF qs
    <3>4. CASE n = None
      <4>1. requests' = qs
        BY <1>6, <2>4, <3>4 DEF qs
      <4> QED
        BY <1>3, <2>1, <3>1, <3>2, <3>4, <4>1
    <3>5. CASE n # None
      <4>1. requests' = Append(qs, b)
        BY <1>6, <2>4, <3>5 DEF qs
      <4>2. Applied(D[Len(qs)], b) = {Saves(n)}
        BY <1>5, <3>1, <3>2
      <4>3. PICK E \in [0 .. Len(Append(qs, b)) -> SUBSET Saved] :
              Clocks(E, Append(qs, b)) /\ E[0] = D[0]
              /\ E[Len(Append(qs, b))] = Applied(D[Len(qs)], b)
        <5>1. \A s, t \in Applied(D[Len(qs)], b) : s = t
          BY <4>2
        <5> QED
          BY <1>4, <3>2, <3>3, <5>1, ClocksAppend
      <4> QED
        BY <1>3, <2>1, <3>2, <3>5, <4>1, <4>2, <4>3
    <3> QED
      BY <3>4, <3>5
  <2> QED
    BY <2>2, <2>3, <2>4
<1>10. ClockInv'
  BY <1>2, <1>9 DEF ClockInv
<1>11. DiskInv'
  BY <1>2 DEF DiskInv
<1> QED
  BY <1>8, <1>10, <1>11 DEF AlarmInv

\* The power-off alarm service handles one request.
LEMMA PowerOffAlarmInv ==
  ASSUME AlarmInv, PowerOffAlarm
  PROVE  AlarmInv'
<1>1. PICK rs \in Seq(Requests) : rs = requests /\ rs # << >>
  BY DEF AlarmInv, AlarmTypeOK, PowerOffAlarm
<1>2. PICK qs : qs = Tail(rs)
  OBVIOUS
<1>3. /\ requests' = qs /\ rtc' = Applied(rtc, Head(rs)) /\ saved' = saved
      /\ forgotten' = forgotten /\ connected' = connected /\ next' = next
      /\ onDisk' = onDisk /\ changes' = changes
  BY <1>1, <1>2 DEF PowerOffAlarm
<1>4. /\ Len(rs) \in Nat /\ Len(rs) >= 1 /\ Head(rs) = rs[1] /\ rs[1] \in Requests
      /\ qs \in Seq(Requests) /\ Len(qs) = Len(rs) - 1
      /\ \A k \in 1 .. Len(qs) : qs[k] = rs[k + 1]
  BY <1>1, <1>2, HeadTailProperties
<1>5. AlarmTypeOK'
  <2>1. rtc' \subseteq Saved
    <3>1. rs[1][2] \in Saved
      BY <1>4 DEF Requests
    <3> QED
      BY <1>3, <1>4, <3>1 DEF Applied, AlarmInv, AlarmTypeOK
  <2> QED
    BY <1>3, <1>4, <2>1 DEF AlarmInv, AlarmTypeOK
<1>6. ASSUME ~forgotten
      PROVE  \E D \in [0 .. Len(qs) -> SUBSET Saved] :
               Clocks(D, qs) /\ D[0] = rtc' /\ D[Len(qs)] = {saved} \ {None}
  <2>1. PICK C \in [0 .. Len(rs) -> SUBSET Saved] :
          Clocks(C, rs) /\ C[0] = rtc /\ C[Len(rs)] = {saved} \ {None}
    BY <1>1, <1>6 DEF AlarmInv, ClockInv
  <2> DEFINE D == [k \in 0 .. Len(qs) |-> C[k + 1]]
  <2>2. D \in [0 .. Len(qs) -> SUBSET Saved]
    BY <1>4
  <2>3. \A k \in 0 .. Len(qs) : D[k] = C[k + 1] /\ k + 1 \in 0 .. Len(rs)
    BY <1>4
  <2>4. D[0] = C[1] /\ D[Len(qs)] = C[Len(rs)]
    BY <1>4
  <2> HIDE DEF D
  <2>5. C[1] = rtc'
    <3>1. 1 \in 1 .. Len(rs) /\ 1 - 1 = 0
      BY <1>4
    <3>2. C[1] = Applied(C[1 - 1], rs[1])
      BY <2>1, <3>1 DEF Clocks
    <3> QED
      BY <1>3, <1>4, <2>1, <3>1, <3>2
  <2>6. \A k \in 1 .. Len(qs) : D[k] = Applied(D[k - 1], qs[k])
    <3> TAKE k \in 1 .. Len(qs)
    <3>1. k + 1 \in 1 .. Len(rs) /\ (k + 1) - 1 = k /\ k \in 0 .. Len(qs) /\ k - 1 \in 0 .. Len(qs)
          /\ (k - 1) + 1 = k
      BY <1>4
    <3>2. C[k + 1] = Applied(C[(k + 1) - 1], rs[k + 1])
      BY <2>1, <3>1 DEF Clocks
    <3>3. D[k] = C[k + 1] /\ D[k - 1] = C[k]
      BY <2>3, <3>1
    <3> QED
      BY <1>4, <3>1, <3>2, <3>3
  <2>7. \A k \in 0 .. Len(qs) : \A s, t \in D[k] : s = t
    BY <2>1, <2>3 DEF Clocks
  <2>8. Clocks(D, qs)
    BY <2>2, <2>6, <2>7 DEF Clocks
  <2> QED
    BY <2>1, <2>2, <2>4, <2>5, <2>8
<1>7. ClockInv'
  BY <1>3, <1>6 DEF ClockInv
<1>8. DiskInv'
  BY <1>3 DEF AlarmInv, DiskInv
<1> QED
  BY <1>5, <1>7, <1>8 DEF AlarmInv

LEMMA AlarmInvNext == AlarmInv /\ [AlarmNext]_alarmVars => AlarmInv'
<1> SUFFICES ASSUME AlarmInv, [AlarmNext]_alarmVars PROVE AlarmInv'
  OBVIOUS
<1>1. CASE AlarmServiceConnected
  <2>1. AlarmTypeOK'
    BY <1>1 DEF AlarmInv, AlarmTypeOK, AlarmServiceConnected
  <2>2. ~forgotten => saved' = saved
    BY <1>1 DEF AlarmInv, DiskInv, AlarmServiceConnected
  <2>3. requests' = requests /\ rtc' = rtc /\ forgotten' = forgotten /\ connected'
    BY <1>1 DEF AlarmServiceConnected
  <2> QED
    BY <2>1, <2>2, <2>3 DEF AlarmInv, ClockInv, DiskInv
<1>2. CASE OnReceive
  BY <1>2, OnReceiveInv
<1>3. CASE WriteToDisk
  BY <1>3 DEF AlarmInv, AlarmTypeOK, ClockInv, DiskInv, WriteToDisk
<1>4. CASE \E t \in Triggers \cup {None} : AlarmChanged(t)
  <2>1. PICK t \in Triggers \cup {None} : AlarmChanged(t)
    BY <1>4
  <2>2. changes' \in Nat
    BY <2>1 DEF AlarmInv, AlarmTypeOK, AlarmChanged
  <2>3. AlarmTypeOK'
    BY <2>1, <2>2 DEF AlarmInv, AlarmTypeOK, AlarmChanged
  <2> QED
    BY <2>1, <2>3 DEF AlarmInv, ClockInv, DiskInv, AlarmChanged
<1>5. CASE PowerOffAlarm
  BY <1>5, PowerOffAlarmInv
<1>6. CASE Killed
  <2>1. AlarmTypeOK'
    BY <1>6 DEF AlarmInv, AlarmTypeOK, Killed
  <2>2. ~forgotten' => ~forgotten /\ onDisk = saved
    BY <1>6 DEF Killed
  <2>3. saved' = saved /\ onDisk' = onDisk /\ requests' = requests /\ rtc' = rtc
    BY <1>6 DEF Killed
  <2> QED
    BY <2>1, <2>2, <2>3 DEF AlarmInv, ClockInv, DiskInv
<1>7. CASE UNCHANGED alarmVars
  BY <1>7 DEF AlarmInv, AlarmTypeOK, ClockInv, DiskInv, alarmVars
<1> QED
  BY <1>1, <1>2, <1>3, <1>4, <1>5, <1>6, <1>7 DEF AlarmNext

LEMMA AlarmInvariant == AlarmSpec => []AlarmInv
BY AlarmInvInit, AlarmInvNext, PTL DEF AlarmSpec

\* A set of numbers has a least one.
LEMMA Least ==
  ASSUME NEW T \in SUBSET Nat, T # {}
  PROVE  \E k \in T : \A l \in T : ~(l < k)
<1>1. \A l, k \in Nat : l < k => <<l, k>> \in OpToRel(<, Nat)
  BY Zenon DEF OpToRel
<1>2. PICK k \in T : \A l \in T : <<l, k>> \notin OpToRel(<, Nat)
  BY NatLessThanWellFounded, WFMin
<1> QED
  BY <1>1, <1>2

\* Two recursive accounts of the same requests agree: the least place where they
\* did not would follow one where they do.
LEMMA ClocksUnique ==
  ASSUME NEW n \in Nat, NEW C, NEW D, C[0] = D[0],
         \A k \in 1 .. n : C[k - 1] = D[k - 1] => C[k] = D[k]
  PROVE  C[n] = D[n]
<1> DEFINE T == {k \in 0 .. n : C[k] # D[k]}
<1>1. SUFFICES ASSUME T # {} PROVE FALSE
  BY <1>1
<1>2. PICK k \in T : \A l \in T : ~(l < k)
  <2>1. T \in SUBSET Nat
    OBVIOUS
  <2> HIDE DEF T
  <2> QED
    BY <1>1, <2>1, Least
<1>3. k \in 1 .. n /\ k - 1 \in 0 .. n /\ k - 1 < k
  OBVIOUS
<1> QED
  BY <1>2, <1>3

\* OneAlarm of NextAlarm for any times and any queues: the real time clock never
\* has two alarms, since alarmReceiver cancels the one that currentNextAlarm
\* names before it sets the next, unless a death made it forget one.
THEOREM KeepsOneAlarm == AlarmSpec => []OneAlarm
<1>1. AlarmInv => OneAlarm
  <2> SUFFICES ASSUME AlarmInv, ~forgotten PROVE \A s, t \in rtc : s = t
    BY DEF OneAlarm
  <2>1. PICK C \in [0 .. Len(requests) -> SUBSET Saved] : Clocks(C, requests) /\ C[0] = rtc
    BY DEF AlarmInv, ClockInv
  <2>2. 0 \in 0 .. Len(requests)
    BY LenProperties DEF AlarmInv, AlarmTypeOK
  <2> QED
    BY <2>1, <2>2 DEF Clocks
<1> QED
  BY <1>1, AlarmInvariant, PTL

\* SavedIsSet of NextAlarm for any times and any queues: once alarmReceiver's
\* requests in flight are handled, the clock has exactly the alarm that
\* currentNextAlarm names, unless a death made it forget one.
THEOREM PreferenceNamesAlarm == AlarmSpec => []SavedIsSet
<1>1. AlarmInv => SavedIsSet
  <2> SUFFICES ASSUME AlarmInv, ~forgotten PROVE RtcAfter = {saved} \ {None}
    BY DEF SavedIsSet
  <2>1. PICK n \in Nat : n = Len(requests)
    BY LenProperties DEF AlarmInv, AlarmTypeOK
  <2>2. PICK C \in [0 .. n -> SUBSET Saved] :
          Clocks(C, requests) /\ C[0] = rtc /\ C[n] = {saved} \ {None}
    BY <2>1 DEF AlarmInv, ClockInv
  <2> DEFINE Account(f) ==
        f = [k \in 0 .. n |-> IF k = 0 THEN rtc ELSE Applied(f[k - 1], requests[k])]
  <2> DEFINE clock == CHOOSE f : Account(f)
  <2>3. RtcAfter = clock[n]
    BY <2>1 DEF RtcAfter
  <2>4. Account(C)
    BY <2>1, <2>2 DEF Clocks
  <2>5. Account(clock)
    BY <2>4
  <2>6. PICK f : f = clock
    OBVIOUS
  <2>7. f = [k \in 0 .. n |-> IF k = 0 THEN rtc ELSE Applied(f[k - 1], requests[k])]
    BY <2>5, <2>6
  <2>8. f[0] = rtc /\ \A k \in 1 .. n : f[k] = Applied(f[k - 1], requests[k])
    BY <2>7
  <2>9. \A k \in 1 .. n : C[k] = Applied(C[k - 1], requests[k])
    BY <2>1, <2>2 DEF Clocks
  <2>10. \A k \in 1 .. n : f[k - 1] = C[k - 1] => f[k] = C[k]
    BY <2>8, <2>9
  <2>11. f[n] = C[n]
    BY <2>2, <2>8, <2>10, ClocksUnique
  <2> QED
    BY <2>2, <2>3, <2>6, <2>11
<1> QED
  BY <1>1, AlarmInvariant, PTL
=============================================================================
