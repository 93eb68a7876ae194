--------------------- MODULE BluetoothBatteryIcon_proofs ---------------------
(* For every set of devices and any number of broadcasts in flight: once they *)
(* are handled, count and icon agree with the radio.                          *)
(*                                                                            *)
(* The receiver lags behind.  The argument follows the radio backwards: there *)
(* is a history of links and reports, one entry per broadcast in flight, that *)
(* leads from what the receiver knows to what is the case.                    *)
EXTENDS BluetoothBatteryIcon, SequenceTheorems, FiniteSetTheorems, TLAPS

\* What broadcast e says: links l and reports r became l2 and r2.
Tells(e, l, r, l2, r2) ==
  \/ e.type = "on" /\ l = {} /\ l2 = {} /\ r2 = {}
  \/ e.type = "off" /\ l2 = {} /\ r2 = {}
  \/ /\ e.type = "connected" /\ e.device \in Devices \ l
     /\ l2 = l \cup {e.device} /\ r2 = r
  \/ /\ e.type = "disconnected" /\ e.device \in l
     /\ l2 = l \ {e.device} /\ r2 = r \ {e.device}
  \/ /\ e.type = "battery" /\ l2 = l /\ e.level \in Levels /\ e.device \in Devices
     /\ \/ (e.level = "unknown" \/ e.gone) /\ r2 = r
        \/ e.level # "unknown" /\ ~e.gone /\ e.device \in l /\ r2 = r \cup {e.device}

\* L and R: links and reports before and after each broadcast of q, ending with
\* the present ones, ls and rs.
History(q, ls, rs, L, R) ==
  /\ L \in [0 .. Len(q) -> SUBSET Devices] /\ R \in [0 .. Len(q) -> SUBSET Devices]
  /\ L[Len(q)] = ls /\ R[Len(q)] = rs
  /\ \A k \in 0 .. Len(q) : R[k] \subseteq L[k]
  /\ \A k \in 1 .. Len(q) : Tells(q[k], L[k - 1], R[k - 1], L[k], R[k])

\* The receiver's fields and the icon are right for links l and reports r, or as
\* right as a level sent by a device already gone lets them be.
Agrees(l, r) ==
  ~missed =>
    /\ count = Cardinality(l) /\ r \subseteq addrs
    /\ late => addrs # {}
    /\ ~late => addrs = r /\ (l # {} => icon # "none")
    /\ icon # "none" => l # {} /\ hidden
    /\ ~off => l # {}
    /\ icon \in {"battery", "blank"} => addrs # {}

\* Without a receiver nothing is in flight, and a link made now is missed.
RadioInv ==
  /\ ~adapter => links = {}
  /\ ~listening => queue = << >> /\ (~missed => links = {})

HistoryInv ==
  \E L, R \in [0 .. Len(queue) -> SUBSET Devices] :
    History(queue, links, reported, L, R) /\ Agrees(L[0], R[0])

IInv == TypeOK /\ RadioInv /\ HistoryInv

-----------------------------------------------------------------------------
\* Devices linked: how their number changes.
LEMMA LinkCount ==
  ASSUME NEW l \in SUBSET Devices
  PROVE  /\ Cardinality(l) \in Nat
         /\ Cardinality(l) = 0 <=> l = {}
         /\ \A d \in Devices \ l : Cardinality(l \cup {d}) = Cardinality(l) + 1
         /\ \A d \in l : Cardinality(l \ {d}) = Cardinality(l) - 1
<1>1. IsFiniteSet(l)
  BY DevicesAssumption, FS_Subset
<1>2. Cardinality(l) \in Nat /\ (Cardinality(l) = 0 <=> l = {})
  BY <1>1, FS_CardinalityType, FS_EmptySet
<1>3. \A d \in Devices \ l : Cardinality(l \cup {d}) = Cardinality(l) + 1
  BY <1>1, FS_AddElement
<1>4. \A d \in l : Cardinality(l \ {d}) = Cardinality(l) - 1
  BY <1>1, FS_RemoveElement
<1> QED BY <1>2, <1>3, <1>4

\* A broadcast handled: the history begins one entry later.
LEMMA HistoryTail ==
  ASSUME NEW q \in Seq(Events), q # << >>, NEW ls, NEW rs, NEW L, NEW R, History(q, ls, rs, L, R)
  PROVE  /\ Tells(Head(q), L[0], R[0], L[1], R[1])
         /\ L[0] \subseteq Devices /\ R[0] \subseteq L[0] /\ L[1] \subseteq Devices
         /\ \E L2, R2 \in [0 .. Len(Tail(q)) -> SUBSET Devices] :
              History(Tail(q), ls, rs, L2, R2) /\ L2[0] = L[1] /\ R2[0] = R[1]
<1>1. Len(q) \in Nat /\ Len(q) > 0 /\ Head(q) = q[1]
  BY EmptySeq, LenProperties
<1>2. /\ Len(Tail(q)) = Len(q) - 1 /\ Tail(q) \in Seq(Events)
      /\ \A k \in 1 .. Len(q) - 1 : Tail(q)[k] = q[k + 1]
  BY HeadTailProperties
<1>3. 1 \in 1 .. Len(q) /\ 1 \in 0 .. Len(q) /\ 0 \in 0 .. Len(q) /\ 1 - 1 = 0
  BY <1>1
<1>4. /\ Tells(Head(q), L[0], R[0], L[1], R[1])
      /\ L[0] \subseteq Devices /\ R[0] \subseteq L[0] /\ L[1] \subseteq Devices
  BY <1>1, <1>3 DEF History
<1> DEFINE n == Len(Tail(q))
           L2 == [k \in 0 .. n |-> L[k + 1]]
           R2 == [k \in 0 .. n |-> R[k + 1]]
<1>5. /\ n \in Nat /\ n = Len(q) - 1
      /\ \A k \in 0 .. n : k + 1 \in 0 .. Len(q) /\ k + 1 \in 1 .. Len(q)
  BY <1>1, <1>2
<1>6. L2 \in [0 .. n -> SUBSET Devices] /\ R2 \in [0 .. n -> SUBSET Devices]
  BY <1>5 DEF History
<1>7. L2[0] = L[1] /\ R2[0] = R[1] /\ L2[n] = ls /\ R2[n] = rs
  BY <1>1, <1>5 DEF History
<1>8. \A k \in 0 .. n : R2[k] \subseteq L2[k]
  BY <1>5 DEF History
<1>9. ASSUME NEW k \in 1 .. n PROVE Tells(Tail(q)[k], L2[k - 1], R2[k - 1], L2[k], R2[k])
  <2>1. /\ k + 1 \in 1 .. Len(q) /\ k \in 0 .. n /\ k - 1 \in 0 .. n /\ k \in 1 .. Len(q) - 1
        /\ (k - 1) + 1 = k /\ (k + 1) - 1 = k
    BY <1>1, <1>5
  <2>2. Tells(q[k + 1], L[k], R[k], L[k + 1], R[k + 1])
    BY <2>1 DEF History
  <2>3. L2[k - 1] = L[k] /\ R2[k - 1] = R[k] /\ L2[k] = L[k + 1] /\ R2[k] = R[k + 1]
    BY <2>1
  <2> QED BY <1>2, <2>1, <2>2, <2>3
<1>10. History(Tail(q), ls, rs, L2, R2)
  BY <1>6, <1>7, <1>8, <1>9 DEF History
<1> QED BY <1>4, <1>6, <1>7, <1>10

\* A broadcast sent: the history ends one entry later.
LEMMA HistoryAppend ==
  ASSUME NEW q \in Seq(Events), NEW e \in Events, NEW ls, NEW rs, NEW L, NEW R,
         History(q, ls, rs, L, R),
         NEW l2 \in SUBSET Devices, NEW r2 \in SUBSET l2, Tells(e, ls, rs, l2, r2)
  PROVE  \E L2, R2 \in [0 .. Len(Append(q, e)) -> SUBSET Devices] :
           History(Append(q, e), l2, r2, L2, R2) /\ L2[0] = L[0] /\ R2[0] = R[0]
<1> DEFINE p == Append(q, e)
           n == Len(q)
           L2 == [k \in 0 .. Len(p) |-> IF k <= n THEN L[k] ELSE l2]
           R2 == [k \in 0 .. Len(p) |-> IF k <= n THEN R[k] ELSE r2]
<1>1. /\ n \in Nat /\ Len(p) = n + 1 /\ p[n + 1] = e
      /\ \A k \in 1 .. n : p[k] = q[k]
  BY AppendProperties, LenProperties
<1> HIDE DEF p, n
<1>2. \A k \in 0 .. n + 1 : k \in 0 .. n \/ k = n + 1
  BY <1>1
<1>3. /\ L \in [0 .. n -> SUBSET Devices] /\ R \in [0 .. n -> SUBSET Devices]
      /\ L[n] = ls /\ R[n] = rs /\ \A k \in 0 .. n : R[k] \subseteq L[k]
      /\ \A k \in 1 .. n : Tells(q[k], L[k - 1], R[k - 1], L[k], R[k])
  BY DEF History, n
<1>4. /\ L2 \in [0 .. Len(p) -> SUBSET Devices] /\ R2 \in [0 .. Len(p) -> SUBSET Devices]
      /\ \A k \in 0 .. n : L2[k] = L[k] /\ R2[k] = R[k]
      /\ L2[n + 1] = l2 /\ R2[n + 1] = r2
  BY <1>1, <1>2, <1>3
<1> HIDE DEF L2, R2
<1>5. \A k \in 0 .. Len(p) : R2[k] \subseteq L2[k]
  BY <1>1, <1>2, <1>3, <1>4
<1>6. ASSUME NEW k \in 1 .. Len(p) PROVE Tells(p[k], L2[k - 1], R2[k - 1], L2[k], R2[k])
  <2>1. CASE k = n + 1
    <3>1. k - 1 = n /\ n \in 0 .. n
      BY <1>1, <2>1
    <3> QED BY <1>1, <1>3, <1>4, <2>1, <3>1
  <2>2. CASE k # n + 1
    <3>1. k \in 1 .. n /\ k \in 0 .. n /\ k - 1 \in 0 .. n
      BY <1>1, <2>2
    <3> QED BY <1>1, <1>3, <1>4, <3>1
  <2> QED BY <2>1, <2>2
<1>7. History(p, l2, r2, L2, R2)
  BY <1>1, <1>4, <1>5, <1>6 DEF History
<1>8. L2[0] = L[0] /\ R2[0] = R[0]
  BY <1>1, <1>4
<1> QED BY <1>4, <1>7, <1>8 DEF p

-----------------------------------------------------------------------------
LEMMA IInvInit == Init => IInv
<1> SUFFICES ASSUME Init PROVE IInv
  OBVIOUS
<1>1. TypeOK /\ RadioInv
  <2>1. count \in Nat /\ queue \in Seq(Events)
    BY DEF Init
  <2> QED BY <2>1 DEF Init, TypeOK, RadioInv, Icons
<1>2. HistoryInv
  <2> DEFINE N == [k \in 0 .. 0 |-> {}]
  <2>1. N \in [0 .. 0 -> SUBSET Devices] /\ N[0] = {}
    OBVIOUS
  <2>2. Len(queue) = 0 /\ links = {} /\ reported = {}
    BY DEF Init
  <2> HIDE DEF N
  <2>3. History(queue, links, reported, N, N)
    BY <2>1, <2>2 DEF History
  <2>4. Cardinality({}) = 0
    BY FS_EmptySet
  <2>5. Agrees({}, {})
    BY <2>4 DEF Init, Agrees
  <2> QED BY <2>1, <2>2, <2>3, <2>5 DEF HistoryInv
<1> QED BY <1>1, <1>2 DEF IInv

\* The receiver handles broadcast e: it comes to agree with what e tells.  "off"
\* puts it in order whatever it had missed.
LEMMA Handles ==
  ASSUME TypeOK, NEW l \in SUBSET Devices, NEW r \in SUBSET l, Agrees(l, r),
         NEW l2 \in SUBSET Devices, NEW r2, NEW e, Tells(e, l, r, l2, r2),
         \/ e.type \in {"on", "off"} /\ StateChanged(e.type)
         \/ e.type = "connected" /\ AclConnected
         \/ e.type = "disconnected" /\ AclDisconnected(e.device)
         \/ e.type = "battery" /\ BatteryLevelChanged(e.device, e.level),
         missed' = (missed /\ e.type # "off"),
         late' = (addrs' # {} /\ (late \/ (e.type = "battery" /\ e.level # "unknown" /\ e.gone)))
  PROVE  Agrees(l2, r2)'
<1>0. /\ Cardinality(l) \in Nat /\ (Cardinality(l) = 0 <=> l = {})
      /\ Cardinality(l2) \in Nat /\ (Cardinality(l2) = 0 <=> l2 = {})
  BY LinkCount
<1>1. CASE e.type = "off"
  <2>1. /\ addrs' = {} /\ icon' = "none" /\ off' = TRUE /\ count' = 0 /\ l2 = {} /\ r2 = {}
    BY <1>1 DEF StateChanged, AllGone, Tells
  <2> QED BY <1>0, <2>1 DEF Agrees
<1> SUFFICES ASSUME e.type # "off", ~missed PROVE Agrees(l2, r2)'
  BY <1>1 DEF Agrees
<1>2. /\ count = Cardinality(l) /\ r \subseteq addrs /\ (late => addrs # {})
      /\ (~late => addrs = r /\ (l # {} => icon # "none"))
      /\ (icon # "none" => l # {} /\ hidden) /\ (~off => l # {})
      /\ (icon \in {"battery", "blank"} => addrs # {})
  BY DEF Agrees
<1>3. CASE e.type = "on"
  <2>1. /\ UNCHANGED <<off, addrs, count, icon>> /\ l = {} /\ l2 = {} /\ r2 = {} /\ r = {}
        /\ late' = (addrs' # {} /\ late)
    BY <1>3 DEF StateChanged, fields, Tells
  <2> QED BY <1>2, <2>1 DEF Agrees
<1>4. CASE e.type = "connected"
  <2>1. /\ count' = count + 1 /\ off' = FALSE /\ addrs' = addrs
        /\ l2 = l \cup {e.device} /\ r2 = r /\ e.device \in Devices \ l
    BY <1>4 DEF AclConnected, Tells
  <2>2. count' = Cardinality(l2) /\ l2 # {}
    BY <1>2, <2>1, LinkCount
  <2>3. CASE addrs = {}
    <3>1. hidden' = TRUE /\ icon' = "connected"
      BY <1>4, <2>3 DEF AclConnected, UpdateBatteryLevel
    <3> QED BY <1>2, <2>1, <2>2, <3>1 DEF Agrees
  <2>4. CASE addrs # {}
    <3>1. hidden' = hidden /\ icon' = icon /\ (late' <=> late)
      BY <1>4, <2>1, <2>4 DEF AclConnected, outputs
    <3>2. ~late => l # {}
      BY <1>2, <2>4
    <3> QED BY <1>2, <2>1, <2>2, <3>1, <3>2 DEF Agrees
  <2> QED BY <2>3, <2>4
<1>5. CASE e.type = "disconnected"
  <2>1. e.device \in l /\ l2 = l \ {e.device} /\ r2 = r \ {e.device}
    BY <1>5 DEF Tells
  <2>2. Cardinality(l2) = Cardinality(l) - 1 /\ AclDisconnected(e.device)
    BY <1>5, <2>1, LinkCount
  <2>3. CASE count - 1 <= 0 /\ AllGone
    <3>1. Cardinality(l2) = 0
      BY <1>0, <1>2, <2>2, <2>3
    <3>2. l2 = {} /\ r2 = {}
      BY <1>0, <2>1, <3>1
    <3>3. addrs' = {} /\ icon' = "none" /\ off' = TRUE /\ count' = 0
      BY <2>3 DEF AllGone
    <3> QED BY <3>1, <3>2, <3>3 DEF Agrees
  <2>4. CASE /\ count - 1 > 0 /\ addrs \ {e.device} # {}
             /\ addrs' = addrs \ {e.device} /\ count' = count - 1 /\ off' = FALSE
             /\ UNCHANGED outputs
    <3>1. count' = Cardinality(l2) /\ Cardinality(l2) # 0
      BY <1>0, <1>2, <2>2, <2>4
    <3>2. l2 # {} /\ r2 \subseteq addrs' /\ addrs' # {} /\ icon' = icon /\ hidden' = hidden /\ l # {}
      BY <1>0, <1>2, <2>1, <2>4, <3>1 DEF outputs
    <3>3. (late' <=> late) /\ (~late => addrs' = r2)
      BY <1>2, <1>5, <2>1, <2>4
    <3> QED BY <1>2, <3>1, <3>2, <3>3 DEF Agrees
  <2>5. CASE /\ count - 1 > 0 /\ addrs \ {e.device} = {}
             /\ addrs' = {} /\ count' = count - 1 /\ off' = TRUE
             /\ UpdateBatteryLevel("unknown")
    <3>1. count' = Cardinality(l2) /\ Cardinality(l2) # 0
      BY <1>0, <1>2, <2>2, <2>5
    <3>2. l2 # {} /\ addrs' = r2 /\ icon' = "connected" /\ hidden' = TRUE
      BY <1>0, <1>2, <2>1, <2>5, <3>1 DEF UpdateBatteryLevel
    <3> QED BY <2>5, <3>1, <3>2 DEF Agrees
  <2> QED BY <2>2, <2>3, <2>4, <2>5 DEF AclDisconnected
<1>6. CASE e.type = "battery"
  <2>1. /\ l2 = l /\ e.level \in Levels /\ BatteryLevelChanged(e.device, e.level)
        /\ \/ (e.level = "unknown" \/ e.gone) /\ r2 = r
           \/ e.level # "unknown" /\ ~e.gone /\ e.device \in l /\ r2 = r \cup {e.device}
    BY <1>6 DEF Tells
  <2>2. /\ UNCHANGED <<count, off>> /\ (e.level # "unknown" => addrs' # {})
        /\ (addrs # {} => addrs' # {}) /\ r2 \subseteq addrs'
    BY <1>2, <2>1 DEF BatteryLevelChanged
  <2>5. /\ late' => addrs' # {}
        /\ ~late' => ~late /\ addrs' = r2
    <3>1. CASE e.level = "unknown"
      BY <1>2, <1>6, <2>1, <3>1 DEF BatteryLevelChanged
    <3>2. CASE e.level # "unknown" /\ e.gone
      BY <1>6, <2>2, <3>2
    <3>3. CASE e.level # "unknown" /\ ~e.gone
      BY <1>2, <1>6, <2>1, <2>2, <3>3 DEF BatteryLevelChanged
    <3> QED BY <3>1, <3>2, <3>3
  <2>3. CASE off
    <3>1. icon' = icon /\ hidden' = hidden
      BY <2>1, <2>3 DEF BatteryLevelChanged, outputs
    <3> QED BY <1>2, <2>1, <2>2, <2>3, <2>5, <3>1 DEF Agrees
  <2>4. CASE ~off
    <3>1. /\ hidden' = TRUE /\ icon' \in {"connected", "blank", "battery"}
          /\ (icon' \in {"blank", "battery"} => e.level # "unknown")
      BY <2>1, <2>4 DEF BatteryLevelChanged, UpdateBatteryLevel, Levels
    <3> QED BY <1>2, <2>1, <2>2, <2>4, <2>5, <3>1 DEF Agrees
  <2> QED BY <2>3, <2>4
<1> QED BY <1>3, <1>4, <1>5, <1>6

\* The radio changes and says so: the history grows, or without a receiver it
\* has nothing to explain.
LEMMA Sending ==
  ASSUME IInv, NEW e \in Events, Sends(e), links' \subseteq Devices, reported' \subseteq links',
         Tells(e, links, reported, links', reported'),
         missed => missed',
         ~listening /\ ~missed' => links' = links /\ reported' = reported
  PROVE  HistoryInv' /\ queue' \in Seq(Events)
<1>1. PICK L, R \in [0 .. Len(queue) -> SUBSET Devices] :
        History(queue, links, reported, L, R) /\ Agrees(L[0], R[0])
  BY DEF IInv, HistoryInv
<1>2. queue \in Seq(Events) /\ UNCHANGED <<off, addrs, count, icon, hidden, late>>
  BY DEF IInv, TypeOK, Sends, fields, outputs
<1>3. Agrees(L[0], R[0])'
  BY <1>1, <1>2 DEF Agrees
<1>4. CASE listening
  <2>1. queue' = Append(queue, e) /\ queue' \in Seq(Events)
    BY <1>2, <1>4, AppendProperties DEF Sends
  <2>2. PICK l2, r2 : l2 = links' /\ r2 = reported'
    OBVIOUS
  <2>3. l2 \in SUBSET Devices /\ r2 \in SUBSET l2 /\ Tells(e, links, reported, l2, r2)
    BY <2>2
  <2>4. PICK L2, R2 \in [0 .. Len(Append(queue, e)) -> SUBSET Devices] :
          History(Append(queue, e), l2, r2, L2, R2) /\ L2[0] = L[0] /\ R2[0] = R[0]
    BY <1>1, <1>2, <2>3, HistoryAppend
  <2>5. History(queue', links', reported', L2, R2) /\ Agrees(L2[0], R2[0])'
    BY <1>3, <2>1, <2>2, <2>4
  <2> QED BY <2>1, <2>4, <2>5 DEF HistoryInv
<1>5. CASE ~listening
  <2>1. queue = << >> /\ queue' = << >> /\ Len(queue') = 0 /\ queue' \in Seq(Events)
    BY <1>2, <1>5 DEF IInv, RadioInv, Sends
  <2>2. PICK l2, r2 : l2 = links' /\ r2 = reported'
    OBVIOUS
  <2> DEFINE L2 == [k \in 0 .. 0 |-> l2]
             R2 == [k \in 0 .. 0 |-> r2]
  <2>3. /\ L2 \in [0 .. 0 -> SUBSET Devices] /\ R2 \in [0 .. 0 -> SUBSET Devices]
        /\ L2[0] = l2 /\ R2[0] = r2
    BY <2>2
  <2> HIDE DEF L2, R2
  <2>4. History(queue', links', reported', L2, R2)
    BY <2>1, <2>2, <2>3 DEF History
  <2>5. ~missed' => l2 = L[0] /\ r2 = R[0]
    <3>1. L[0] = links /\ R[0] = reported
      BY <1>1, <2>1 DEF History
    <3> QED BY <1>5, <2>2, <3>1
  <2>6. Agrees(L2[0], R2[0])'
    BY <1>3, <2>3, <2>5 DEF Agrees
  <2> QED BY <2>1, <2>3, <2>4, <2>6 DEF HistoryInv
<1> QED BY <1>4, <1>5

LEMMA IInvNext == IInv /\ [Next]_vars => IInv'
<1> SUFFICES ASSUME IInv, [Next]_vars PROVE IInv'
  OBVIOUS
<1>0. TypeOK /\ RadioInv /\ HistoryInv
  BY DEF IInv
<1>1. CASE OnReceive
  <2>1. PICK e : e = Head(queue)
    OBVIOUS
  <2>2. /\ queue # << >> /\ queue' = Tail(queue)
        /\ \/ e.type \in {"on", "off"} /\ StateChanged(e.type)
           \/ e.type = "connected" /\ AclConnected
           \/ e.type = "disconnected" /\ AclDisconnected(e.device)
           \/ e.type = "battery" /\ BatteryLevelChanged(e.device, e.level)
        /\ missed' = (missed /\ e.type # "off")
        /\ late' = (addrs' # {} /\ (late \/ (e.type = "battery" /\ e.level # "unknown" /\ e.gone)))
        /\ UNCHANGED <<listening, adapter, links, reported>>
    BY <1>1, <2>1 DEF OnReceive, radio
  <2>3. PICK L, R \in [0 .. Len(queue) -> SUBSET Devices] :
          History(queue, links, reported, L, R) /\ Agrees(L[0], R[0])
    BY <1>0 DEF HistoryInv
  <2>4. /\ Tells(e, L[0], R[0], L[1], R[1])
        /\ L[0] \subseteq Devices /\ R[0] \subseteq L[0] /\ L[1] \subseteq Devices
        /\ \E L2, R2 \in [0 .. Len(Tail(queue)) -> SUBSET Devices] :
             History(Tail(queue), links, reported, L2, R2) /\ L2[0] = L[1] /\ R2[0] = R[1]
    <3>1. queue \in Seq(Events) /\ queue # << >>
      BY <1>0, <2>2 DEF TypeOK
    <3>2. History(queue, links, reported, L, R)
      BY <2>3
    <3> QED BY <2>1, <3>1, <3>2, HistoryTail
  <2>5. Agrees(L[1], R[1])'
    <3>1. PICK l, r, l2, r2 : l = L[0] /\ r = R[0] /\ l2 = L[1] /\ r2 = R[1]
      OBVIOUS
    <3>2. Agrees(l2, r2)'
      BY <1>0, <2>2, <2>3, <2>4, <3>1, Handles
    <3> QED BY <3>1, <3>2
  <2>6. HistoryInv'
    <3>1. PICK L2, R2 \in [0 .. Len(Tail(queue)) -> SUBSET Devices] :
            History(Tail(queue), links, reported, L2, R2) /\ L2[0] = L[1] /\ R2[0] = R[1]
      BY <2>4
    <3>2. History(queue', links', reported', L2, R2) /\ Agrees(L2[0], R2[0])'
      BY <2>2, <2>5, <3>1
    <3> QED BY <2>2, <3>1, <3>2 DEF HistoryInv
  <2>7. RadioInv'
    BY <1>0, <2>2 DEF RadioInv
  <2>8. TypeOK'
    <3>1. queue' \in Seq(Events) /\ missed' \in BOOLEAN
      BY <1>0, <2>2, HeadTailProperties DEF TypeOK
    <3>2. e.type = "battery" => e.level \in Levels /\ e.device \in Devices
      BY <2>4 DEF Tells
    <3>3. /\ off' \in BOOLEAN /\ addrs' \subseteq Devices /\ count' \in Nat
          /\ icon' \in Icons /\ hidden' \in BOOLEAN
      <4>1. /\ off \in BOOLEAN /\ addrs \subseteq Devices /\ count \in Nat
            /\ icon \in Icons /\ hidden \in BOOLEAN
        BY <1>0 DEF TypeOK
      <4>2. CASE e.type \in {"on", "off"} /\ StateChanged(e.type)
        BY <4>1, <4>2 DEF StateChanged, AllGone, fields, Icons
      <4>3. CASE e.type = "connected" /\ AclConnected
        <5>1. count' = count + 1 /\ off' = FALSE /\ addrs' = addrs
          BY <4>3 DEF AclConnected
        <5>2. icon' \in Icons /\ hidden' \in BOOLEAN
          BY <4>1, <4>3 DEF AclConnected, UpdateBatteryLevel, outputs, Icons
        <5>3. count' \in Nat
          BY <4>1, <5>1
        <5> QED BY <4>1, <5>1, <5>2, <5>3
      <4>4. CASE e.type = "disconnected" /\ AclDisconnected(e.device)
        <5>1. /\ count' = 0 \/ (count - 1 > 0 /\ count' = count - 1)
              /\ addrs' \subseteq Devices /\ off' \in BOOLEAN
          BY <4>1, <4>4 DEF AclDisconnected, AllGone
        <5>2. icon' \in Icons /\ hidden' \in BOOLEAN
          BY <4>1, <4>4 DEF AclDisconnected, AllGone, UpdateBatteryLevel, outputs, Icons
        <5>3. count' \in Nat
          BY <4>1, <5>1
        <5> QED BY <5>1, <5>2, <5>3
      <4>5. CASE e.type = "battery" /\ BatteryLevelChanged(e.device, e.level)
        <5>1. UNCHANGED <<count, off>> /\ addrs' \subseteq Devices
          BY <3>2, <4>1, <4>5 DEF BatteryLevelChanged
        <5>2. icon' \in Icons /\ hidden' \in BOOLEAN
          BY <3>2, <4>1, <4>5 DEF BatteryLevelChanged, UpdateBatteryLevel, outputs, Icons, Levels
        <5> QED BY <4>1, <5>1, <5>2
      <4> QED BY <2>2, <4>2, <4>3, <4>4, <4>5
    <3>4. late' \in BOOLEAN
      BY <2>2
    <3> QED BY <1>0, <2>2, <3>1, <3>3, <3>4 DEF TypeOK
  <2> QED BY <2>6, <2>7, <2>8 DEF IInv
<1>2. CASE OnStartup
  <2>1. /\ listening' = TRUE
        /\ UNCHANGED <<off, addrs, count, icon, hidden, adapter, links, reported, queue, missed, late>>
    BY <1>2 DEF OnStartup, fields, outputs, radio
  <2>2. TypeOK' /\ RadioInv'
    BY <1>0, <2>1 DEF TypeOK, RadioInv
  <2>3. HistoryInv'
    BY <1>0, <2>1 DEF HistoryInv, Agrees
  <2> QED BY <2>2, <2>3 DEF IInv
<1>3. CASE OnClose
  <2>1. /\ listening' = FALSE /\ off' = TRUE /\ addrs' = {} /\ count' = 0 /\ queue' = << >> /\ late' = FALSE
        /\ missed' = (missed \/ links # {} \/ queue # << >>)
        /\ UNCHANGED <<icon, hidden, adapter, links, reported>>
    BY <1>3 DEF OnClose, outputs, radio
  <2>2. TypeOK'
    <3>1. count' \in Nat /\ queue' \in Seq(Events) /\ missed' \in BOOLEAN
      BY <1>0, <2>1 DEF TypeOK
    <3> QED BY <1>0, <2>1, <3>1 DEF TypeOK
  <2>3. RadioInv'
    BY <1>0, <2>1 DEF RadioInv
  <2>4. HistoryInv'
    <3>1. PICK L, R \in [0 .. Len(queue) -> SUBSET Devices] :
            History(queue, links, reported, L, R) /\ Agrees(L[0], R[0])
      BY <1>0 DEF HistoryInv
    <3>2. PICK l2, r2 : l2 = links' /\ r2 = reported'
      OBVIOUS
    <3> DEFINE L2 == [k \in 0 .. 0 |-> l2]
               R2 == [k \in 0 .. 0 |-> r2]
    <3>3. /\ L2 \in [0 .. 0 -> SUBSET Devices] /\ R2 \in [0 .. 0 -> SUBSET Devices]
          /\ L2[0] = l2 /\ R2[0] = r2 /\ r2 \subseteq l2
      BY <1>0, <2>1, <3>2 DEF TypeOK
    <3> HIDE DEF L2, R2
    <3>4. Len(queue') = 0
      BY <2>1
    <3>5. History(queue', links', reported', L2, R2)
      BY <3>2, <3>3, <3>4 DEF History
    <3>6. Agrees(l2, r2)'
      <4> SUFFICES ASSUME ~missed' PROVE Agrees(l2, r2)'
        BY DEF Agrees
      <4>1. ~missed /\ links = {} /\ queue = << >> /\ Len(queue) = 0
        BY <2>1
      <4>2. L[0] = {} /\ l2 = {} /\ r2 = {}
        BY <2>1, <3>1, <3>2, <3>3, <4>1 DEF History
      <4>3. Cardinality({}) = 0
        BY FS_EmptySet
      <4>4. icon = "none"
        BY <3>1, <4>1, <4>2 DEF Agrees
      <4> QED BY <2>1, <4>2, <4>3, <4>4 DEF Agrees
    <3> QED BY <3>3, <3>4, <3>5, <3>6 DEF HistoryInv
  <2> QED BY <2>2, <2>3, <2>4 DEF IInv
<1>4. CASE AdapterSwitched
  <2> DEFINE e == [type |-> IF adapter THEN "off" ELSE "on"]
  <2>1. /\ adapter' = ~adapter /\ links' = {} /\ reported' = {} /\ Sends(e)
        /\ missed' = (missed \/ (~listening /\ links # {}))
        /\ UNCHANGED <<listening, off, addrs, count, icon, hidden, late>>
    BY <1>4 DEF AdapterSwitched, Sends, fields, outputs
  <2>2. e \in Events
    BY <1>0 DEF Events, TypeOK
  <2>3. Tells(e, links, reported, links', reported')
    BY <1>0, <2>1 DEF Tells, TypeOK, RadioInv
  <2>4. ~listening /\ ~missed' => links' = links /\ reported' = reported
    BY <1>0, <2>1 DEF TypeOK
  <2> HIDE DEF e
  <2>5. HistoryInv' /\ queue' \in Seq(Events)
    BY <2>1, <2>2, <2>3, <2>4, Sending
  <2>6. TypeOK'
    BY <1>0, <2>1, <2>5 DEF TypeOK
  <2>7. RadioInv'
    BY <1>0, <2>1 DEF RadioInv, Sends
  <2> QED BY <2>5, <2>6, <2>7 DEF IInv
<1>5. ASSUME NEW d \in Devices, DeviceConnects(d) PROVE IInv'
  <2> DEFINE e == [type |-> "connected", device |-> d]
  <2>1. /\ adapter /\ d \notin links /\ links' = links \cup {d} /\ Sends(e)
        /\ missed' = (missed \/ ~listening)
        /\ UNCHANGED <<adapter, reported, listening, off, addrs, count, icon, hidden, late>>
    BY <1>5 DEF DeviceConnects, Sends, fields, outputs
  <2>2. e \in Events
    BY DEF Events
  <2>3. Tells(e, links, reported, links', reported')
    BY <2>1 DEF Tells
  <2> HIDE DEF e
  <2>4. links' \subseteq Devices /\ reported' \subseteq links'
    BY <1>0, <2>1 DEF TypeOK
  <2>5. HistoryInv' /\ queue' \in Seq(Events)
    BY <2>1, <2>2, <2>3, <2>4, Sending
  <2>6. TypeOK'
    BY <1>0, <2>1, <2>4, <2>5 DEF TypeOK
  <2>7. RadioInv'
    <3>1. adapter'
      BY <1>0, <2>1 DEF RadioInv
    <3>2. ~listening => queue' = << >>
      BY <1>0, <2>1 DEF RadioInv, Sends
    <3>3. ~listening => missed'
      BY <2>1
    <3> QED BY <2>1, <3>1, <3>2, <3>3 DEF RadioInv
  <2> QED BY <2>5, <2>6, <2>7 DEF IInv
<1>6. ASSUME NEW d \in Devices, DeviceDisconnects(d) PROVE IInv'
  <2> DEFINE e == [type |-> "disconnected", device |-> d]
  <2>1. /\ d \in links /\ links' = links \ {d} /\ reported' = reported \ {d} /\ Sends(e)
        /\ missed' = (missed \/ ~listening)
        /\ UNCHANGED <<adapter, listening, off, addrs, count, icon, hidden, late>>
    BY <1>6 DEF DeviceDisconnects, Sends, fields, outputs
  <2>2. e \in Events
    BY DEF Events
  <2>3. Tells(e, links, reported, links', reported')
    BY <2>1 DEF Tells
  <2> HIDE DEF e
  <2>4. links' \subseteq Devices /\ reported' \subseteq links'
    BY <1>0, <2>1 DEF TypeOK
  <2>5. HistoryInv' /\ queue' \in Seq(Events)
    BY <2>1, <2>2, <2>3, <2>4, Sending
  <2>6. TypeOK'
    BY <1>0, <2>1, <2>4, <2>5 DEF TypeOK
  <2>7. RadioInv'
    <3>1. adapter'
      BY <1>0, <2>1 DEF RadioInv
    <3>2. ~listening => queue' = << >>
      BY <1>0, <2>1 DEF RadioInv, Sends
    <3>3. ~listening => missed'
      BY <2>1
    <3> QED BY <2>1, <3>1, <3>2, <3>3 DEF RadioInv
  <2> QED BY <2>5, <2>6, <2>7 DEF IInv
<1>7. ASSUME NEW d \in Devices, NEW level \in Levels, BatteryReport(d, level) PROVE IInv'
  <2> DEFINE e == [type |-> "battery", device |-> d, level |-> level, gone |-> d \notin links]
  <2>1. /\ reported' = (IF d \in links /\ level # "unknown" THEN reported \cup {d} ELSE reported)
        /\ Sends(e)
        /\ UNCHANGED <<adapter, links, missed, listening, off, addrs, count, icon, hidden, late>>
    BY <1>7 DEF BatteryReport, Sends, fields, outputs
  <2>2. e \in Events
    BY DEF Events
  <2>3. Tells(e, links, reported, links', reported')
    <3>1. /\ e.type = "battery" /\ links' = links /\ e.level \in Levels /\ e.device \in Devices
          /\ e.level = level /\ e.device = d /\ (e.gone <=> d \notin links)
      BY <2>1
    <3> QED BY <2>1, <3>1 DEF Tells
  <2> HIDE DEF e
  <2>4. links' \subseteq Devices /\ reported' \subseteq links'
    BY <1>0, <2>1 DEF TypeOK
  <2>5. ~listening /\ ~missed' => links' = links /\ reported' = reported
    BY <1>0, <2>1 DEF RadioInv
  <2>6. HistoryInv' /\ queue' \in Seq(Events)
    BY <2>1, <2>2, <2>3, <2>4, <2>5, Sending
  <2>7. TypeOK'
    BY <1>0, <2>1, <2>4, <2>6 DEF TypeOK
  <2>8. RadioInv'
    BY <1>0, <2>1 DEF RadioInv, Sends
  <2> QED BY <2>6, <2>7, <2>8 DEF IInv
<1>8. CASE UNCHANGED vars
  <2>1. UNCHANGED <<listening, off, addrs, count, icon, hidden, adapter, links, reported, queue, missed, late>>
    BY <1>8 DEF vars, fields, outputs, radio
  <2>2. TypeOK' /\ RadioInv'
    BY <1>0, <2>1 DEF TypeOK, RadioInv
  <2>3. HistoryInv'
    BY <1>0, <2>1 DEF HistoryInv, Agrees
  <2> QED BY <2>2, <2>3 DEF IInv
<1> QED BY <1>1, <1>2, <1>3, <1>4, <1>5, <1>6, <1>7, <1>8 DEF Next

-----------------------------------------------------------------------------
\* The inductive invariant holds in every state of every behaviour.
LEMMA Inductive == Spec => []IInv
BY IInvInit, IInvNext, PTL DEF Spec

\* When nothing is in flight the history is a single entry, the present.
LEMMA NothingInFlight == IInv /\ queue = << >> => Agrees(links, reported)
<1> SUFFICES ASSUME IInv, queue = << >> PROVE Agrees(links, reported)
  OBVIOUS
<1>1. PICK L, R \in [0 .. Len(queue) -> SUBSET Devices] :
        History(queue, links, reported, L, R) /\ Agrees(L[0], R[0])
  BY DEF IInv, HistoryInv
<1>2. Len(queue) = 0
  OBVIOUS
<1>3. L[0] = links /\ R[0] = reported
  BY <1>1, <1>2 DEF History
<1> QED BY <1>1, <1>3

\* Every variable keeps its type; bluetoothDeviceConnected never gets negative.
THEOREM TypeCorrect == Spec => []TypeOK
<1>1. IInv => TypeOK
  BY DEF IInv
<1> QED BY <1>1, Inductive, PTL

\* bluetoothDeviceConnected does not drift over any number of devices, links,
\* adapter changes and process deaths.
THEOREM CountIsRight == Spec => []CountFollows
<1>1. IInv => CountFollows
  BY NothingInFlight DEF CountFollows, Settled, Agrees
<1> QED BY <1>1, Inductive, PTL

\* mBluetoothReceiver never leaves the icon without a device, shows it in place
\* of the default one, and while a device is connected it does show it, a level
\* received after its device had gone excepted.
THEOREM IconIsRight == Spec => []IconFollows
<1>1. IInv => IconFollows
  BY NothingInFlight DEF IconFollows, Settled, Agrees
<1> QED BY <1>1, Inductive, PTL

\* updateBatteryLevel's battery is that of a device still connected.
THEOREM BatteryIsRight == Spec => []BatteryIsThere
<1>1. IInv => BatteryIsThere
  BY NothingInFlight DEF BatteryIsThere, Settled, Agrees
<1> QED BY <1>1, Inductive, PTL
=============================================================================
