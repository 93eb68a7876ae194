-------------------------- MODULE ImsIcons_proofs ---------------------------
(* For any set of icons and any finite set of subscriptions, the objects of  *)
(* MainService follow the subscriptions and the icons follow preferences,    *)
(* objects and IMS.                                                          *)
EXTENDS ImsIcons, FiniteSetTheorems, SequenceTheorems, TLAPS

Late == "late" \in irregular

\* What MainService believes about itself: a process that is not running has
\* nothing, a connected service listens exactly when an icon is wanted, and
\* before telephony is ready there is nothing to show.
ServiceInv ==
  /\ ~Alive => objs = << >> /\ ~listening /\ ~mainTodo
  /\ svc = "connected" => (listening <=> Wants(pref))
  /\ ~ready => active = {} /\ \A s \in Subs : available[s] = {}

OnePerSub(os) ==
  \A i, j \in DOMAIN os : os[i].open /\ os[j].open /\ os[i].sub = os[j].sub => i = j

\* The map: one object per subscription; with the listener removed it is empty
\* even while an event is still posted, unless that event has run.
MapInv ==
  /\ OnePerSub(objs)
  /\ svc = "connected" /\ ~Late /\ ~listening => \A i \in DOMAIN objs : ~objs[i].open
  /\ svc = "connected" /\ ~Late /\ listening /\ ~mainTodo => Open(objs) = active

\* An object: confirmation runnables end with it, and it counts as enabled only
\* with both callbacks registered.
ObjectInv ==
  \A i \in DOMAIN objs : /\ ~Late => (objs[i].checks => objs[i].open)
                         /\ objs[i].enabled => objs[i].regs = Callbacks

IInv == TypeOK /\ ServiceInv /\ MapInv /\ ObjectInv 
        /\ IconsHaveObjects /\ IconsAreWanted /\ IconsFollowIms

-----------------------------------------------------------------------------
(* The operators of the model.                                               *)

LEMMA OpenMeans ==
  ASSUME NEW os, NEW s
  PROVE  s \in Open(os) <=> \E i \in DOMAIN os : os[i].open /\ os[i].sub = s
BY DEF Open

\* The list of a finite set has every member once.
LEMMA Listed ==
  ASSUME NEW S, IsFiniteSet(S)
  PROVE  /\ SetToSeq(S) \in Seq(S)
         /\ DOMAIN SetToSeq(S) = 1 .. Len(SetToSeq(S))
         /\ \A i, j \in DOMAIN SetToSeq(S) : SetToSeq(S)[i] = SetToSeq(S)[j] => i = j
         /\ \A x \in S : \E i \in DOMAIN SetToSeq(S) : SetToSeq(S)[i] = x
<1> DEFINE n == Cardinality(S)
<1> DEFINE q == SetToSeq(S)
<1>1. n \in Nat /\ ExistsBijection(1 .. n, S)
  BY FS_CardinalityType
<1>2. PICK f \in Bijection(1 .. n, S) : TRUE
  BY <1>1 DEF ExistsBijection
<1>3. f \in [1 .. n -> S] /\ IsInjective(f)
  BY <1>2 DEF Bijection, Injection, Surjection, IsInjective
<1>4. q \in [1 .. n -> S] /\ IsInjective(q)
  BY <1>3 DEF SetToSeq
<1>5. q \in Seq(S) /\ DOMAIN q = 1 .. Len(q)
  BY <1>1, <1>4
<1>6. q \in Injection(1 .. n, S)
  BY <1>4 DEF Injection, IsInjective
<1>7. IsFiniteSet(1 .. n) /\ Cardinality(1 .. n) = n
  BY <1>1, FS_Interval
<1>8. q \in Surjection(1 .. n, S)
  BY <1>6, <1>7, FS_Injection
<1> HIDE DEF q
<1> QED
  BY <1>4, <1>5, <1>8 DEF IsInjective, Surjection, q

\* What becomes of an object.
LEMMA Closed ==
  ASSUME NEW o \in Objects
  PROVE  /\ OnClose(o) \in Objects /\ OnClose(o).sub = o.sub
         /\ ~OnClose(o).open /\ ~OnClose(o).enabled /\ ~OnClose(o).checks
BY DEF OnClose, Objects

LEMMA Refreshed ==
  ASSUME NEW o \in Objects
  PROVE  /\ Refresh(o) \in Objects /\ Refresh(o).sub = o.sub /\ Refresh(o).open = o.open
         /\ Refresh(o).enabled = o.enabled /\ Refresh(o).regs = o.regs
         /\ Refresh(o).todo = o.todo
BY DEF Refresh, Objects

LEMMA Started ==
  ASSUME TypeOK, NEW s \in Subs
  PROVE  /\ OnStartup(s) \in Objects /\ OnStartup(s).sub = s /\ OnStartup(s).open
         /\ ~OnStartup(s).enabled /\ OnStartup(s).checks
BY DEF OnStartup, Objects, TypeOK

-----------------------------------------------------------------------------
(* manageImsIcons.                                                           *)

\* m is what manageImsIcons(true) makes of objs.
Managed(m) ==
  /\ m \in Seq(Objects) /\ DOMAIN objs \subseteq DOMAIN m
  /\ \A i \in DOMAIN objs :
       /\ objs[i].open /\ objs[i].sub \notin active => m[i] = OnClose(objs[i])
       /\ ~(objs[i].open /\ objs[i].sub \notin active) => m[i] = objs[i]
  /\ \A i \in DOMAIN m \ DOMAIN objs : \E s \in active \ Open(objs) : m[i] = OnStartup(s)
  /\ \A i, j \in DOMAIN m \ DOMAIN objs : m[i].sub = m[j].sub => i = j
  /\ \A s \in active \ Open(objs) : \E i \in DOMAIN m \ DOMAIN objs : m[i] = OnStartup(s)

LEMMA ManageOnManages ==
  ASSUME TypeOK
  PROVE  Managed(ManageOn(objs))
<1> DEFINE gone == active \ Open(objs)
<1> DEFINE q == New(objs)
<1> DEFINE a == [i \in DOMAIN objs |->
                   IF objs[i].open /\ objs[i].sub \notin active THEN OnClose(objs[i]) ELSE objs[i]]
<1> DEFINE b == [i \in DOMAIN q |-> OnStartup(q[i])]
<1> DEFINE m == a \o b
<1>1. m = ManageOn(objs)
  BY DEF ManageOn
<1>2. gone \subseteq Subs /\ IsFiniteSet(gone)
  <2>1. gone \in SUBSET Subs
    BY DEF TypeOK
  <2>2. IsFiniteSet(Subs)
    BY ImsAssumption
  <2> QED
    BY <2>1, <2>2, FS_Subset
<1>3. /\ q \in Seq(gone) /\ DOMAIN q = 1 .. Len(q)
      /\ \A i, j \in DOMAIN q : q[i] = q[j] => i = j
      /\ \A x \in gone : \E i \in DOMAIN q : q[i] = x
  BY <1>2, Listed DEF New
<1>4. objs \in Seq(Objects) /\ DOMAIN objs = 1 .. Len(objs) /\ Len(objs) \in Nat
  BY DEF TypeOK
<1>5. a \in Seq(Objects) /\ Len(a) = Len(objs)
  <2>1. \A i \in 1 .. Len(objs) : objs[i] \in Objects /\ OnClose(objs[i]) \in Objects
    BY <1>4, Closed
  <2>2. a \in [1 .. Len(objs) -> Objects]
    BY <1>4, <2>1
  <2> QED
    BY <1>4, <2>2
<1>6. Len(q) \in Nat /\ \A i \in DOMAIN q : q[i] \in gone
  BY <1>3
<1>7. b \in Seq(Objects) /\ Len(b) = Len(q)
  <2>1. \A i \in 1 .. Len(q) : OnStartup(q[i]) \in Objects
    BY <1>2, <1>3, <1>6, Started
  <2>2. b \in [1 .. Len(q) -> Objects]
    BY <1>3, <2>1
  <2> QED
    BY <1>6, <2>2
<1>8. /\ m \in Seq(Objects) /\ Len(m) = Len(objs) + Len(q)
      /\ \A i \in 1 .. Len(objs) : m[i] = a[i]
      /\ \A k \in 1 .. Len(q) : m[Len(objs) + k] = b[k]
  <2> HIDE DEF a, b
  <2>1. m \in Seq(Objects) /\ Len(m) = Len(a) + Len(b)
    BY <1>5, <1>7, ConcatProperties
  <2>2. \A i \in 1 .. Len(m) : m[i] = IF i <= Len(a) THEN a[i] ELSE b[i - Len(a)]
    BY <1>5, <1>7, ConcatProperties
  <2> HIDE DEF m
  <2> QED
    BY <1>4, <1>5, <1>6, <1>7, <2>1, <2>2
<1>9. \A k \in DOMAIN q : b[k] = OnStartup(q[k])
  OBVIOUS
<1>10. DOMAIN m = 1 .. Len(objs) + Len(q)
  BY <1>8
<1>11. \A i \in DOMAIN m \ DOMAIN objs :
         \E k \in DOMAIN q : i = Len(objs) + k /\ m[i] = OnStartup(q[k])
  <2> TAKE i \in DOMAIN m \ DOMAIN objs
  <2> DEFINE k == i - Len(objs)
  <2>1. k \in 1 .. Len(q) /\ i = Len(objs) + k
    BY <1>4, <1>6, <1>10
  <2>2. k \in DOMAIN q /\ m[Len(objs) + k] = b[k]
    BY <1>3, <1>8, <2>1
  <2>3. b[k] = OnStartup(q[k])
    BY <2>2
  <2>4. m[i] = OnStartup(q[k])
    BY <2>1, <2>2, <2>3
  <2> HIDE DEF k, m, q
  <2> QED
    BY <2>1, <2>2, <2>4
<1>12. DOMAIN objs \subseteq DOMAIN m
  BY <1>4, <1>6, <1>10
<1>13. \A i \in DOMAIN objs : m[i] = a[i]
  BY <1>4, <1>8
<1>14. \A i \in DOMAIN m \ DOMAIN objs : \E s \in gone : m[i] = OnStartup(s)
  BY <1>6, <1>11
<1>15. \A i, j \in DOMAIN m \ DOMAIN objs : m[i].sub = m[j].sub => i = j
  <2> TAKE i, j \in DOMAIN m \ DOMAIN objs
  <2>1. PICK k \in DOMAIN q : i = Len(objs) + k /\ m[i] = OnStartup(q[k])
    BY <1>11
  <2>2. PICK l \in DOMAIN q : j = Len(objs) + l /\ m[j] = OnStartup(q[l])
    BY <1>11
  <2>3. m[i].sub = q[k] /\ m[j].sub = q[l]
    BY <1>2, <1>6, <2>1, <2>2, Started
  <2> QED
    BY <1>3, <2>1, <2>2, <2>3
<1>16. \A s \in gone : \E i \in DOMAIN m \ DOMAIN objs : m[i] = OnStartup(s)
  <2> TAKE s \in gone
  <2>1. PICK k \in DOMAIN q : q[k] = s
    BY <1>3
  <2>2. k \in 1 .. Len(q)
    BY <1>3
  <2>3. Len(objs) + k \in DOMAIN m \ DOMAIN objs
    BY <1>4, <1>6, <1>10, <2>2
  <2>4. m[Len(objs) + k] = OnStartup(s)
    BY <1>8, <1>9, <2>1, <2>2
  <2> QED
    BY <2>3, <2>4
<1> HIDE DEF m, q
<1> QED
  BY <1>1, <1>4, <1>8, <1>12, <1>13, <1>14, <1>15, <1>16 DEF Managed

\* Afterwards the map has one object for every active subscription.
LEMMA ManagedMap ==
  ASSUME TypeOK, OnePerSub(objs), NEW m, Managed(m)
  PROVE  OnePerSub(m) /\ Open(m) = active
<1>1. \A i \in DOMAIN objs :
        /\ objs[i] \in Objects
        /\ m[i].open => m[i] = objs[i] /\ objs[i].sub \in active
        /\ objs[i].open /\ objs[i].sub \in active => m[i] = objs[i]
  BY Closed DEF Managed, TypeOK
<1>2. \A i \in DOMAIN m \ DOMAIN objs :
        m[i].open /\ m[i].sub \in active /\ m[i].sub \notin Open(objs)
  BY Started DEF Managed, TypeOK
<1>3. \A i \in DOMAIN objs : objs[i].open => objs[i].sub \in Open(objs)
  BY OpenMeans
<1>4. OnePerSub(m)
  <2> SUFFICES ASSUME NEW i \in DOMAIN m, NEW j \in DOMAIN m,
                      m[i].open, m[j].open, m[i].sub = m[j].sub
               PROVE  i = j
    BY DEF OnePerSub
  <2>1. CASE i \in DOMAIN objs /\ j \in DOMAIN objs
    BY <1>1, <2>1 DEF OnePerSub
  <2>2. CASE i \notin DOMAIN objs /\ j \notin DOMAIN objs
    BY <2>2 DEF Managed
  <2>3. CASE i \in DOMAIN objs /\ j \notin DOMAIN objs
    BY <1>1, <1>2, <1>3, <2>3
  <2>4. CASE i \notin DOMAIN objs /\ j \in DOMAIN objs
    BY <1>1, <1>2, <1>3, <2>4
  <2> QED
    BY <2>1, <2>2, <2>3, <2>4
<1>5. \A s \in Open(m) : s \in active
  <2> SUFFICES ASSUME NEW s \in Open(m) PROVE s \in active
    OBVIOUS
  <2>1. PICK i \in DOMAIN m : m[i].open /\ m[i].sub = s
    BY OpenMeans
  <2> QED
    BY <1>1, <1>2, <2>1
<1>6. \A s \in active : s \in Open(m)
  <2> SUFFICES ASSUME NEW s \in active PROVE \E i \in DOMAIN m : m[i].open /\ m[i].sub = s
    BY OpenMeans
  <2>1. CASE s \in Open(objs)
    <3>1. PICK i \in DOMAIN objs : objs[i].open /\ objs[i].sub = s
      BY <2>1, OpenMeans
    <3> QED
      BY <1>1, <3>1 DEF Managed
  <2>2. CASE s \notin Open(objs)
    <3>1. PICK i \in DOMAIN m \ DOMAIN objs : m[i] = OnStartup(s)
      BY <2>2 DEF Managed
    <3> QED
      BY <3>1, Started DEF TypeOK
  <2> QED
    BY <2>1, <2>2
<1> QED
  BY <1>4, <1>5, <1>6

\* The object's own subscription listener: it is enabled with both callbacks or
\* not at all, and has a callback posted when it has just been enabled.
LEMMA SubscriptionsHandled ==
  ASSUME NEW o \in Objects, NEW outcome \in Outcomes, o.enabled => o.regs = Callbacks
  PROVE  LET r == OnSubscriptionsChanged(o, outcome)
         IN  /\ r \in Objects /\ r.sub = o.sub /\ r.open = o.open /\ r.checks = o.checks
             /\ r.enabled => r.regs = Callbacks
             /\ r.enabled /\ ~r.todo => o.enabled /\ ~o.todo
<1> DEFINE d == [o EXCEPT !.subTodo = FALSE]
<1>1. /\ d \in Objects /\ d.sub = o.sub /\ d.open = o.open /\ d.checks = o.checks
      /\ d.regs = o.regs /\ d.enabled = o.enabled /\ d.todo = o.todo
  BY DEF Objects
<1> HIDE DEF d
<1>2. CASE o.enabled \/ OnSubscriptionsChanged(o, outcome) = d
  BY <1>1, <1>2 DEF OnSubscriptionsChanged, d
<1>3. CASE ~o.enabled /\ OnSubscriptionsChanged(o, outcome) = EnableImsCallbacks(d, outcome)
  <2>1. CASE outcome = "ok"
    BY <1>1, <1>3, <2>1 DEF EnableImsCallbacks, Objects, Callbacks
  <2>2. CASE outcome = "registrationFails"
    BY <1>1, <1>3, <2>2 DEF EnableImsCallbacks, Objects, Callbacks
  <2>3. CASE outcome = "capabilityFails"
    BY <1>1, <1>3, <2>3 DEF EnableImsCallbacks, Objects, Callbacks
  <2> QED
    BY <2>1, <2>2, <2>3 DEF Outcomes
<1> QED
  BY <1>2, <1>3 DEF OnSubscriptionsChanged, d

\* The icons after a handler has looked at the state of the moment.
LEMMA ShownIcons ==
  ASSUME TypeOK, NEW icons \in SUBSET (Kinds \X Subs), NEW ss \in SUBSET Subs,
         NEW p \in [Kinds -> BOOLEAN]
  PROVE  LET new == ShowBoth(icons, ss, p)
         IN  /\ new \subseteq Kinds \X Subs
             /\ \A kind \in Kinds, s \in ss :
                  <<kind, s>> \in new <=> kind \in Available(s) /\ p[kind]
             /\ \A i \in new : i \in icons \/ (i[2] \in ss /\ p[i[1]])
             /\ \A i \in new : i[2] \in ss => p[i[1]]
             /\ \A kind \in Kinds, s \in Subs \ ss : <<kind, s>> \in new <=> <<kind, s>> \in icons
BY DEF ShowBoth

LEMMA ShownIcon ==
  ASSUME TypeOK, NEW icons \in SUBSET (Kinds \X Subs), NEW s \in Subs, NEW kind \in Kinds,
         NEW p \in [Kinds -> BOOLEAN]
  PROVE  LET new == Show(icons, kind, s, p)
         IN  /\ new \subseteq Kinds \X Subs
             /\ <<kind, s>> \in new <=> kind \in Available(s) /\ p[kind]
             /\ \A i \in new : i \in icons \/ (i = <<kind, s>> /\ p[kind])
             /\ \A i \in Kinds \X Subs : i # <<kind, s>> => (i \in new <=> i \in icons)
BY DEF Show

-----------------------------------------------------------------------------
(* The inductive invariant.                                                  *)

LEMMA InitInv == Init => IInv
<1> SUFFICES ASSUME Init PROVE IInv
  OBVIOUS
<1>1. TypeOK
  <2>1. objs \in Seq(Objects)
    BY DEF Init
  <2>2. available \in [Subs -> SUBSET Kinds]
    BY DEF Init
  <2> QED
    BY <2>1, <2>2 DEF Init, TypeOK
<1>2. DOMAIN objs = {} /\ svc = "starting" /\ icon = {}
  BY DEF Init
<1>3. ServiceInv
  BY DEF Init, ServiceInv, Alive
<1>4. MapInv /\ ObjectInv /\ IconsFollowIms
  BY <1>2 DEF MapInv, OnePerSub, ObjectInv, IconsFollowIms
<1>5. IconsHaveObjects /\ IconsAreWanted
  BY <1>2 DEF IconsHaveObjects, IconsAreWanted
<1> QED
  BY <1>1, <1>3, <1>4, <1>5 DEF IInv

\* The process dies: there is nothing left to go wrong but the icons.
LEMMA ProcessDiesInv ==
  ASSUME IInv, NEW next \in {"starting", "crashed"}, ProcessDies(next),
         pref' \in [Kinds -> BOOLEAN]
  PROVE  IInv'
<1>1. TypeOK'
  <2>1. objs' \in Seq(Objects)
    BY DEF ProcessDies
  <2>2. irregular' \subseteq Irregularities
    BY DEF ProcessDies, IInv, TypeOK, Irregularities
  <2>3. svc' \in {"starting", "crashed"} /\ listening' = FALSE /\ mainTodo' = FALSE
    BY DEF ProcessDies
  <2> QED
    BY <2>1, <2>2, <2>3 DEF IInv, TypeOK, ProcessDies, phone
<1>2. DOMAIN objs' = {} /\ svc' # "connected"
  BY DEF ProcessDies
<1>3. ServiceInv'
  BY <1>2 DEF IInv, ServiceInv, ProcessDies, Alive, phone
<1>4. MapInv' /\ ObjectInv' /\ IconsFollowIms' /\ IconsAreWanted'
  BY <1>2 DEF MapInv, OnePerSub, ObjectInv, IconsFollowIms, IconsAreWanted
<1>5. IconsHaveObjects'
  BY DEF ProcessDies, IconsHaveObjects
<1> QED
  BY <1>1, <1>3, <1>4, <1>5 DEF IInv

LEMMA ServiceConnectedInv ==
  ASSUME IInv, ServiceConnected
  PROVE  IInv'
<1>1. TypeOK'
  BY DEF IInv, TypeOK, ServiceConnected, Wants, phone
<1>2. objs = << >> /\ objs' = << >> /\ svc' = "connected"
  BY DEF IInv, ServiceInv, ServiceConnected, Alive
<1>3. DOMAIN objs = {} /\ DOMAIN objs' = {} /\ Open(objs) = {} /\ Open(objs') = {}
  BY <1>2 DEF Open
<1>4. ServiceInv'
  BY <1>2 DEF IInv, ServiceInv, ServiceConnected, Alive, phone, Wants
<1>5. MapInv' /\ ObjectInv' /\ IconsFollowIms'
  BY <1>3 DEF IInv, ServiceInv, ServiceConnected, phone, MapInv, OnePerSub, ObjectInv, IconsFollowIms
<1>6. irregular' = {} => icon' = {}
  BY <1>3 DEF IInv, IconsHaveObjects, ServiceConnected
<1>7. IconsHaveObjects' /\ IconsAreWanted'
  BY <1>6 DEF IconsHaveObjects, IconsAreWanted
<1> QED
  BY <1>1, <1>4, <1>5, <1>7 DEF IInv

\* A preference changes while nobody listens.
LEMMA PreferenceChangedUnseenInv ==
  ASSUME IInv, NEW kind \in Kinds, PreferenceChangedUnseen(kind)
  PROVE  IInv'
<1>1. TypeOK'
  BY DEF IInv, TypeOK, PreferenceChangedUnseen, phone
<1>2. svc' # "connected"
  BY DEF PreferenceChangedUnseen
<1>3. /\ svc' = svc /\ objs' = objs /\ listening' = listening /\ mainTodo' = mainTodo
      /\ icon' = icon /\ ready' = ready /\ active' = active /\ available' = available
      /\ irregular' = irregular
  BY DEF PreferenceChangedUnseen, phone
<1>4. ServiceInv'
  BY <1>2, <1>3 DEF IInv, ServiceInv, Alive
<1>5. MapInv' /\ ObjectInv' /\ IconsFollowIms' /\ IconsAreWanted'
  BY <1>2, <1>3 DEF IInv, MapInv, ObjectInv, IconsFollowIms, IconsAreWanted, Late
<1>6. IconsHaveObjects'
  BY <1>3 DEF IInv, IconsHaveObjects
<1> QED
  BY <1>1, <1>4, <1>5, <1>6 DEF IInv

\* Nothing about which objects there are, which are in the map, and what the
\* service listens to has changed.
SameMap ==
  /\ DOMAIN objs' = DOMAIN objs
  /\ \A j \in DOMAIN objs : objs'[j].open = objs[j].open /\ objs'[j].sub = objs[j].sub
  /\ svc' = svc /\ pref' = pref /\ listening' = listening
  /\ irregular \subseteq irregular'

LEMMA SameOpen ==
  ASSUME SameMap
  PROVE  Open(objs') = Open(objs)
<1>1. \A s : s \in Open(objs') <=> s \in Open(objs)
  <2> TAKE s
  <2>1. s \in Open(objs') <=> \E i \in DOMAIN objs' : objs'[i].open /\ objs'[i].sub = s
    BY DEF Open
  <2>2. s \in Open(objs) <=> \E i \in DOMAIN objs : objs[i].open /\ objs[i].sub = s
    BY DEF Open
  <2> QED
    BY <2>1, <2>2 DEF SameMap
<1> QED
  BY <1>1

\* A step of an object keeps the map's invariant, as does one of telephony that
\* leaves the subscriptions alone or posts an event to a service that listens.
LEMMA SameMapInv ==
  ASSUME MapInv, SameMap, mainTodo => mainTodo', active' # active /\ listening' => mainTodo'
  PROVE  MapInv'
<1>1. Open(objs') = Open(objs)
  BY SameOpen
<1>2. OnePerSub(objs')
  BY DEF MapInv, OnePerSub, SameMap
<1>3. svc' = "connected" /\ ~Late' /\ ~listening' => \A i \in DOMAIN objs' : ~objs'[i].open
  BY DEF MapInv, SameMap, Late
<1>4. svc' = "connected" /\ ~Late' /\ listening' /\ ~mainTodo' => Open(objs') = active'
  BY <1>1 DEF MapInv, SameMap, Late
<1> QED
  BY <1>2, <1>3, <1>4 DEF MapInv

LEMMA ObjectTypes ==
  ASSUME TypeOK, NEW j \in DOMAIN objs
  PROVE  objs[j] \in Objects /\ objs[j].sub \in Subs
<1>1. objs[j] \in Objects
  BY DEF TypeOK
<1> QED
  BY <1>1 DEF Objects

\* A subscription event reaches an object.
LEMMA ObjSubscriptionsChangedInv ==
  ASSUME IInv, NEW i \in DOMAIN objs, ObjSubscriptionsChanged(i)
  PROVE  IInv'
<1>1. PICK outcome \in Outcomes : objs' = [objs EXCEPT ![i] = OnSubscriptionsChanged(@, outcome)]
  BY DEF ObjSubscriptionsChanged
<1>2. objs \in Seq(Objects) /\ objs[i] \in Objects /\ (objs[i].enabled => objs[i].regs = Callbacks)
  BY DEF IInv, TypeOK, ObjectInv
<1>3. PICK r : r = OnSubscriptionsChanged(objs[i], outcome)
  OBVIOUS
<1>4. /\ r \in Objects /\ r.sub = objs[i].sub /\ r.open = objs[i].open /\ r.checks = objs[i].checks
      /\ r.enabled => r.regs = Callbacks
      /\ r.enabled /\ ~r.todo => objs[i].enabled /\ ~objs[i].todo
  BY <1>2, <1>3, SubscriptionsHandled
<1>5. objs' \in Seq(Objects) /\ DOMAIN objs' = DOMAIN objs
  BY <1>1, <1>2, <1>3, <1>4
<1>6. \A j \in DOMAIN objs : objs'[j] = IF j = i THEN r ELSE objs[j]
  BY <1>1, <1>2, <1>3
<1>7. /\ svc' = svc /\ pref' = pref /\ listening' = listening /\ mainTodo' = mainTodo
      /\ icon' = icon /\ ready' = ready /\ active' = active /\ available' = available
      /\ dataSub' = dataSub
      /\ irregular \subseteq irregular' /\ irregular' \subseteq Irregularities
  BY DEF ObjSubscriptionsChanged, phone, LateIf, IInv, TypeOK, Irregularities
<1>8. SameMap
  BY <1>4, <1>5, <1>6, <1>7 DEF SameMap
<1>9. TypeOK'
  BY <1>5, <1>7 DEF IInv, TypeOK
<1>10. ServiceInv'
  BY <1>7 DEF IInv, ServiceInv, Alive, ObjSubscriptionsChanged
<1>11. MapInv'
  BY <1>7, <1>8, SameMapInv DEF IInv
<1>12. ObjectInv'
  BY <1>4, <1>5, <1>6, <1>7 DEF IInv, ObjectInv, Late
<1>13. IconsFollowIms'
  BY <1>4, <1>5, <1>6, <1>7 DEF IInv, IconsFollowIms, Available
<1>14. IconsHaveObjects'
  BY <1>7, <1>8, SameOpen DEF IInv, IconsHaveObjects
<1>15. IconsAreWanted'
  BY <1>7 DEF IInv, IconsAreWanted
<1> QED
  BY <1>9, <1>10, <1>11, <1>12, <1>13, <1>14, <1>15 DEF IInv

\* A state callback reaches an object, open or closed.
LEMMA ObjCallbackInv ==
  ASSUME IInv, NEW i \in DOMAIN objs, ObjCallback(i)
  PROVE  IInv'
<1>1. objs \in Seq(Objects) /\ objs[i] \in Objects /\ objs[i].sub \in Subs
  BY ObjectTypes DEF IInv, TypeOK
<1>2. PICK r : r = [Refresh(objs[i]) EXCEPT !.todo = FALSE]
  OBVIOUS
<1>3. /\ r \in Objects /\ r.sub = objs[i].sub /\ r.open = objs[i].open
      /\ r.enabled = objs[i].enabled /\ r.regs = objs[i].regs
  BY <1>1, <1>2, Refreshed DEF Objects
<1>4. objs' \in Seq(Objects) /\ DOMAIN objs' = DOMAIN objs
  BY <1>1, <1>2, <1>3 DEF ObjCallback
<1>5. \A j \in DOMAIN objs : objs'[j] = IF j = i THEN r ELSE objs[j]
  BY <1>1, <1>2 DEF ObjCallback
<1>6. /\ svc' = svc /\ pref' = pref /\ listening' = listening /\ mainTodo' = mainTodo
      /\ ready' = ready /\ active' = active /\ available' = available
      /\ dataSub' = dataSub
      /\ irregular \subseteq irregular' /\ irregular' \subseteq Irregularities
      /\ ~Late' => objs[i].open
  BY DEF ObjCallback, phone, LateIf, Late, IInv, TypeOK, Irregularities
<1>7. /\ icon' \subseteq Kinds \X Subs
      /\ \A kind \in Kinds :
           <<kind, objs[i].sub>> \in icon' <=> kind \in Available(objs[i].sub) /\ pref[kind]
      /\ \A x \in icon' : x \in icon \/ (x[2] = objs[i].sub /\ pref[x[1]])
      /\ \A kind \in Kinds, s \in Subs :
           s # objs[i].sub => (<<kind, s>> \in icon' <=> <<kind, s>> \in icon)
  <2>1. icon \in SUBSET (Kinds \X Subs) /\ {objs[i].sub} \in SUBSET Subs
        /\ pref \in [Kinds -> BOOLEAN] /\ TypeOK
    BY <1>1 DEF IInv, TypeOK
  <2>2. icon' = ShowBoth(icon, {objs[i].sub}, pref)
    BY DEF ObjCallback
  <2>3. PICK s \in Subs : s = objs[i].sub
    BY <1>1
  <2>4. /\ icon' \subseteq Kinds \X Subs
        /\ \A kind \in Kinds, t \in {s} :
             <<kind, t>> \in icon' <=> kind \in Available(t) /\ pref[kind]
        /\ \A x \in icon' : x \in icon \/ (x[2] \in {s} /\ pref[x[1]])
        /\ \A kind \in Kinds, t \in Subs \ {s} : <<kind, t>> \in icon' <=> <<kind, t>> \in icon
    BY <2>1, <2>2, <2>3, ShownIcons
  <2> QED
    BY <2>3, <2>4
<1>8. SameMap
  BY <1>3, <1>4, <1>5, <1>6 DEF SameMap
<1>9. TypeOK'
  BY <1>4, <1>6, <1>7 DEF IInv, TypeOK
<1>10. ServiceInv'
  BY <1>6 DEF IInv, ServiceInv, Alive, ObjCallback
<1>11. MapInv'
  BY <1>6, <1>8, SameMapInv DEF IInv
<1>12. ObjectInv'
  BY <1>3, <1>4, <1>5, <1>6 DEF IInv, ObjectInv, Late
<1>13. IconsFollowIms'
  <2> SUFFICES ASSUME svc' = "connected", NEW j \in DOMAIN objs', NEW kind \in Kinds,
                      objs'[j].open, objs'[j].enabled, ~objs'[j].todo
               PROVE  <<kind, objs'[j].sub>> \in icon'
                        <=> ready' /\ kind \in available'[objs'[j].sub] /\ pref'[kind]
    BY DEF IconsFollowIms, Available
  <2>1. objs'[j].sub = objs[j].sub /\ objs[j].sub \in Subs
    BY <1>3, <1>4, <1>5, ObjectTypes DEF IInv
  <2>2. ready' /\ kind \in available'[objs'[j].sub] <=> kind \in Available(objs[j].sub)
    BY <1>6, <2>1 DEF Available
  <2>3. CASE objs[j].sub = objs[i].sub
    BY <1>6, <1>7, <2>1, <2>2, <2>3
  <2>4. CASE objs[j].sub # objs[i].sub
    BY <1>4, <1>5, <1>6, <1>7, <2>1, <2>2, <2>4 DEF IInv, IconsFollowIms
  <2> QED
    BY <2>3, <2>4
<1>14. IconsHaveObjects'
  <2>1. irregular' = {} => irregular = {} /\ objs[i].sub \in Open(objs)
    BY <1>6, OpenMeans DEF Late
  <2> QED
    BY <1>7, <1>8, <2>1, SameOpen DEF IInv, IconsHaveObjects
<1>15. IconsAreWanted'
  BY <1>6, <1>7 DEF IInv, IconsAreWanted
<1> QED
  BY <1>9, <1>10, <1>11, <1>12, <1>13, <1>14, <1>15 DEF IInv

\* A confirmation runnable of an object; without a late handler it is open.
LEMMA ObjCheckInv ==
  ASSUME IInv, NEW i \in DOMAIN objs, NEW k \in Kinds, ObjCheck(i, k)
  PROVE  IInv'
<1>1. objs \in Seq(Objects) /\ objs[i] \in Objects /\ objs[i].sub \in Subs
  BY ObjectTypes DEF IInv, TypeOK
<1>2. /\ objs' \in Seq(Objects) /\ DOMAIN objs' = DOMAIN objs
      /\ \A j \in DOMAIN objs :
           /\ objs'[j].sub = objs[j].sub /\ objs'[j].open = objs[j].open
           /\ objs'[j].enabled = objs[j].enabled /\ objs'[j].regs = objs[j].regs
           /\ objs'[j].todo = objs[j].todo
           /\ objs'[j].checks => objs[j].checks
  <2>1. CASE objs' = objs
    BY <1>1, <2>1
  <2>2. CASE objs' = [objs EXCEPT ![i].checks = FALSE]
    <3>1. PICK r : r = [objs[i] EXCEPT !.checks = FALSE]
      OBVIOUS
    <3>2. /\ r \in Objects /\ r.sub = objs[i].sub /\ r.open = objs[i].open
          /\ r.enabled = objs[i].enabled /\ r.regs = objs[i].regs
          /\ r.todo = objs[i].todo /\ ~r.checks
      BY <1>1, <3>1 DEF Objects
    <3>3. objs' = [objs EXCEPT ![i] = r]
      BY <1>1, <2>2, <3>1
    <3> QED
      BY <1>1, <3>2, <3>3
  <2> QED
    BY <2>1, <2>2 DEF ObjCheck
<1>3. /\ svc' = svc /\ pref' = pref /\ listening' = listening /\ mainTodo' = mainTodo
      /\ ready' = ready /\ active' = active /\ available' = available
      /\ dataSub' = dataSub /\ irregular' = irregular
  BY DEF ObjCheck, phone
<1>4. /\ icon' \subseteq Kinds \X Subs
      /\ <<k, objs[i].sub>> \in icon' <=> k \in Available(objs[i].sub) /\ pref[k]
      /\ \A x \in icon' : x \in icon \/ (x = <<k, objs[i].sub>> /\ pref[k])
      /\ \A x \in Kinds \X Subs : x # <<k, objs[i].sub>> => (x \in icon' <=> x \in icon)
  <2>1. icon \in SUBSET (Kinds \X Subs) /\ pref \in [Kinds -> BOOLEAN] /\ TypeOK
    BY DEF IInv, TypeOK
  <2>2. icon' = Show(icon, k, objs[i].sub, pref)
    BY DEF ObjCheck
  <2> QED
    BY <1>1, <2>1, <2>2, ShownIcon
<1>5. SameMap
  BY <1>2, <1>3 DEF SameMap
<1>6. TypeOK'
  BY <1>2, <1>3, <1>4 DEF IInv, TypeOK
<1>7. ServiceInv'
  BY <1>3 DEF IInv, ServiceInv, Alive, ObjCheck
<1>8. MapInv'
  BY <1>3, <1>5, SameMapInv DEF IInv
<1>9. ObjectInv'
  BY <1>2, <1>3 DEF IInv, ObjectInv, Late
<1>10. IconsFollowIms'
  <2> SUFFICES ASSUME svc' = "connected", NEW j \in DOMAIN objs', NEW kind \in Kinds,
                      objs'[j].open, objs'[j].enabled, ~objs'[j].todo
               PROVE  <<kind, objs'[j].sub>> \in icon'
                        <=> ready' /\ kind \in available'[objs'[j].sub] /\ pref'[kind]
    BY DEF IconsFollowIms, Available
  <2>1. objs'[j].sub = objs[j].sub /\ objs[j].sub \in Subs
    BY <1>2, ObjectTypes DEF IInv
  <2>2. ready' /\ kind \in available'[objs'[j].sub] <=> kind \in Available(objs[j].sub)
    BY <1>3, <2>1 DEF Available
  <2>3. CASE kind = k /\ objs[j].sub = objs[i].sub
    BY <1>3, <1>4, <2>1, <2>2, <2>3
  <2>4. CASE ~(kind = k /\ objs[j].sub = objs[i].sub)
    BY <1>2, <1>3, <1>4, <2>1, <2>2, <2>4 DEF IInv, IconsFollowIms
  <2> QED
    BY <2>3, <2>4
<1>11. IconsHaveObjects'
  <2>1. irregular' = {} => irregular = {} /\ objs[i].sub \in Open(objs)
    BY <1>3, OpenMeans DEF Late, IInv, ObjectInv, ObjCheck
  <2> QED
    BY <1>4, <1>5, <2>1, SameOpen DEF IInv, IconsHaveObjects
<1>12. IconsAreWanted'
  BY <1>3, <1>4 DEF IInv, IconsAreWanted
<1> QED
  BY <1>6, <1>7, <1>8, <1>9, <1>10, <1>11, <1>12 DEF IInv

\* Telephony reports subscriptions: an enabled object whose subscription is gone
\* has a callback posted.
LEMMA SubscriptionsChangeInv ==
  ASSUME IInv, NEW a \in SUBSET Subs, NEW d \in Subs \cup {0}, SubscriptionsChange(a, d)
  PROVE  IInv'
<1>1. objs \in Seq(Objects) /\ \A j \in DOMAIN objs : objs[j] \in Objects /\ objs[j].sub \in Subs
  BY ObjectTypes DEF IInv, TypeOK
<1>2. DOMAIN objs' = DOMAIN objs
  BY DEF SubscriptionsChange
<1>3. \A j \in DOMAIN objs :
        /\ objs'[j] \in Objects
        /\ objs'[j].sub = objs[j].sub /\ objs'[j].open = objs[j].open
        /\ objs'[j].enabled = objs[j].enabled /\ objs'[j].regs = objs[j].regs
        /\ objs'[j].checks = objs[j].checks
        /\ ~objs'[j].todo => ~objs[j].todo /\ (objs[j].sub \in a \/ objs[j].regs = {})
  <2> TAKE j \in DOMAIN objs
  <2>1. PICK o \in Objects : o = objs[j]
    BY <1>1
  <2>2. objs'[j] = [o EXCEPT !.subTodo = TRUE, !.todo = o.todo \/ (o.sub \notin a /\ o.regs # {})]
    BY <2>1 DEF SubscriptionsChange, Objects
  <2>3. CASE o.todo \/ (o.sub \notin a /\ o.regs # {})
    BY <2>1, <2>2, <2>3 DEF Objects
  <2>4. CASE ~(o.todo \/ (o.sub \notin a /\ o.regs # {}))
    BY <2>1, <2>2, <2>4 DEF Objects
  <2> QED
    BY <2>3, <2>4
<1>4. objs' \in Seq(Objects)
  <2>5. DOMAIN objs = 1 .. Len(objs)
    BY <1>1
  <2>1. objs' = [j \in 1 .. Len(objs) |-> objs'[j]]
    BY <2>5, Zenon DEF SubscriptionsChange
  <2>2. \A j \in 1 .. Len(objs) : objs'[j] \in Objects
    BY <1>1, <1>3
  <2>3. Len(objs) \in Nat
    BY <1>1
  <2>4. objs' \in [1 .. Len(objs) -> Objects]
    BY <2>1, <2>2
  <2> QED
    BY <2>3, <2>4
<1>5. /\ svc' = svc /\ pref' = pref /\ listening' = listening
      /\ (mainTodo' <=> mainTodo \/ listening) /\ mainTodo' \in BOOLEAN
      /\ icon' = icon /\ irregular' = irregular
      /\ ready' = TRUE /\ active' = a /\ dataSub' = d /\ d \in a \cup {0}
      /\ available' = [s \in Subs |-> IF s \in a THEN available[s] ELSE {}]
  BY DEF SubscriptionsChange, IInv, TypeOK
<1>6. SameMap
  BY <1>2, <1>3, <1>5 DEF SameMap
<1>7. TypeOK'
  <2>1. available' \in [Subs -> SUBSET Kinds]
    BY <1>5 DEF IInv, TypeOK
  <2> QED
    BY <1>4, <1>5, <2>1 DEF IInv, TypeOK
<1>8. ServiceInv'
  <2>1. ~Alive => objs' = << >>
    <3>1. ~Alive => DOMAIN objs' = {}
      BY <1>2 DEF IInv, ServiceInv
    <3> QED
      BY <1>4, <3>1
  <2> QED
    BY <1>5, <2>1 DEF IInv, ServiceInv, Alive
<1>9. MapInv'
  BY <1>5, <1>6, SameMapInv DEF IInv
<1>10. ObjectInv'
  BY <1>2, <1>3, <1>5 DEF IInv, ObjectInv, Late
<1>11. IconsFollowIms'
  <2> SUFFICES ASSUME svc' = "connected", NEW j \in DOMAIN objs', NEW kind \in Kinds,
                      objs'[j].open, objs'[j].enabled, ~objs'[j].todo
               PROVE  <<kind, objs'[j].sub>> \in icon'
                        <=> ready' /\ kind \in available'[objs'[j].sub] /\ pref'[kind]
    BY DEF IconsFollowIms, Available
  <2>1. objs[j].open /\ objs[j].enabled /\ ~objs[j].todo /\ objs[j].regs = Callbacks
    BY <1>2, <1>3 DEF IInv, ObjectInv
  <2>2. objs[j].sub \in a
    BY <1>2, <1>3, <2>1 DEF Callbacks
  <2>3. available'[objs[j].sub] = available[objs[j].sub]
    BY <1>1, <1>2, <1>5, <2>2
  <2>4. ~ready => available[objs[j].sub] = {}
    BY <1>1, <1>2 DEF IInv, ServiceInv
  <2>5. <<kind, objs[j].sub>> \in icon <=> kind \in Available(objs[j].sub) /\ pref[kind]
    BY <1>2, <1>5, <2>1 DEF IInv, IconsFollowIms
  <2> QED
    BY <1>2, <1>3, <1>5, <2>3, <2>4, <2>5 DEF Available
<1>12. IconsHaveObjects'
  BY <1>5, <1>6, SameOpen DEF IInv, IconsHaveObjects
<1>13. IconsAreWanted'
  BY <1>5 DEF IInv, IconsAreWanted
<1> QED
  BY <1>7, <1>8, <1>9, <1>10, <1>11, <1>12, <1>13 DEF IInv

\* IMS changes on a subscription: its enabled object hears of it.
LEMMA AvailabilityChangeInv ==
  ASSUME IInv, NEW s \in Subs, NEW kinds \in SUBSET Kinds,
         NEW cause \in Callbacks \cup {"switch"}, AvailabilityChange(s, kinds, cause)
  PROVE  IInv'
<1>1. objs \in Seq(Objects) /\ \A j \in DOMAIN objs : objs[j] \in Objects /\ objs[j].sub \in Subs
  BY ObjectTypes DEF IInv, TypeOK
<1>2. DOMAIN objs' = DOMAIN objs
  BY DEF AvailabilityChange
<1>3. \A j \in DOMAIN objs :
        /\ objs'[j] \in Objects
        /\ objs'[j].sub = objs[j].sub /\ objs'[j].open = objs[j].open
        /\ objs'[j].enabled = objs[j].enabled /\ objs'[j].regs = objs[j].regs
        /\ objs'[j].checks = objs[j].checks
        /\ ~objs'[j].todo => ~objs[j].todo
        /\ ~objs'[j].todo /\ objs[j].sub = s =>
             cause \notin objs[j].regs /\ ~(cause = "switch" /\ objs[j].open)
  <2> TAKE j \in DOMAIN objs
  <2>1. PICK o \in Objects : o = objs[j]
    BY <1>1
  <2> DEFINE told == o.sub = s /\ (cause \in o.regs \/ (cause = "switch" /\ o.open))
  <2>2. objs'[j] = [o EXCEPT !.todo = o.todo \/ told]
    BY <2>1 DEF AvailabilityChange, Objects
  <2>3. CASE o.todo \/ told
    BY <2>1, <2>2, <2>3 DEF Objects
  <2>4. CASE ~(o.todo \/ told)
    BY <2>1, <2>2, <2>4 DEF Objects
  <2> QED
    BY <2>3, <2>4
<1>4. objs' \in Seq(Objects)
  <2>1. objs' = [j \in 1 .. Len(objs) |-> objs'[j]]
    BY <1>1, <1>2 DEF AvailabilityChange
  <2>2. \A j \in 1 .. Len(objs) : objs'[j] \in Objects
    BY <1>1, <1>3
  <2>3. Len(objs) \in Nat
    BY <1>1
  <2>4. objs' \in [1 .. Len(objs) -> Objects]
    BY <2>1, <2>2
  <2> QED
    BY <2>3, <2>4
<1>5. /\ svc' = svc /\ pref' = pref /\ listening' = listening /\ mainTodo' = mainTodo
      /\ icon' = icon /\ irregular' = irregular
      /\ ready' = ready /\ active' = active /\ dataSub' = dataSub
      /\ available' = [available EXCEPT ![s] = kinds]
  BY DEF AvailabilityChange
<1>6. SameMap
  BY <1>2, <1>3, <1>5 DEF SameMap
<1>7. TypeOK'
  <2>1. available' \in [Subs -> SUBSET Kinds]
    BY <1>5 DEF IInv, TypeOK
  <2> QED
    BY <1>4, <1>5, <2>1 DEF IInv, TypeOK
<1>8. ServiceInv'
  <2>1. ~Alive => objs' = << >>
    <3>1. ~Alive => DOMAIN objs' = {}
      BY <1>2 DEF IInv, ServiceInv
    <3> QED
      BY <1>4, <3>1
  <2>2. ready
    BY DEF IInv, ServiceInv, AvailabilityChange
  <2> QED
    BY <1>5, <2>1, <2>2 DEF IInv, ServiceInv, Alive
<1>9. MapInv'
  BY <1>5, <1>6, SameMapInv DEF IInv
<1>10. ObjectInv'
  BY <1>2, <1>3, <1>5 DEF IInv, ObjectInv, Late
<1>11. IconsFollowIms'
  <2> SUFFICES ASSUME svc' = "connected", NEW j \in DOMAIN objs', NEW kind \in Kinds,
                      objs'[j].open, objs'[j].enabled, ~objs'[j].todo
               PROVE  <<kind, objs'[j].sub>> \in icon'
                        <=> ready' /\ kind \in available'[objs'[j].sub] /\ pref'[kind]
    BY DEF IconsFollowIms, Available
  <2>1. objs[j].open /\ objs[j].enabled /\ ~objs[j].todo /\ objs[j].regs = Callbacks
    BY <1>2, <1>3 DEF IInv, ObjectInv
  <2>2. objs[j].sub # s
    BY <1>2, <1>3, <2>1
  <2>3. available'[objs[j].sub] = available[objs[j].sub]
    BY <1>1, <1>2, <1>5, <2>2 DEF IInv, TypeOK
  <2>4. <<kind, objs[j].sub>> \in icon <=> kind \in Available(objs[j].sub) /\ pref[kind]
    BY <1>2, <1>5, <2>1 DEF IInv, IconsFollowIms
  <2> QED
    BY <1>2, <1>3, <1>5, <2>3, <2>4 DEF Available
<1>12. IconsHaveObjects'
  BY <1>5, <1>6, SameOpen DEF IInv, IconsHaveObjects
<1>13. IconsAreWanted'
  BY <1>5 DEF IInv, IconsAreWanted
<1> QED
  BY <1>7, <1>8, <1>9, <1>10, <1>11, <1>12, <1>13 DEF IInv

\* manageImsIcons(false): every object is closed and takes its icons with it.
LEMMA ManageOffCloses ==
  ASSUME IInv, objs' = ManageOff(objs), icon' = IconsOff(objs),
         irregular' = irregular, ~listening'
  PROVE  /\ objs' \in Seq(Objects) /\ icon' \subseteq icon
         /\ ~Alive => objs' = << >>
         /\ MapInv' /\ ObjectInv' /\ IconsFollowIms' /\ IconsHaveObjects' /\ IconsAreWanted'
<1>1. objs \in Seq(Objects) /\ \A j \in DOMAIN objs : objs[j] \in Objects
  BY ObjectTypes DEF IInv, TypeOK
<1>2. DOMAIN objs' = DOMAIN objs
  BY DEF ManageOff
<1>3. \A j \in DOMAIN objs :
        /\ objs'[j] \in Objects /\ ~objs'[j].open
        /\ objs'[j].checks => objs[j].checks /\ ~objs[j].open
        /\ objs'[j].enabled => objs[j].enabled /\ objs'[j].regs = objs[j].regs
  BY <1>1, Closed DEF ManageOff
<1>4. objs' \in Seq(Objects)
  <2>1. DOMAIN objs = 1 .. Len(objs) /\ Len(objs) \in Nat
    BY <1>1
  <2>2. objs' = [j \in 1 .. Len(objs) |-> objs'[j]]
    BY <2>1, Zenon DEF ManageOff
  <2>3. objs' \in [1 .. Len(objs) -> Objects]
    BY <1>3, <2>1, <2>2
  <2> QED
    BY <2>1, <2>3
<1>5. ~Alive => objs' = << >>
  <2>1. ~Alive => DOMAIN objs' = {}
    BY <1>2 DEF IInv, ServiceInv
  <2> QED
    BY <1>4, <2>1
<1>6. MapInv'
  BY <1>2, <1>3 DEF MapInv, OnePerSub
<1>7. ObjectInv'
  BY <1>2, <1>3 DEF IInv, ObjectInv, Late
<1>8. IconsFollowIms'
  BY <1>2, <1>3 DEF IconsFollowIms
<1>9. icon' \subseteq icon /\ (irregular' = {} => icon' = {})
  BY DEF IInv, IconsHaveObjects, IconsOff
<1>10. IconsHaveObjects' /\ IconsAreWanted'
  BY <1>9 DEF IconsHaveObjects, IconsAreWanted
<1> QED
  BY <1>4, <1>5, <1>6, <1>7, <1>8, <1>9, <1>10

LEMMA PreferenceOffInv ==
  ASSUME IInv, NEW kind \in Kinds, PreferenceOff(kind)
  PROVE  IInv'
<1>1. /\ objs' = ManageOff(objs) /\ icon' = IconsOff(objs) /\ irregular' = irregular
      /\ listening' = FALSE /\ svc' = svc /\ Alive /\ mainTodo' = mainTodo
      /\ ready' = ready /\ active' = active /\ dataSub' = dataSub /\ available' = available
  BY DEF PreferenceOff, phone
<1>2. /\ objs' \in Seq(Objects) /\ icon' \subseteq icon
      /\ MapInv' /\ ObjectInv' /\ IconsFollowIms' /\ IconsHaveObjects' /\ IconsAreWanted'
  BY <1>1, ManageOffCloses
<1>3. pref' \in [Kinds -> BOOLEAN] /\ ~Wants(pref')
  BY DEF PreferenceOff, IInv, TypeOK
<1>4. TypeOK'
  BY <1>1, <1>2, <1>3 DEF IInv, TypeOK
<1>5. ServiceInv'
  BY <1>1, <1>3 DEF IInv, ServiceInv, Alive
<1> QED
  BY <1>2, <1>4, <1>5 DEF IInv

LEMMA OnDestroyInv ==
  ASSUME IInv, OnDestroy
  PROVE  IInv'
<1>1. /\ svc = "connected" /\ svc' = "destroyed" /\ listening' = FALSE /\ pref' = pref
      /\ mainTodo' = mainTodo /\ irregular' = irregular
      /\ ready' = ready /\ active' = active /\ dataSub' = dataSub /\ available' = available
  BY DEF OnDestroy, phone
<1>2. ServiceInv'
  BY <1>1 DEF IInv, ServiceInv, Alive
<1>3. CASE listening
  <2>1. objs' = ManageOff(objs) /\ icon' = IconsOff(objs)
    BY <1>3 DEF OnDestroy
  <2>2. /\ objs' \in Seq(Objects) /\ icon' \subseteq icon
        /\ MapInv' /\ ObjectInv' /\ IconsFollowIms' /\ IconsHaveObjects' /\ IconsAreWanted'
    BY <1>1, <2>1, ManageOffCloses
  <2>3. TypeOK'
    BY <1>1, <2>2 DEF IInv, TypeOK
  <2> QED
    BY <1>2, <2>2, <2>3 DEF IInv
<1>4. CASE ~listening
  <2>1. objs' = objs /\ icon' = icon
    BY <1>4 DEF OnDestroy
  <2>2. TypeOK'
    BY <1>1, <2>1 DEF IInv, TypeOK
  <2>3. MapInv' /\ ObjectInv' /\ IconsFollowIms' /\ IconsHaveObjects' /\ IconsAreWanted'
    BY <1>1, <2>1 DEF IInv, MapInv, ObjectInv, IconsFollowIms, IconsHaveObjects,
                      IconsAreWanted, Late
  <2> QED
    BY <1>2, <2>2, <2>3 DEF IInv
<1> QED
  BY <1>3, <1>4

\* The icons of manageImsIcons(true): an open object that stays keeps its icons,
\* and a regular icon belongs to an active subscription.
LEMMA IconsOnShown ==
  ASSUME IInv
  PROVE  LET new == IconsOn(objs)
         IN  /\ new \subseteq Kinds \X Subs
             /\ \A kind \in Kinds, s \in active \cap Open(objs) :
                  <<kind, s>> \in new <=> <<kind, s>> \in icon
             /\ irregular = {} => \A x \in new : x[2] \in active /\ (x \in icon \/ pref[x[1]])
<1>1. PICK old : old = {x \in icon : x[2] \in active \/ x[2] \notin Open(objs)}
  OBVIOUS
<1>2. PICK ss : ss = active \ Open(objs)
  OBVIOUS
<1>3. old \in SUBSET (Kinds \X Subs) /\ ss \in SUBSET Subs /\ TypeOK
      /\ pref \in [Kinds -> BOOLEAN]
  BY <1>1, <1>2 DEF IInv, TypeOK
<1>4. PICK new : new = IconsOn(objs)
  OBVIOUS
<1>5. new = ShowBoth(old, ss, pref)
  BY <1>1, <1>2, <1>4 DEF IconsOn
<1>6. /\ new \subseteq Kinds \X Subs
      /\ \A x \in new : x \in old \/ (x[2] \in ss /\ pref[x[1]])
      /\ \A kind \in Kinds, s \in Subs \ ss : <<kind, s>> \in new <=> <<kind, s>> \in old
  BY <1>3, <1>5, ShownIcons
<1>7. \A kind \in Kinds, s \in active \cap Open(objs) :
        <<kind, s>> \in new <=> <<kind, s>> \in icon
  <2>1. \A s \in active \cap Open(objs) : s \in Subs \ ss
    BY <1>2 DEF IInv, TypeOK
  <2> QED
    BY <1>1, <1>6, <2>1
<1>8. irregular = {} => \A x \in new : x[2] \in active /\ (x \in icon \/ pref[x[1]])
  BY <1>1, <1>2, <1>6 DEF IInv, IconsHaveObjects
<1> QED
  BY <1>4, <1>6, <1>7, <1>8

\* MainService's subscription listener runs.
LEMMA MainSubscriptionsChangedInv ==
  ASSUME IInv, MainSubscriptionsChanged
  PROVE  IInv'
<1>1. /\ svc' = svc /\ pref' = pref /\ listening' = listening /\ mainTodo' = FALSE
      /\ ready' = ready /\ active' = active /\ dataSub' = dataSub /\ available' = available
      /\ objs' = ManageOn(objs) /\ icon' = IconsOn(objs) /\ Alive
      /\ irregular \subseteq irregular' /\ irregular' \subseteq Irregularities
      /\ ~Late' => listening
  BY DEF MainSubscriptionsChanged, phone, Late, IInv, TypeOK, Irregularities
<1>2. TypeOK /\ OnePerSub(objs)
  BY DEF IInv, MapInv
<1>3. Managed(objs')
  BY <1>1, <1>2, ManageOnManages
<1>4. OnePerSub(objs') /\ Open(objs') = active
  <2>1. PICK m : m = objs'
    OBVIOUS
  <2> QED
    BY <1>2, <1>3, <2>1, ManagedMap
<1>5. /\ icon' \subseteq Kinds \X Subs
      /\ \A kind \in Kinds, s \in active \cap Open(objs) :
           <<kind, s>> \in icon' <=> <<kind, s>> \in icon
      /\ irregular = {} => \A x \in icon' : x[2] \in active /\ (x \in icon \/ pref[x[1]])
  BY <1>1, IconsOnShown
<1>6. \A j \in DOMAIN objs' :
        /\ objs'[j].enabled => j \in DOMAIN objs /\ objs'[j] = objs[j]
        /\ objs'[j].checks => objs'[j].open \/ (j \in DOMAIN objs /\ objs'[j] = objs[j])
  <2> TAKE j \in DOMAIN objs'
  <2>1. CASE j \in DOMAIN objs
    BY <1>2, <1>3, <2>1, ObjectTypes, Closed DEF Managed
  <2>2. CASE j \notin DOMAIN objs
    <3>1. PICK s \in active : objs'[j] = OnStartup(s)
      BY <1>3, <2>2 DEF Managed
    <3> QED
      BY <1>2, <3>1, Started DEF TypeOK
  <2> QED
    BY <2>1, <2>2
<1>7. TypeOK'
  BY <1>1, <1>3, <1>5 DEF IInv, TypeOK, Managed
<1>8. ServiceInv'
  BY <1>1 DEF IInv, ServiceInv, Alive
<1>9. MapInv'
  BY <1>1, <1>4 DEF MapInv
<1>10. ObjectInv'
  BY <1>1, <1>6 DEF IInv, ObjectInv, Late
<1>11. IconsFollowIms'
  <2> SUFFICES ASSUME svc' = "connected", NEW j \in DOMAIN objs', NEW kind \in Kinds,
                      objs'[j].open, objs'[j].enabled, ~objs'[j].todo
               PROVE  <<kind, objs'[j].sub>> \in icon'
                        <=> ready' /\ kind \in available'[objs'[j].sub] /\ pref'[kind]
    BY DEF IconsFollowIms, Available
  <2>1. j \in DOMAIN objs /\ objs'[j] = objs[j]
    BY <1>6
  <2>2. objs[j].sub \in Open(objs)
    BY <2>1, OpenMeans
  <2>3. objs[j].sub \in active
    <3>1. objs'[j].sub \in Open(objs')
      BY DEF Open
    <3> QED
      BY <1>4, <2>1, <3>1
  <2>4. <<kind, objs[j].sub>> \in icon <=> kind \in Available(objs[j].sub) /\ pref[kind]
    BY <1>1, <2>1 DEF IInv, IconsFollowIms
  <2> QED
    BY <1>1, <1>5, <2>1, <2>2, <2>3, <2>4 DEF Available
<1>12. IconsHaveObjects'
  BY <1>1, <1>4, <1>5 DEF IconsHaveObjects
<1>13. IconsAreWanted'
  BY <1>1, <1>5 DEF IInv, IconsAreWanted
<1> QED
  BY <1>7, <1>8, <1>9, <1>10, <1>11, <1>12, <1>13 DEF IInv

\* A preference is flipped and an icon is wanted.
LEMMA PreferenceOnInv ==
  ASSUME IInv, NEW k \in Kinds, PreferenceOn(k)
  PROVE  IInv'
<1>1. PICK p : p = [pref EXCEPT ![k] = ~@]
  OBVIOUS
<1>2. PICK m : m = ManageOn(objs)
  OBVIOUS
<1>3. /\ svc' = svc /\ pref' = p /\ listening' = TRUE /\ mainTodo' \in BOOLEAN
      /\ ready' = ready /\ active' = active /\ dataSub' = dataSub /\ available' = available
      /\ irregular' = irregular /\ Alive /\ Wants(p)
      /\ objs' = [i \in DOMAIN m |-> IF m[i].open THEN Refresh(m[i]) ELSE m[i]]
      /\ icon' = ShowBoth(IconsOn(objs), active, p)
  BY <1>1, <1>2 DEF PreferenceOn, phone, IInv, TypeOK
<1>4. p \in [Kinds -> BOOLEAN]
  BY <1>1 DEF IInv, TypeOK
<1>5. TypeOK /\ OnePerSub(objs)
  BY DEF IInv, MapInv
<1>6. Managed(m)
  BY <1>2, <1>5, ManageOnManages
<1>7. OnePerSub(m) /\ Open(m) = active
  BY <1>5, <1>6, ManagedMap
<1>8. m \in Seq(Objects) /\ \A j \in DOMAIN m : m[j] \in Objects
  BY <1>6 DEF Managed
<1>9. DOMAIN objs' = DOMAIN m
  BY <1>3
<1>10. \A j \in DOMAIN m :
         /\ objs'[j] \in Objects /\ objs'[j].sub = m[j].sub /\ objs'[j].open = m[j].open
         /\ objs'[j].enabled = m[j].enabled /\ objs'[j].regs = m[j].regs
         /\ ~m[j].open => objs'[j] = m[j]
  BY <1>3, <1>8, Refreshed
<1>11. objs' \in Seq(Objects)
  <2>1. DOMAIN m = 1 .. Len(m) /\ Len(m) \in Nat
    BY <1>8
  <2>2. objs' \in [1 .. Len(m) -> Objects]
    <3>1. objs' = [j \in 1 .. Len(m) |-> objs'[j]]
      BY <1>3, <2>1, Zenon
    <3> QED
      BY <1>10, <2>1, <3>1
  <2> QED
    BY <2>1, <2>2
<1>12. OnePerSub(objs')
  BY <1>7, <1>9, <1>10 DEF OnePerSub
<1>13. Open(objs') = active
  <2>1. \A s : s \in Open(objs') <=> s \in Open(m)
    <3> TAKE s
    <3>1. s \in Open(objs') <=> \E i \in DOMAIN objs' : objs'[i].open /\ objs'[i].sub = s
      BY DEF Open
    <3>2. s \in Open(m) <=> \E i \in DOMAIN m : m[i].open /\ m[i].sub = s
      BY DEF Open
    <3> QED
      BY <1>9, <1>10, <3>1, <3>2
  <2> QED
    BY <1>7, <2>1
<1>14. /\ icon' \subseteq Kinds \X Subs
       /\ \A kind \in Kinds, s \in active :
            <<kind, s>> \in icon' <=> kind \in Available(s) /\ p[kind]
       /\ irregular = {} => \A x \in icon' : x[2] \in active /\ p[x[1]]
  <2>1. PICK icons : icons = IconsOn(objs)
    OBVIOUS
  <2>2. /\ icons \in SUBSET (Kinds \X Subs)
        /\ irregular = {} => \A x \in icons : x[2] \in active
    BY <2>1, IconsOnShown
  <2>3. PICK ss \in SUBSET Subs : ss = active
    BY <1>5 DEF TypeOK
  <2>4. PICK new : new = ShowBoth(icons, ss, p)
    OBVIOUS
  <2>5. /\ new \subseteq Kinds \X Subs
        /\ \A kind \in Kinds, s \in ss : <<kind, s>> \in new <=> kind \in Available(s) /\ p[kind]
        /\ \A x \in new : x \in icons \/ (x[2] \in ss /\ p[x[1]])
        /\ \A x \in new : x[2] \in ss => p[x[1]]
    BY <1>4, <1>5, <2>2, <2>4, ShownIcons
  <2>6. icon' = new
    BY <1>3, <2>1, <2>3, <2>4
  <2> QED
    BY <2>2, <2>3, <2>5, <2>6
<1>15. \A j \in DOMAIN m :
         /\ ~m[j].open => ~m[j].checks \/ (j \in DOMAIN objs /\ m[j] = objs[j])
         /\ m[j].enabled => j \in DOMAIN objs /\ m[j] = objs[j]
  <2> TAKE j \in DOMAIN m
  <2>1. CASE j \in DOMAIN objs
    BY <1>5, <1>6, <2>1, ObjectTypes, Closed DEF Managed
  <2>2. CASE j \notin DOMAIN objs
    <3>1. PICK s \in active : m[j] = OnStartup(s)
      BY <1>6, <2>2 DEF Managed
    <3> QED
      BY <1>5, <3>1, Started DEF TypeOK
  <2> QED
    BY <2>1, <2>2
<1>16. TypeOK'
  BY <1>3, <1>4, <1>11, <1>14 DEF IInv, TypeOK
<1>17. ServiceInv'
  BY <1>3 DEF IInv, ServiceInv, Alive
<1>18. MapInv'
  BY <1>3, <1>12, <1>13 DEF MapInv
<1>19. ObjectInv'
  BY <1>3, <1>9, <1>10, <1>15 DEF IInv, ObjectInv, Late
<1>20. IconsFollowIms'
  <2> SUFFICES ASSUME NEW j \in DOMAIN objs', NEW kind \in Kinds, objs'[j].open
               PROVE  <<kind, objs'[j].sub>> \in icon'
                        <=> ready' /\ kind \in available'[objs'[j].sub] /\ pref'[kind]
    BY DEF IconsFollowIms, Available
  <2>1. objs'[j].sub \in active
    <3>1. objs'[j].sub \in Open(objs')
      BY DEF Open
    <3> QED
      BY <1>13, <3>1
  <2> QED
    BY <1>3, <1>14, <2>1 DEF Available
<1>21. IconsHaveObjects' /\ IconsAreWanted'
  BY <1>3, <1>13, <1>14 DEF IconsHaveObjects, IconsAreWanted
<1> QED
  BY <1>16, <1>17, <1>18, <1>19, <1>20, <1>21 DEF IInv

LEMMA StutterInv ==
  ASSUME IInv, UNCHANGED vars
  PROVE  IInv'
<1>1. /\ svc' = svc /\ pref' = pref /\ listening' = listening /\ mainTodo' = mainTodo
      /\ objs' = objs /\ icon' = icon /\ ready' = ready /\ active' = active
      /\ dataSub' = dataSub /\ available' = available /\ irregular' = irregular
  BY DEF vars
<1>2. TypeOK'
  BY <1>1 DEF IInv, TypeOK
<1>3. ServiceInv'
  BY <1>1 DEF IInv, ServiceInv, Alive
<1>4. MapInv' /\ ObjectInv'
  BY <1>1 DEF IInv, MapInv, ObjectInv, Late
<1>5. IconsFollowIms'
  BY <1>1 DEF IInv, IconsFollowIms, Available
<1>6. IconsHaveObjects' /\ IconsAreWanted'
  BY <1>1 DEF IInv, IconsHaveObjects, IconsAreWanted
<1> QED
  BY <1>2, <1>3, <1>4, <1>5, <1>6 DEF IInv

LEMMA NextInv == IInv /\ [Next]_vars => IInv'
<1> SUFFICES ASSUME IInv, [Next]_vars PROVE IInv'
  OBVIOUS
<1>1. CASE ServiceConnected
  BY <1>1, ServiceConnectedInv
<1>2. CASE OnDestroy
  BY <1>2, OnDestroyInv
<1>3. CASE Restart
  <2>1. ProcessDies("starting") /\ pref' \in [Kinds -> BOOLEAN]
    BY <1>3 DEF Restart, IInv, TypeOK
  <2> QED
    BY <2>1, ProcessDiesInv
<1>4. CASE MainSubscriptionsChanged
  BY <1>4, MainSubscriptionsChangedInv
<1>5. CASE \E kind \in Kinds : PreferenceOn(kind) \/ PreferenceOff(kind)
  BY <1>5, PreferenceOnInv, PreferenceOffInv
<1>6. CASE \E kind \in Kinds : PreferenceOnTooEarly(kind)
  <2>1. PICK kind \in Kinds : PreferenceOnTooEarly(kind)
    BY <1>6
  <2>2. ProcessDies("crashed") /\ pref' \in [Kinds -> BOOLEAN]
    BY <2>1 DEF PreferenceOnTooEarly, IInv, TypeOK
  <2> QED
    BY <2>2, ProcessDiesInv
<1>7. CASE \E kind \in Kinds : PreferenceChangedUnseen(kind)
  BY <1>7, PreferenceChangedUnseenInv
<1>8. CASE \E i \in DOMAIN objs : ObjSubscriptionsChanged(i) \/ ObjCallback(i)
  BY <1>8, ObjSubscriptionsChangedInv, ObjCallbackInv
<1>9. CASE \E i \in DOMAIN objs, kind \in Kinds : ObjCheck(i, kind)
  BY <1>9, ObjCheckInv
<1>10. CASE \E a \in SUBSET Subs, d \in Subs \cup {0} : SubscriptionsChange(a, d)
  BY <1>10, SubscriptionsChangeInv
<1>11. CASE \E s \in Subs, kinds \in SUBSET Kinds, cause \in Callbacks \cup {"switch"} :
              AvailabilityChange(s, kinds, cause)
  BY <1>11, AvailabilityChangeInv
<1>12. CASE UNCHANGED vars
  BY <1>12, StutterInv
<1> QED
  BY <1>1, <1>2, <1>3, <1>4, <1>5, <1>6, <1>7, <1>8, <1>9, <1>10, <1>11, <1>12 DEF Next

LEMMA Invariant == Spec => []IInv
BY InitInv, NextInv, PTL DEF Spec

-----------------------------------------------------------------------------
\* Every handler of ImsMmTelManagerExtra and MainService leaves values of the
\* right kind, for any number of subscriptions and objects.
THEOREM TypeCorrect == Spec => []TypeOK
<1>1. IInv => TypeOK
  BY DEF IInv
<1> QED
  BY <1>1, Invariant, PTL

\* manageImsIcons keeps one object per active subscription, however often
\* subscriptions, preferences and the process come and go.
THEOREM MapFollows == Spec => []ObjectsFollowSubs
<1>1. IInv => ObjectsFollowSubs
  <2> SUFFICES ASSUME IInv PROVE ObjectsFollowSubs
    OBVIOUS
  <2>1. \A i, j \in DOMAIN objs :
          objs[i].open /\ objs[j].open /\ objs[i].sub = objs[j].sub => i = j
    BY DEF IInv, MapInv, OnePerSub
  <2>2. ASSUME svc = "connected", ~mainTodo, "late" \notin irregular
        PROVE  Open(objs) = IF Wants(pref) THEN active ELSE {}
    <3>1. CASE listening
      BY <2>2, <3>1 DEF IInv, ServiceInv, MapInv, Late
    <3>2. CASE ~listening
      <4>1. \A s : s \notin Open(objs)
        BY <2>2, <3>2, OpenMeans DEF IInv, MapInv, Late
      <4> QED
        BY <2>2, <3>2, <4>1 DEF IInv, ServiceInv
    <3> QED
      BY <3>1, <3>2
  <2> QED
    BY <2>1, <2>2 DEF ObjectsFollowSubs
<1> QED
  BY <1>1, Invariant, PTL

\* showVolteIcon and showVoWifiIcon never bring back an icon that the user
\* switched off.
THEOREM OnlyWanted == Spec => []IconsAreWanted
<1>1. IInv => IconsAreWanted
  BY DEF IInv
<1> QED
  BY <1>1, Invariant, PTL

\* onClose leaves no icon behind and no runnable that would show it again.
THEOREM NoOrphans == Spec => []IconsHaveObjects
<1>1. IInv => IconsHaveObjects
  BY DEF IInv
<1> QED
  BY <1>1, Invariant, PTL

\* An object that enableImsCallbacks has registered shows what IMS offers.
THEOREM ShowsIms == Spec => []IconsFollowIms
<1>1. IInv => IconsFollowIms
  BY DEF IInv
<1> QED
  BY <1>1, Invariant, PTL
=============================================================================
