-------------------------- MODULE PlannedStopProofs -------------------------
(***************************************************************************)
(* What a seal and a crossed restart promise, for any set of mutations and *)
(* peers and any number of lives.  The inductive invariant has four parts: *)
(* the tail count is the number of running tasks and waiting handlers, a   *)
(* feed is sealed exactly when the count had reached zero, every mutation  *)
(* the origin applied is in its life's feed or somebody is left to put it  *)
(* there, and a peer's evidence is what it delivered of the feed.          *)
(***************************************************************************)
EXTENDS PlannedStop, FiniteSetTheorems, TLAPS

Tails == {w \in Write : task[w] \in {"calling", "landed", "published"}}
Handlers == {w \in Write : wait[w] = "waiting"}

\* The count: one guard for each running task and each waiting handler.
Counted ==
  /\ IsFiniteSet(Tails) /\ IsFiniteSet(Handlers)
  /\ node.up => node.running = Cardinality(Tails) + Cardinality(Handlers)
  /\ ~node.up => Tails = {} /\ Handlers = {}
  /\ \A w \in Write : task[w] = "idle" <=> wait[w] = "idle"

Quiet == Tails = {} /\ Handlers = {}
Advertised == node.seal \in {"advertised", "observed", "unconfirmed"}

\* A sealed life is a quiet one, its seal comes last, and later lives have not
\* begun.
Sealing ==
  /\ node.seal # "none" => node.closed
  /\ Advertised => Quiet
  /\ IsSealed(node.life) <=> Advertised
  /\ \A l \in Life : \A i \in 1..Len(feed[l]) - 1 : feed[l][i] # Seal
  /\ \A l \in Life : l > node.life => feed[l] = <<>> /\ landed[l] = {}

\* Somebody is left to publish w.
Pending(w) == task[w] = "landed" \/ (task[w] = "died" /\ wait[w] = "waiting")

Told(l, w) == w \in Events(l) \/ w \in orphans

\* Every mutation that landed is told or pending; one that was published does
\* not land any more.
Accounted ==
  /\ \A l \in Life : IsSealed(l) => \A w \in landed[l] : Told(l, w)
  /\ node.up => \A w \in landed[node.life] : Told(node.life, w) \/ Pending(w)
  /\ \A l \in Life, w \in Write :
       w \in Events(l) => task[w] \in {"published", "ended", "died"}

\* The last event p delivered is a seal.
AtSeal(p) == peer[p].pos > 0 /\ feed[peer[p].life][peer[p].pos] = Seal

\* p's place in the feed, and its evidence, ...
Placed(p) ==
  /\ peer[p].life <= node.life
  /\ peer[p].pos <= Len(feed[peer[p].life])
  /\ peer[p].sealed = IF AtSeal(p) THEN peer[p].life ELSE 0

\* ... what a serving index reflects, ...
Reflects(p) ==
  peer[p].serving =>
    /\ \A l \in Life : l < peer[p].life => landed[l] \subseteq peer[p].known \cup orphans
    /\ \A i \in 1..peer[p].pos :
         feed[peer[p].life][i] \in landed[peer[p].life] =>
           feed[peer[p].life][i] \in peer[p].known

\* ... and the gaps it took.
Crossed(p) ==
  /\ \A g \in gaps[p] : /\ g[2] <= peer[p].life
                        /\ peer[p].renewed # 0 => g[2] < peer[p].renewed
  /\ p \notin setting.peers => gaps[p] = {}
  /\ p \in setting.peers =>
       \A l \in observed : l < peer[p].life \/ peer[p].sealed = l
  /\ \A l \in observed : <<l, l + 1>> \notin gaps[p]

PeersOK == \A p \in Peer : Placed(p) /\ Reflects(p) /\ Crossed(p)

Inv == TypeOK /\ Counted /\ Sealing /\ Accounted /\ PeersOK

-----------------------------------------------------------------------------
(* Counting guards.                                                        *)

\* The steps are short and many: the solver gets more than its usual five seconds.
USE SMTT(30)

\* One guard more.
LEMMA OneMore ==
  ASSUME NEW S, IsFiniteSet(S), NEW x, x \notin S
  PROVE  /\ IsFiniteSet(S \cup {x})
         /\ Cardinality(S \cup {x}) = Cardinality(S) + 1
         /\ Cardinality(S) \in Nat
  BY FS_AddElement, FS_CardinalityType

\* One guard less.
LEMMA OneLess ==
  ASSUME NEW S, IsFiniteSet(S), NEW x \in S
  PROVE  /\ IsFiniteSet(S \ {x})
         /\ Cardinality(S \ {x}) = Cardinality(S) - 1
         /\ Cardinality(S) \in Nat \ {0}
<1>1. IsFiniteSet(S \ {x}) /\ Cardinality(S \ {x}) = Cardinality(S) - 1
  BY FS_RemoveElement
<1>2. Cardinality(S) \in Nat /\ Cardinality(S) # 0
  BY FS_CardinalityType, FS_EmptySet
<1> QED
  BY <1>1, <1>2

\* When the count is zero nothing runs: this is what the seal waits for.
LEMMA ZeroIsQuiet ==
  ASSUME Counted, node.up, node.running = 0
  PROVE  Quiet
<1>1. Cardinality(Tails) \in Nat /\ Cardinality(Handlers) \in Nat
  BY FS_CardinalityType DEF Counted
<1>2. Cardinality(Tails) = 0 /\ Cardinality(Handlers) = 0
  BY <1>1 DEF Counted
<1> QED
  BY <1>2, FS_EmptySet DEF Counted, Quiet

\* The node's own state is typed.
LEMMA NodeTyped == TypeOK => node \in Node
  BY DEF TypeOK

\* The task of w gives its guard back.
LEMMA TaskEnds ==
  ASSUME TypeOK, Counted, node.up, NEW w \in Tails,
         NEW to \in {"ended", "died"}, task' = [task EXCEPT ![w] = to],
         wait' = wait, DropGuard
  PROVE  Counted' /\ node' \in Node /\ Tails' \subseteq Tails /\ Handlers' = Handlers
<1>1. Tails' = Tails \ {w} /\ Handlers' = Handlers
  BY DEF Tails, Handlers, TypeOK
<1>2. /\ IsFiniteSet(Tails') /\ Cardinality(Tails') = Cardinality(Tails) - 1
      /\ Cardinality(Tails) \in Nat \ {0} /\ Cardinality(Handlers) \in Nat
  BY <1>1, OneLess, FS_CardinalityType DEF Counted
<1>3. /\ node'.up /\ node'.running = node.running - 1
      /\ node.running = Cardinality(Tails) + Cardinality(Handlers)
  BY NodeTyped DEF DropGuard, Node, Counted
<1>4. node' \in Node
  BY <1>2, <1>3, NodeTyped DEF DropGuard, Node
<1>5. \A x \in Write : task'[x] = "idle" <=> wait'[x] = "idle"
  <2>1. w \in Write /\ task[w] # "idle" /\ to # "idle" /\ task \in [Write -> TaskState]
    BY DEF Tails, TypeOK
  <2> QED
    BY <2>1 DEF Counted
<1> QED
  BY <1>1, <1>2, <1>3, <1>4, <1>5 DEF Counted

\* The handler of w gives its guard back.
LEMMA WaitEnds ==
  ASSUME TypeOK, Counted, node.up, NEW w \in Handlers,
         wait' = [wait EXCEPT ![w] = "over"], task' = task, DropGuard
  PROVE  Counted' /\ node' \in Node /\ Tails' = Tails /\ Handlers' \subseteq Handlers
<1>1. Handlers' = Handlers \ {w} /\ Tails' = Tails
  BY DEF Tails, Handlers, TypeOK
<1>2. /\ IsFiniteSet(Handlers') /\ Cardinality(Handlers') = Cardinality(Handlers) - 1
      /\ Cardinality(Handlers) \in Nat \ {0} /\ Cardinality(Tails) \in Nat
  BY <1>1, OneLess, FS_CardinalityType DEF Counted
<1>3. /\ node'.up /\ node'.running = node.running - 1
      /\ node.running = Cardinality(Tails) + Cardinality(Handlers)
  BY NodeTyped DEF DropGuard, Node, Counted
<1>4. node' \in Node
  BY <1>2, <1>3, NodeTyped DEF DropGuard, Node
<1>5. \A x \in Write : task'[x] = "idle" <=> wait'[x] = "idle"
  BY DEF Counted, TypeOK, Handlers
<1> QED
  BY <1>1, <1>2, <1>3, <1>4, <1>5 DEF Counted

-----------------------------------------------------------------------------
(* The feeds.                                                              *)

Event == Write \cup {Seal}

\* An event is appended to the running life's feed.
Appends(e) == feed' = [feed EXCEPT ![node.life] = Append(@, e)]

\* What an append does to every life's feed.
LEMMA FeedGrows ==
  ASSUME TypeOK, NEW e \in Event, Appends(e)
  PROVE  /\ feed' \in [Life -> Seq(Event)]
         /\ \A l \in Life : l # node.life => feed'[l] = feed[l]
         /\ Len(feed'[node.life]) = Len(feed[node.life]) + 1
         /\ \A i \in 1..Len(feed[node.life]) : feed'[node.life][i] = feed[node.life][i]
         /\ feed'[node.life][Len(feed[node.life]) + 1] = e
<1>1. node.life \in Life /\ feed \in [Life -> Seq(Event)]
  BY NodeTyped DEF TypeOK, Node, Event
<1>2. feed[node.life] \in Seq(Event)
  BY <1>1
<1> DEFINE s == Append(feed[node.life], e)
<1>3. /\ s \in Seq(Event) /\ Len(s) = Len(feed[node.life]) + 1
      /\ \A i \in 1..Len(feed[node.life]) : s[i] = feed[node.life][i]
      /\ s[Len(feed[node.life]) + 1] = e
  BY <1>2
<1>4. feed'[node.life] = s /\ \A l \in Life : l # node.life => feed'[l] = feed[l]
  BY <1>1 DEF Appends
<1>5. feed' \in [Life -> Seq(Event)]
  BY <1>1, <1>3 DEF Appends
<1> QED
  BY <1>3, <1>4, <1>5

\* No feed loses an event.
Extends ==
  \A l \in Life : /\ Len(feed[l]) \in Nat /\ Len(feed'[l]) \in Nat
                  /\ Len(feed[l]) <= Len(feed'[l])
                  /\ \A i \in 1..Len(feed[l]) : feed'[l][i] = feed[l][i]

\* An append extends the feeds.
LEMMA AppendExtends ==
  ASSUME TypeOK, NEW e \in Event, Appends(e)
  PROVE  Extends
<1>1. \A l \in Life : Len(feed[l]) \in Nat /\ Len(feed'[l]) \in Nat
  BY FeedGrows DEF TypeOK, Event
<1>2. \A l \in Life : l # node.life => feed'[l] = feed[l]
  BY FeedGrows, Zenon
<1>3. /\ Len(feed'[node.life]) = Len(feed[node.life]) + 1
      /\ \A i \in 1..Len(feed[node.life]) : feed'[node.life][i] = feed[node.life][i]
  BY FeedGrows, Zenon
<1> QED
  BY <1>1, <1>2, <1>3 DEF Extends

\* So does leaving them alone.
LEMMA SameExtends ==
  ASSUME TypeOK, feed' = feed
  PROVE  Extends
  BY DEF TypeOK, Extends

\* A step of the node: the feeds only grow, and what lands now is in no feed
\* yet.
NodeStep ==
  /\ Extends
  /\ UNCHANGED <<setting, peer, gaps, observed>>
  /\ node'.life \in Nat /\ node.life <= node'.life
  /\ orphans \subseteq orphans'
  /\ \A l \in Life : l < node.life => landed'[l] = landed[l]
  /\ \A l \in Life : \A w \in landed'[l] : w \in landed[l] \/ w \notin Events(l)

\* What such a step leaves of a peer's state.
LEMMA PeersKept ==
  ASSUME TypeOK, PeersOK, NodeStep
  PROVE  PeersOK'
<1>0. peer' = peer /\ gaps' = gaps /\ observed' = observed /\ setting' = setting
  BY DEF NodeStep
<1> SUFFICES ASSUME NEW p \in Peer
             PROVE  Placed(p)' /\ Reflects(p)' /\ Crossed(p)'
  BY DEF PeersOK
<1>1. Placed(p) /\ Reflects(p) /\ Crossed(p)
  BY DEF PeersOK
<1>2. /\ peer[p].life \in Life /\ peer[p].pos \in Nat /\ node.life \in Life
      /\ Life \subseteq Nat /\ peer[p].life \in Nat /\ node.life \in Nat
  <2>1. peer[p] \in PeerState /\ node \in Node
    BY DEF TypeOK
  <2> QED
    BY <2>1, StopAssumption DEF PeerState, Node, Life
<1>3. peer[p].pos <= Len(feed[peer[p].life]) /\ peer[p].life <= node.life
  BY <1>1, Zenon DEF Placed
<1>4. /\ peer[p].pos <= Len(feed'[peer[p].life])
      /\ \A i \in 1..peer[p].pos : feed'[peer[p].life][i] = feed[peer[p].life][i]
  <2>1. /\ Len(feed[peer[p].life]) \in Nat /\ Len(feed'[peer[p].life]) \in Nat
        /\ Len(feed[peer[p].life]) <= Len(feed'[peer[p].life])
        /\ \A i \in 1..Len(feed[peer[p].life]) :
             feed'[peer[p].life][i] = feed[peer[p].life][i]
    BY <1>2, Zenon DEF NodeStep, Extends
  <2> DEFINE n == peer[p].pos
             m == Len(feed[peer[p].life])
             k == Len(feed'[peer[p].life])
  <2>2. n \in Nat /\ n <= m /\ m \in Nat /\ k \in Nat /\ m <= k
    BY <1>2, <1>3, <2>1, Zenon
  <2> HIDE DEF n, m, k
  <2>3. n <= k /\ 1..n \subseteq 1..m
    BY <2>2
  <2> QED
    BY <2>1, <2>3, Zenon DEF n, m, k
<1>5a. Len(feed[peer[p].life]) \in Nat
  BY <1>2, Zenon DEF NodeStep, Extends
<1>5. AtSeal(p)' <=> AtSeal(p)
  BY <1>0, <1>2, <1>4 DEF AtSeal
<1>6. Placed(p)'
  <2>1. peer[p].life <= node'.life
    BY <1>2, <1>3 DEF NodeStep
  <2>2. peer[p].sealed = IF AtSeal(p)' THEN peer[p].life ELSE 0
    BY <1>1, <1>5, Zenon DEF Placed
  <2> QED
    BY <1>0, <1>4, <2>1, <2>2, Zenon DEF Placed
<1>7. Crossed(p)'
  BY <1>0, <1>1, Zenon DEF Crossed
<1>8. Reflects(p)'
  <2> SUFFICES ASSUME peer[p].serving PROVE Reflects(p)'
    BY <1>0, Zenon DEF Reflects
  <2>1. \A l \in Life : l < peer[p].life => landed'[l] \subseteq peer[p].known \cup orphans'
    <3> TAKE l \in Life
    <3> HAVE l < peer[p].life
    <3>1. l < node.life
      BY <1>2, <1>3
    <3> QED
      BY <1>1, <3>1 DEF Reflects, NodeStep
  <2>2. ASSUME NEW i \in 1..peer[p].pos,
               feed'[peer[p].life][i] \in landed'[peer[p].life]
        PROVE  feed'[peer[p].life][i] \in peer[p].known
    <3>1. feed[peer[p].life][i] \in Events(peer[p].life)
      <4>1. i \in 1..Len(feed[peer[p].life])
        BY <1>2, <1>3, <1>5a
      <4> QED
        BY <4>1, Zenon DEF Events
    <3>2. feed[peer[p].life][i] \in landed[peer[p].life]
      BY <1>2, <1>4, <2>2, <3>1, Zenon DEF NodeStep
    <3> QED
      BY <1>1, <1>4, <3>2, Zenon DEF Reflects
  <2> QED
    BY <1>0, <2>1, <2>2, Zenon DEF Reflects
<1> QED
  BY <1>6, <1>7, <1>8

-----------------------------------------------------------------------------
(* Steps of a mutation's task and handler.                                 *)

\* A step of the running node that is about w alone.
Focus(w) ==
  /\ node.up /\ node' \in Node /\ node'.up
  /\ node'.life = node.life /\ node'.seal = node.seal /\ node'.closed = node.closed
  /\ UNCHANGED <<setting, peer, gaps, observed>>
  /\ task' \in [Write -> TaskState] /\ wait' \in [Write -> WaitState]
  /\ \A x \in Write : x # w => task'[x] = task[x] /\ wait'[x] = wait[x]
  /\ orphans' = orphans \/ orphans' = orphans \cup {w}
  /\ Advertised => Quiet'

Publishes(w) == ~Advertised /\ Appends(w)
Lands(w) ==
  /\ task[w] = "calling" /\ ~Advertised
  /\ landed' = [landed EXCEPT ![node.life] = @ \cup {w}]

\* The feed is left alone or w is appended to the running life's.
LEMMA FocusFeed ==
  ASSUME TypeOK, NEW w \in Write, feed' = feed \/ Publishes(w)
  PROVE  /\ feed' \in [Life -> Seq(Event)] /\ Extends
         /\ \A l \in Life : Events(l) \subseteq Events(l)' /\ Events(l)' \subseteq Events(l) \cup {w}
         /\ \A l \in Life : l # node.life => feed'[l] = feed[l]
<1>1. w \in Event
  BY DEF Event
<1>2. CASE feed' = feed
  <2>1. feed' \in [Life -> Seq(Event)]
    BY <1>2 DEF TypeOK, Event
  <2> QED
    BY <1>2, <2>1, SameExtends, Zenon DEF Events
<1>3. CASE Publishes(w)
  <2>1. Appends(w)
    BY <1>3 DEF Publishes
  <2>2. Extends
    BY <1>1, <2>1, AppendExtends
  <2>3. \A l \in Life : Events(l) \subseteq Events(l)'
    BY <2>2 DEF Extends, Events
  <2>4. /\ feed' \in [Life -> Seq(Event)]
        /\ \A l \in Life : l # node.life => feed'[l] = feed[l]
        /\ Len(feed'[node.life]) = Len(feed[node.life]) + 1
        /\ \A i \in 1..Len(feed[node.life]) : feed'[node.life][i] = feed[node.life][i]
        /\ feed'[node.life][Len(feed[node.life]) + 1] = w
    BY <1>1, <2>1, FeedGrows, Zenon
  <2>5. ASSUME NEW n \in Life, n = node.life
        PROVE  Events(n)' \subseteq Events(n) \cup {w}
    <3>1. Len(feed[n]) \in Nat
      BY DEF TypeOK
    <3>2. SUFFICES ASSUME NEW i \in 1..Len(feed'[n])
                   PROVE  feed'[n][i] \in Events(n) \cup {w}
      BY DEF Events
    <3>3. i \in 1..Len(feed[n]) \/ i = Len(feed[n]) + 1
      BY <2>4, <2>5, <3>1
    <3> QED
      BY <2>4, <2>5, <3>3, Zenon DEF Events
  <2>6. \A l \in Life : Events(l)' \subseteq Events(l) \cup {w}
    BY <2>4, <2>5, Zenon DEF Events
  <2> QED
    BY <2>2, <2>3, <2>4, <2>6, Zenon
<1> QED
  BY <1>2, <1>3

\* After the step w, if it landed, is told or pending, and if it is in a feed
\* it does not land any more.
Settles(w) ==
  /\ \A l \in Life : l = node.life /\ w \in landed'[l] => Told(l, w)' \/ Pending(w)'
  /\ \A l \in Life : w \in Events(l)' => task'[w] \in {"published", "ended", "died"}

\* What landed is typed, and grows by w in the running life at most.
LEMMA FocusLanded ==
  ASSUME TypeOK, NEW w \in Write, landed' = landed \/ Lands(w)
  PROVE  /\ landed' \in [Life -> SUBSET Write]
         /\ \A l \in Life : l # node.life => landed'[l] = landed[l]
         /\ \A l \in Life : landed[l] \subseteq landed'[l]
         /\ \A l \in Life : landed'[l] \subseteq landed[l] \cup {w}
         /\ Advertised \/ task[w] # "calling" => landed' = landed
<1>1. landed \in [Life -> SUBSET Write] /\ node.life \in Life
  BY NodeTyped DEF TypeOK, Node
<1>2. CASE landed' = landed
  BY <1>1, <1>2
<1>3. CASE Lands(w)
  BY <1>1, <1>3 DEF Lands
<1> QED
  BY <1>2, <1>3

\* Such a step keeps the seal structure.
LEMMA FocusSealing ==
  ASSUME TypeOK, Sealing, NEW w \in Write, Focus(w),
         feed' = feed \/ Publishes(w), landed' = landed \/ Lands(w)
  PROVE  Sealing'
<1> USE DEF Sealing
<1>1. /\ node'.life = node.life /\ (Advertised' <=> Advertised) /\ node.life \in Life
      /\ node'.seal = node.seal /\ node'.closed = node.closed
  BY NodeTyped, Zenon DEF Focus, Advertised, Node
<1>2. Advertised' => Quiet'
  BY <1>1 DEF Focus
<1>3. \A l \in Life : l > node.life => feed'[l] = <<>> /\ landed'[l] = {}
  <2>1. \A l \in Life : l > node.life => l # node.life
    BY <1>1, StopAssumption DEF Life
  <2> QED
    BY <2>1, FocusFeed, FocusLanded, Zenon
<1>4. w # Seal
  BY StopAssumption
<1>5. \A l \in Life : Seal \in Events(l)' <=> Seal \in Events(l)
  BY <1>4, FocusFeed, Zenon
<1>6. \A l \in Life : l = node.life => (IsSealed(l)' <=> Advertised)
  BY <1>5, Zenon DEF IsSealed
<1>7. IsSealed(node.life)' <=> Advertised'
  BY <1>1, <1>6, Zenon DEF IsSealed, Events
<1>8. \A l \in Life : \A i \in 1..Len(feed'[l]) - 1 : feed'[l][i] # Seal
  <2>1. CASE feed' = feed
    BY <2>1
  <2>2. CASE Publishes(w)
    <3>1. ASSUME NEW l \in Life, l = node.life, NEW i \in 1..Len(feed'[l]) - 1
          PROVE  feed'[l][i] # Seal
      <4>1. Seal \notin Events(l)
        BY <2>2, <3>1, Zenon DEF Publishes, IsSealed
      <4>2. /\ Len(feed'[l]) = Len(feed[l]) + 1 /\ Len(feed[l]) \in Nat
            /\ \A j \in 1..Len(feed[l]) : feed'[l][j] = feed[l][j]
        BY <2>2, <3>1, FeedGrows DEF Publishes, Event, TypeOK
      <4>3. i \in 1..Len(feed[l])
        BY <3>1, <4>2
      <4> QED
        BY <4>1, <4>2, <4>3, Zenon DEF Events
    <3>2. \A l \in Life : l # node.life => feed'[l] = feed[l]
      BY <2>2, FocusFeed, Zenon
    <3>3. ASSUME NEW l \in Life, l # node.life, NEW i \in 1..Len(feed'[l]) - 1
          PROVE  feed'[l][i] # Seal
      BY <3>2, <3>3
    <3> QED
      BY <3>1, <3>3, Zenon
  <2> QED
    BY <2>1, <2>2
<1> QED
  BY <1>1, <1>2, <1>3, <1>7, <1>8, Zenon

\* Such a step keeps the accounts.
LEMMA FocusAccounted ==
  ASSUME TypeOK, Sealing, Accounted, NEW w \in Write, Focus(w), Settles(w),
         feed' = feed \/ Publishes(w), landed' = landed \/ Lands(w)
  PROVE  Accounted'
<1>1. node'.life = node.life /\ node.up /\ orphans \subseteq orphans' /\ node.life \in Life
  BY NodeTyped DEF Focus, Node
<1>2. \A l \in Life : Events(l) \subseteq Events(l)' /\ Events(l)' \subseteq Events(l) \cup {w}
  BY FocusFeed, Zenon
<1>3. ASSUME NEW l \in Life, NEW x, Told(l, x) PROVE Told(l, x)'
  BY <1>1, <1>2, <1>3, Zenon DEF Told
<1>4. ASSUME NEW l \in Life, IsSealed(l)' PROVE \A x \in landed'[l] : Told(l, x)'
  <2>1. IsSealed(l)
    BY <1>2, <1>4, StopAssumption, Zenon DEF IsSealed
  <2>2. landed'[l] = landed[l]
    BY <2>1, FocusLanded, Zenon DEF Sealing
  <2> QED
    BY <1>3, <2>1, <2>2, Zenon DEF Accounted
<1>5. ASSUME NEW l \in Life, l = node.life, NEW x \in landed'[l]
      PROVE  Told(l, x)' \/ Pending(x)'
  <2>1. CASE x = w
    BY <1>5, <2>1, Zenon DEF Settles
  <2>2. CASE x # w
    <3>1. x \in landed[l] /\ x \in Write
      BY <2>2, FocusLanded DEF TypeOK
    <3>2. Pending(x) => Pending(x)'
      BY <2>2, <3>1, Zenon DEF Pending, Focus
    <3> QED
      BY <1>1, <1>3, <1>5, <3>1, <3>2, Zenon DEF Accounted
  <2> QED
    BY <2>1, <2>2
<1>6. ASSUME NEW l \in Life, NEW x \in Write, x \in Events(l)'
      PROVE  task'[x] \in {"published", "ended", "died"}
  <2>1. CASE x = w
    BY <1>6, <2>1, Zenon DEF Settles
  <2>2. CASE x # w
    <3>1. x \in Events(l) /\ task'[x] = task[x]
      BY <1>2, <1>6, <2>2, Zenon DEF Focus
    <3> QED
      BY <3>1, Zenon DEF Accounted
  <2> QED
    BY <2>1, <2>2
<1>7. \A x \in landed'[node'.life] : Told(node.life, x)' \/ Pending(x)'
  BY <1>1, <1>5, Zenon DEF Told, Events
<1>8. \A l \in Life : IsSealed(l)' => \A x \in landed'[l] : Told(l, x)'
  BY <1>4, Zenon
<1>9. \A l \in Life, x \in Write : x \in Events(l)' => task'[x] \in {"published", "ended", "died"}
  BY <1>6, Zenon
<1> QED
  BY <1>7, <1>8, <1>9, Zenon DEF Accounted

\* Such a step keeps the invariant.
LEMMA FocusKeeps ==
  ASSUME Inv, NEW w \in Write, Focus(w), Settles(w), Counted',
         feed' = feed \/ Publishes(w), landed' = landed \/ Lands(w)
  PROVE  Inv'
<1>1. TypeOK /\ Counted /\ Sealing /\ Accounted /\ PeersOK
  BY DEF Inv
<1>2. TypeOK'
  <2>1. feed' \in [Life -> Seq(Write \cup {Seal})]
    BY <1>1, FocusFeed, Zenon DEF Event
  <2>2. landed' \in [Life -> SUBSET Write]
    BY <1>1, FocusLanded, Zenon
  <2>3. orphans' \subseteq Write
    BY <1>1 DEF TypeOK, Focus
  <2> QED
    BY <1>1, <2>1, <2>2, <2>3, Zenon DEF TypeOK, Focus
<1>3. Sealing' /\ Accounted'
  BY <1>1, FocusSealing, FocusAccounted, Zenon
<1>4. NodeStep
  <2>1. Extends /\ UNCHANGED <<setting, peer, gaps, observed>> /\ orphans \subseteq orphans'
    BY <1>1, FocusFeed DEF Focus
  <2>2. node'.life \in Nat /\ node.life <= node'.life
    <3>1. node.life \in Nat /\ node'.life = node.life
      BY <1>1, NodeTyped, StopAssumption DEF Node, Life, Focus
    <3> QED
      BY <3>1
  <2>3. \A l \in Life : l < node.life => l # node.life
    BY <1>1, NodeTyped, StopAssumption DEF Node, Life
  <2>4. \A l \in Life : l < node.life => landed'[l] = landed[l]
    BY <1>1, <2>3, FocusLanded, Zenon
  <2>5. ASSUME NEW l \in Life, NEW x \in landed'[l], x \notin landed[l]
        PROVE  x \notin Events(l)
    <3>1. x = w /\ task[w] = "calling"
      BY <1>1, <2>5, FocusLanded, Zenon
    <3> QED
      BY <1>1, <3>1 DEF Accounted
  <2> QED
    BY <2>1, <2>2, <2>4, <2>5, Zenon DEF NodeStep
<1>5. PeersOK'
  BY <1>1, <1>4, PeersKept
<1> QED
  BY <1>2, <1>3, <1>5 DEF Inv

\* Mutations begin.
LEMMA AdmitKeeps ==
  ASSUME Inv, NEW w \in Write, Admit(w)
  PROVE  Inv'
<1> USE DEF Admit, Moves
<1>1. TypeOK /\ Counted /\ Sealing /\ Accounted
  BY DEF Inv
<1>2. /\ task[w] = "idle" /\ wait[w] = "idle" /\ node.up /\ ~node.closed
      /\ task' = [task EXCEPT ![w] = "calling"] /\ wait' = [wait EXCEPT ![w] = "waiting"]
  BY <1>1 DEF Counted
<1>3. Tails' = Tails \cup {w} /\ Handlers' = Handlers \cup {w} /\ w \notin Tails /\ w \notin Handlers
  BY <1>1, <1>2 DEF Tails, Handlers, TypeOK
<1>4. /\ node' \in Node /\ node'.up /\ node'.life = node.life /\ node'.seal = node.seal
      /\ node'.closed = node.closed /\ node'.running = node.running + 2 /\ node.running \in Nat
  BY <1>1, NodeTyped DEF Node
<1>5. Counted'
  <2>1. /\ IsFiniteSet(Tails') /\ Cardinality(Tails') = Cardinality(Tails) + 1
        /\ Cardinality(Tails) \in Nat
    BY <1>1, <1>3, OneMore DEF Counted
  <2>2. /\ IsFiniteSet(Handlers') /\ Cardinality(Handlers') = Cardinality(Handlers) + 1
        /\ Cardinality(Handlers) \in Nat
    BY <1>1, <1>3, OneMore DEF Counted
  <2>3. node'.running = Cardinality(Tails') + Cardinality(Handlers')
    BY <1>1, <1>2, <1>4, <2>1, <2>2 DEF Counted
  <2>4. \A x \in Write : task'[x] = "idle" <=> wait'[x] = "idle"
    BY <1>1, <1>2 DEF Counted, TypeOK
  <2> QED
    BY <1>4, <2>1, <2>2, <2>3, <2>4, Zenon DEF Counted
<1>6. ~Advertised
  BY <1>1, <1>2, NodeTyped DEF Sealing, Advertised
<1>7. task' \in [Write -> TaskState] /\ wait' \in [Write -> WaitState]
  BY <1>1, <1>2 DEF TypeOK, TaskState, WaitState
<1>8. \A x \in Write : x # w => task'[x] = task[x] /\ wait'[x] = wait[x]
  BY <1>1, <1>2 DEF TypeOK
<1>9. Focus(w)
  BY <1>2, <1>4, <1>6, <1>7, <1>8, Zenon DEF Focus
<1>10. Settles(w)
  <2>1. \A l \in Life : w \notin Events(l)
    BY <1>1, <1>2 DEF Accounted
  <2>2. \A l \in Life : l = node.life => w \notin landed[l] \/ w \in orphans
    BY <1>1, <1>2, <2>1 DEF Accounted, Told, Pending
  <2> QED
    BY <2>1, <2>2, Zenon DEF Settles, Told, Events
<1> QED
  BY <1>5, <1>9, <1>10, FocusKeeps, Zenon

\* A task or a handler of w is still about, so the seal is not.
LEMMA NotSealed ==
  ASSUME Sealing, NEW w \in Tails \cup Handlers
  PROVE  ~Advertised
  BY DEF Sealing, Quiet

\* A step of w's task from one state into another, if nothing else of the
\* node changes but the count.
LEMMA TaskMoves ==
  ASSUME Inv, NEW w \in Tails, node.up, NEW to \in TaskState \ {"idle"},
         task' = [task EXCEPT ![w] = to], wait' = wait, Counted',
         node' = node \/ DropGuard, node' \in Node, orphans' = orphans \/ orphans' = orphans \cup {w},
         UNCHANGED <<setting, peer, gaps, observed>>
  PROVE  Focus(w) /\ ~Advertised
<1>1. TypeOK /\ Sealing
  BY DEF Inv
<1>2. ~Advertised /\ w \in Write
  BY <1>1, NotSealed DEF Tails
<1>3. /\ node'.life = node.life /\ node'.seal = node.seal /\ node'.closed = node.closed
      /\ node'.up
  BY <1>1, NodeTyped DEF DropGuard, Node
<1>4. task' \in [Write -> TaskState] /\ wait' \in [Write -> WaitState]
  BY <1>1, <1>2 DEF TypeOK
<1>5. \A x \in Write : x # w => task'[x] = task[x] /\ wait'[x] = wait[x]
  BY <1>1, <1>2 DEF TypeOK
<1> QED
  BY <1>2, <1>3, <1>4, <1>5, Zenon DEF Focus

\* A step of w's handler, if nothing else of the node changes but the count.
LEMMA WaitMoves ==
  ASSUME Inv, NEW w \in Handlers, node.up,
         wait' = [wait EXCEPT ![w] = "over"], task' = task, Counted',
         DropGuard, node' \in Node, orphans' = orphans \/ orphans' = orphans \cup {w},
         UNCHANGED <<setting, peer, gaps, observed>>
  PROVE  Focus(w) /\ ~Advertised
<1>1. TypeOK /\ Sealing
  BY DEF Inv
<1>2. ~Advertised /\ w \in Write
  BY <1>1, NotSealed DEF Handlers
<1>3. /\ node'.life = node.life /\ node'.seal = node.seal /\ node'.closed = node.closed
      /\ node'.up
  BY <1>1, NodeTyped DEF DropGuard, Node
<1>4. task' \in [Write -> TaskState] /\ wait' \in [Write -> WaitState]
  BY <1>1, <1>2 DEF TypeOK, WaitState
<1>5. \A x \in Write : x # w => task'[x] = task[x] /\ wait'[x] = wait[x]
  BY <1>1, <1>2 DEF TypeOK
<1> QED
  BY <1>2, <1>3, <1>4, <1>5, Zenon DEF Focus

\* A step that neither lands nor publishes settles w if it takes nobody away
\* who was to publish it.
LEMMA SettlesSame ==
  ASSUME Accounted, node.up, NEW w \in Write, feed' = feed, landed' = landed,
         orphans \subseteq orphans',
         Pending(w) => Pending(w)' \/ Told(node.life, w)' \/ w \in orphans',
         task'[w] = task[w] \/ task'[w] \in {"published", "ended", "died"},
         node'.life = node.life
  PROVE  Settles(w)
<1>1. \A l \in Life : l = node.life /\ w \in landed[l] => Told(l, w) \/ Pending(w)
  BY DEF Accounted
<1>2. \A l \in Life : Told(l, w) => Told(l, w)'
  BY Zenon DEF Told, Events
<1>3. \A l \in Life : l = node.life /\ Told(node.life, w)' => Told(l, w)'
  BY Zenon DEF Told, Events
<1>4. \A l \in Life : w \in orphans' => Told(l, w)'
  BY Zenon DEF Told
<1>5. \A l \in Life : l = node.life /\ w \in landed'[l] => Told(l, w)' \/ Pending(w)'
  BY <1>1, <1>2, <1>3, <1>4, Zenon
<1>6. \A l \in Life : w \in Events(l)' => task'[w] \in {"published", "ended", "died"}
  <2> TAKE l \in Life
  <2> HAVE w \in Events(l)'
  <2>1. w \in Events(l)
    BY Zenon DEF Events
  <2>2. task[w] \in {"published", "ended", "died"}
    BY <2>1, Zenon DEF Accounted
  <2> QED
    BY <2>2, Zenon
<1> QED
  BY <1>5, <1>6, Zenon DEF Settles

\* A step that publishes w settles it.
LEMMA SettlesPublished ==
  ASSUME TypeOK, NEW w \in Write, Appends(w), task'[w] \in {"published", "ended", "died"}
  PROVE  Settles(w)
<1>1. ASSUME NEW l \in Life, l = node.life PROVE Told(l, w)'
  <2>1. /\ Len(feed'[l]) = Len(feed[l]) + 1 /\ Len(feed[l]) \in Nat
        /\ feed'[l][Len(feed[l]) + 1] = w
    BY <1>1, FeedGrows DEF Event, TypeOK
  <2>2. w \in Events(l)'
    BY <2>1 DEF Events
  <2> QED
    BY <2>2 DEF Told
<1> QED
  BY <1>1, Zenon DEF Settles

\* The steps of w's task.
LEMMA TailStepKeeps ==
  ASSUME Inv, NEW w \in Write, TailStep(w)
  PROVE  Inv'
<1>0. TypeOK /\ Counted /\ Accounted /\ node \in Node
  BY NodeTyped DEF Inv
<1>1. ASSUME Land(w) PROVE Inv'
  <2>1. /\ task[w] = "calling" /\ task' = [task EXCEPT ![w] = "landed"] /\ node' = node
        /\ feed' = feed /\ orphans' = orphans /\ wait' = wait /\ node.up
        /\ UNCHANGED <<setting, peer, gaps, observed>>
    BY <1>1 DEF Land, Moves
  <2>2. w \in Tails /\ Tails' = Tails /\ Handlers' = Handlers
    BY <1>0, <2>1 DEF Tails, Handlers, TypeOK
  <2>3. \A x \in Write : task'[x] = "idle" <=> wait'[x] = "idle"
    BY <1>0, <2>1 DEF TypeOK, Counted
  <2>4. Counted'
    BY <1>0, <2>1, <2>2, <2>3, Zenon DEF Counted
  <2>5. Focus(w) /\ ~Advertised
    BY <1>0, <2>1, <2>2, <2>4, TaskMoves, Zenon DEF TaskState
  <2>6. Lands(w)
    BY <1>1, <2>1, <2>5 DEF Lands, Land
  <2>7. task'[w] = "landed" /\ \A l \in Life : w \notin Events(l)'
    BY <1>0, <2>1, Zenon DEF TypeOK, Accounted, Events
  <2>8. Settles(w)
    BY <2>7, Zenon DEF Settles, Pending
  <2> QED
    BY <2>1, <2>4, <2>5, <2>6, <2>8, FocusKeeps, Zenon
<1>2. ASSUME Refuse(w) PROVE Inv'
  <2>1. /\ task[w] = "calling" /\ task' = [task EXCEPT ![w] = "ended"] /\ DropGuard
        /\ feed' = feed /\ orphans' = orphans /\ wait' = wait /\ landed' = landed /\ node.up
        /\ UNCHANGED <<setting, peer, gaps, observed>>
    BY <1>2 DEF Refuse, Moves
  <2>2. w \in Tails
    BY <2>1 DEF Tails
  <2>3. Counted' /\ node' \in Node
    BY <1>0, <2>1, <2>2, TaskEnds, Zenon
  <2>4. Focus(w)
    BY <2>1, <2>2, <2>3, TaskMoves, Zenon DEF TaskState
  <2>5. task'[w] = "ended" /\ ~Pending(w) /\ node'.life = node.life
    BY <1>0, <2>1, <2>4 DEF TypeOK, Pending, Focus
  <2>6. Settles(w)
    BY <1>0, <2>1, <2>5, SettlesSame
  <2> QED
    BY <2>1, <2>3, <2>4, <2>6, FocusKeeps, Zenon
<1>3. ASSUME Publish(w) PROVE Inv'
  <2>1. /\ task[w] \in {"landed", "calling"} /\ task' = [task EXCEPT ![w] = "published"]
        /\ node' = node /\ Appends(w) /\ landed' = landed /\ node.up
        /\ orphans' = orphans /\ wait' = wait
        /\ UNCHANGED <<setting, peer, gaps, observed>>
    BY <1>3 DEF Publish, Moves, Appends
  <2>2. w \in Tails /\ Tails' = Tails /\ Handlers' = Handlers
    BY <1>0, <2>1 DEF Tails, Handlers, TypeOK
  <2>3. \A x \in Write : task'[x] = "idle" <=> wait'[x] = "idle"
    BY <1>0, <2>1 DEF TypeOK, Counted
  <2>4. Counted'
    BY <1>0, <2>1, <2>2, <2>3, Zenon DEF Counted
  <2>5. Focus(w) /\ ~Advertised
    BY <1>0, <2>1, <2>2, <2>4, TaskMoves, Zenon DEF TaskState
  <2>6. task'[w] = "published"
    BY <1>0, <2>1 DEF TypeOK
  <2>7. Settles(w)
    BY <1>0, <2>1, <2>6, SettlesPublished
  <2>8. Publishes(w)
    BY <2>1, <2>5 DEF Publishes
  <2> QED
    BY <2>1, <2>4, <2>5, <2>7, <2>8, FocusKeeps, Zenon
<1>4. ASSUME Finish(w) PROVE Inv'
  <2>1. /\ task[w] = "published" /\ task' = [task EXCEPT ![w] = "ended"] /\ DropGuard
        /\ feed' = feed /\ orphans' = orphans /\ wait' = wait /\ landed' = landed /\ node.up
        /\ UNCHANGED <<setting, peer, gaps, observed>>
    BY <1>4 DEF Finish, Moves
  <2>2. w \in Tails
    BY <2>1 DEF Tails
  <2>3. Counted' /\ node' \in Node
    BY <1>0, <2>1, <2>2, TaskEnds, Zenon
  <2>4. Focus(w)
    BY <2>1, <2>2, <2>3, TaskMoves, Zenon DEF TaskState
  <2>5. task'[w] = "ended" /\ ~Pending(w) /\ node'.life = node.life
    BY <1>0, <2>1, <2>4 DEF TypeOK, Pending, Focus
  <2>6. Settles(w)
    BY <1>0, <2>1, <2>5, SettlesSame
  <2> QED
    BY <2>1, <2>3, <2>4, <2>6, FocusKeeps, Zenon
<1> QED
  BY <1>1, <1>2, <1>3, <1>4 DEF TailStep

\* A task that dies leaves its mutation to the handler, or, when that is gone,
\* to nobody.
LEMMA DieKeeps ==
  ASSUME Inv, NEW w \in Write, Die(w)
  PROVE  Inv'
<1>0. TypeOK /\ Counted /\ Accounted
  BY DEF Inv
<1>1. /\ task[w] \in {"calling", "landed", "published"} /\ task' = [task EXCEPT ![w] = "died"]
      /\ DropGuard /\ Orphaned(w, wait[w] = "over")
      /\ feed' = feed /\ wait' = wait /\ landed' = landed /\ node.up
      /\ UNCHANGED <<setting, peer, gaps, observed>>
  BY DEF Die
<1>2. w \in Tails
  BY <1>1 DEF Tails
<1>3. Counted' /\ node' \in Node
  BY <1>0, <1>1, <1>2, TaskEnds, Zenon
<1>4. orphans' = orphans \/ orphans' = orphans \cup {w}
  BY <1>1 DEF Orphaned
<1>5. Focus(w)
  BY <1>1, <1>2, <1>3, <1>4, TaskMoves, Zenon DEF TaskState
<1>6. task'[w] = "died" /\ node'.life = node.life
  BY <1>0, <1>1, <1>5 DEF TypeOK, Focus
<1>7. Pending(w)' \/ Told(node.life, w)'
  <2>1. wait[w] = "waiting" \/ wait[w] = "over"
    BY <1>0, <1>1 DEF TypeOK, WaitState, Counted
  <2>2. CASE wait[w] = "waiting"
    BY <1>1, <1>6, <2>2, Zenon DEF Pending
  <2>3. CASE wait[w] = "over"
    <3>1. w \in orphans' \/ w \in Events(node.life)
      BY <1>1, <2>3 DEF Orphaned
    <3> QED
      BY <1>1, <1>6, <3>1, Zenon DEF Told, Events
  <2> QED
    BY <2>1, <2>2, <2>3
<1>8. Settles(w)
  BY <1>0, <1>1, <1>4, <1>6, <1>7, SettlesSame, Zenon
<1> QED
  BY <1>1, <1>3, <1>5, <1>8, FocusKeeps, Zenon

\* The handler answers; when the task died it publishes first.
LEMMA HandlerKeeps ==
  ASSUME Inv, NEW w \in Write, Handler(w)
  PROVE  Inv'
<1>0. TypeOK /\ Counted /\ Accounted
  BY DEF Inv
<1>1. /\ wait[w] = "waiting" /\ wait' = [wait EXCEPT ![w] = "over"] /\ DropGuard
      /\ task' = task /\ orphans' = orphans /\ landed' = landed /\ node.up
      /\ UNCHANGED <<setting, peer, gaps, observed>>
  BY DEF Handler, Answer, AnnounceUnknown
<1>2. w \in Handlers
  BY <1>1 DEF Handlers
<1>3. Counted' /\ node' \in Node
  BY <1>0, <1>1, <1>2, WaitEnds, Zenon
<1>4. Focus(w) /\ ~Advertised
  BY <1>1, <1>2, <1>3, WaitMoves, Zenon
<1>5. ASSUME Answer(w) PROVE Inv'
  <2>1. task[w] = "ended" /\ feed' = feed
    BY <1>5 DEF Answer
  <2>2. ~Pending(w) /\ node'.life = node.life
    BY <1>4, <2>1 DEF Pending, Focus
  <2>3. Settles(w)
    BY <1>0, <1>1, <2>1, <2>2, SettlesSame, Zenon
  <2> QED
    BY <1>1, <1>3, <1>4, <2>1, <2>3, FocusKeeps, Zenon
<1>6. ASSUME AnnounceUnknown(w) PROVE Inv'
  <2>1. task[w] = "died" /\ Appends(w)
    BY <1>6 DEF AnnounceUnknown, Appends
  <2>2. Settles(w)
    BY <1>0, <1>1, <2>1, SettlesPublished, Zenon
  <2>3. Publishes(w)
    BY <1>4, <2>1 DEF Publishes
  <2> QED
    BY <1>1, <1>3, <1>4, <2>2, <2>3, FocusKeeps, Zenon
<1> QED
  BY <1>5, <1>6 DEF Handler

\* A hang-up leaves the mutation to its task, or, when that is dead, to nobody.
LEMMA HangUpKeeps ==
  ASSUME Inv, NEW w \in Write, HangUp(w)
  PROVE  Inv'
<1>0. TypeOK /\ Counted /\ Accounted
  BY DEF Inv
<1>1. /\ wait[w] = "waiting" /\ wait' = [wait EXCEPT ![w] = "over"] /\ DropGuard
      /\ Orphaned(w, task[w] = "died")
      /\ feed' = feed /\ task' = task /\ landed' = landed /\ node.up
      /\ UNCHANGED <<setting, peer, gaps, observed>>
  BY DEF HangUp
<1>2. w \in Handlers
  BY <1>1 DEF Handlers
<1>3. Counted' /\ node' \in Node
  BY <1>0, <1>1, <1>2, WaitEnds, Zenon
<1>4. orphans' = orphans \/ orphans' = orphans \cup {w}
  BY <1>1 DEF Orphaned
<1>5. Focus(w)
  BY <1>1, <1>2, <1>3, <1>4, WaitMoves, Zenon
<1>6. node'.life = node.life
  BY <1>5 DEF Focus
<1>7. Pending(w) => Pending(w)' \/ Told(node.life, w)'
  <2>1. CASE task[w] = "landed"
    BY <1>1, <2>1, Zenon DEF Pending
  <2>2. CASE task[w] = "died"
    <3>1. w \in orphans' \/ w \in Events(node.life)
      BY <1>1, <2>2 DEF Orphaned
    <3> QED
      BY <1>1, <1>6, <3>1, Zenon DEF Told, Events
  <2> QED
    BY <2>1, <2>2, Zenon DEF Pending
<1>8. Settles(w)
  BY <1>0, <1>1, <1>4, <1>6, <1>7, SettlesSame, Zenon
<1> QED
  BY <1>1, <1>3, <1>5, <1>8, FocusKeeps, Zenon

-----------------------------------------------------------------------------
(* The stop, the exit and the next life.                                   *)

\* The stop moves on and the feed stays as it is.
SealMoves ==
  /\ node.up /\ node' \in Node /\ node'.up /\ node'.life = node.life
  /\ node'.running = node.running /\ (node'.seal # "none" => node'.closed)
  /\ Advertised' <=> Advertised
  /\ UNCHANGED <<setting, task, wait, landed, feed, peer, orphans, gaps>>

\* The parts of the invariant about the node's own state survive that.
LEMMA SealMovesKeeps ==
  ASSUME Inv, SealMoves, observed' \subseteq Life
  PROVE  TypeOK' /\ Counted' /\ Sealing' /\ Accounted'
<1>0. TypeOK /\ Counted /\ Sealing /\ Accounted
  BY DEF Inv
<1>1. TypeOK'
  BY <1>0, Zenon DEF TypeOK, SealMoves
<1>2. Tails' = Tails /\ Handlers' = Handlers
  BY DEF Tails, Handlers, SealMoves
<1>3. Counted'
  BY <1>0, <1>2, Zenon DEF Counted, SealMoves
<1>4. /\ \A l \in Life : Events(l)' = Events(l)
      /\ Events(node.life)' = Events(node.life)
  BY Zenon DEF Events, SealMoves
<1>5. Sealing'
  BY <1>0, <1>2, <1>4, Zenon DEF Sealing, IsSealed, Quiet, SealMoves
<1>6. Accounted'
  BY <1>0, <1>4, Zenon DEF Accounted, IsSealed, Told, Pending, SealMoves
<1> QED
  BY <1>1, <1>3, <1>5, <1>6

\* The signal, and a seal that is given up or not confirmed.
LEMMA StopKeeps ==
  ASSUME Inv, Stop \/ SealAbandoned \/ SealUnconfirmed
  PROVE  Inv'
<1>0. TypeOK /\ PeersOK /\ node \in Node /\ Sealing
  BY NodeTyped DEF Inv
<1>1. SealMoves
  <2>1. CASE Stop
    BY <1>0, <2>1, Zenon DEF Stop, SealMoves, Node, Advertised
  <2>2. CASE SealAbandoned
    BY <1>0, <2>2 DEF SealAbandoned, SealMoves, Node, Advertised, Sealing
  <2>3. CASE SealUnconfirmed
    BY <1>0, <2>3 DEF SealUnconfirmed, SealMoves, Node, Advertised, Sealing
  <2> QED
    BY <2>1, <2>2, <2>3
<1>2. observed' = observed
  BY DEF Stop, SealAbandoned, SealUnconfirmed
<1>3. TypeOK' /\ Counted' /\ Sealing' /\ Accounted'
  BY <1>0, <1>1, <1>2, SealMovesKeeps, Zenon DEF TypeOK
<1>4. NodeStep
  <2>1. node.life \in Nat /\ node'.life = node.life
    BY <1>0, <1>1, StopAssumption DEF Node, Life, SealMoves
  <2>2. node.life <= node'.life
    BY <2>1
  <2> QED
    BY <1>0, <1>1, <1>2, <2>1, <2>2, SameExtends, Zenon DEF NodeStep, SealMoves
<1> QED
  BY <1>0, <1>3, <1>4, PeersKept DEF Inv

\* A seal is where the feed ends.
LEMMA SealIsLast ==
  ASSUME TypeOK, Sealing, NEW l \in Life, IsSealed(l)
  PROVE  Len(feed[l]) \in Nat \ {0} /\ feed[l][Len(feed[l])] = Seal
<1>1. PICK i \in 1..Len(feed[l]) : feed[l][i] = Seal
  BY DEF IsSealed, Events
<1>2. Len(feed[l]) \in Nat
  BY DEF TypeOK
<1>3. ~(i \in 1..Len(feed[l]) - 1)
  BY <1>1, Zenon DEF Sealing
<1>4. i = Len(feed[l])
  BY <1>2, <1>3
<1> QED
  BY <1>1, <1>2, <1>4

\* Every peer acknowledged the seal: each has delivered it.
LEMMA SealObservedKeeps ==
  ASSUME Inv, SealObserved
  PROVE  Inv'
<1>0. TypeOK /\ PeersOK /\ node \in Node /\ Sealing
  BY NodeTyped DEF Inv
<1>1. SealMoves /\ node.life \in Life /\ observed' = observed \cup {node.life}
  BY <1>0 DEF SealObserved, SealMoves, Node, Advertised, Sealing
<1>2. TypeOK' /\ Counted' /\ Sealing' /\ Accounted'
  BY <1>0, <1>1, SealMovesKeeps DEF TypeOK
<1>3. IsSealed(node.life)
  BY <1>0 DEF SealObserved, Sealing, Advertised
<1>4. ASSUME NEW p \in Peer
      PROVE  Placed(p)' /\ Reflects(p)' /\ Crossed(p)'
  <2>1. Placed(p) /\ Reflects(p) /\ Crossed(p)
    BY <1>0 DEF PeersOK
  <2>0. peer' = peer /\ gaps' = gaps /\ setting' = setting
    BY <1>1 DEF SealMoves
  <2>2. Placed(p)' /\ Reflects(p)'
    BY <1>1, <2>1, Zenon DEF Placed, Reflects, AtSeal, SealMoves
  <2>3. CASE p \notin setting.peers
    BY <2>0, <2>1, <2>2, <2>3 DEF Crossed
  <2>4. CASE p \in setting.peers
    <3>1. peer[p].life = node.life /\ peer[p].pos = Len(feed[node.life])
      BY <2>4 DEF SealObserved, Applied
    <3>2. Len(feed[node.life]) \in Nat \ {0} /\ feed[node.life][Len(feed[node.life])] = Seal
      BY <1>0, <1>1, <1>3, SealIsLast
    <3>3. AtSeal(p)
      BY <3>1, <3>2 DEF AtSeal
    <3>4. peer[p].sealed = node.life
      BY <2>1, <3>1, <3>3, Zenon DEF Placed
    <3>5. <<node.life, node.life + 1>> \notin gaps[p]
      <4>1. \A g \in gaps[p] : g[2] <= node.life
        BY <2>1, <3>1, Zenon DEF Crossed
      <4>2. node.life \in Nat
        BY <1>1, StopAssumption DEF Life
      <4> QED
        BY <4>1, <4>2
    <3> QED
      BY <1>1, <2>0, <2>1, <2>2, <2>4, <3>4, <3>5 DEF Crossed
  <2> QED
    BY <2>2, <2>3, <2>4
<1> QED
  BY <1>2, <1>4, Zenon DEF Inv, PeersOK

\* The count is zero, so nobody is left to publish and all that landed is told.
LEMMA SealWritesKeeps ==
  ASSUME Inv, SealWrites
  PROVE  Inv'
<1>0. TypeOK /\ Counted /\ Sealing /\ Accounted /\ PeersOK /\ node \in Node
  BY NodeTyped DEF Inv
<1>1. /\ node.up /\ node.running = 0 /\ node.seal = "waiting" /\ Appends(Seal)
      /\ node' = [node EXCEPT !.seal = "advertised"]
      /\ UNCHANGED <<setting, orphans, task, wait, landed, peer, gaps, observed>>
  BY DEF SealWrites, Appends
<1>2. /\ node' \in Node /\ node'.up /\ node'.life = node.life /\ node'.closed = node.closed
      /\ node'.running = node.running /\ Advertised' /\ ~Advertised /\ node.life \in Life
      /\ node'.seal # "none"
  BY <1>0, <1>1 DEF Node, Advertised
<1>3. Quiet
  BY <1>0, <1>1, ZeroIsQuiet
<1>4. Tails' = Tails /\ Handlers' = Handlers
  BY <1>1 DEF Tails, Handlers
<1>5. Counted'
  BY <1>0, <1>1, <1>2, <1>4, Zenon DEF Counted
<1> DEFINE n == node.life
<1>6. /\ feed' \in [Life -> Seq(Event)]
      /\ \A l \in Life : l # n => feed'[l] = feed[l]
      /\ Len(feed'[n]) = Len(feed[n]) + 1
      /\ \A i \in 1..Len(feed[n]) : feed'[n][i] = feed[n][i]
      /\ feed'[n][Len(feed[n]) + 1] = Seal
      /\ Len(feed[n]) \in Nat
  BY <1>0, <1>1, <1>2, FeedGrows DEF Event, TypeOK
<1>7. TypeOK'
  BY <1>0, <1>1, <1>2, <1>6, Zenon DEF TypeOK, Event
<1>8. ASSUME NEW l \in Life
      PROVE  Events(l) \subseteq Events(l)' /\ Events(l)' \subseteq Events(l) \cup {Seal}
  <2>1. CASE l # n
    BY <1>6, <2>1, Zenon DEF Events
  <2>2. CASE l = n
    <3>1. ASSUME NEW i \in 1..Len(feed'[n])
          PROVE  feed'[n][i] \in Events(n) \cup {Seal}
      <4>1. i \in 1..Len(feed[n]) \/ i = Len(feed[n]) + 1
        BY <1>6
      <4> QED
        BY <1>6, <4>1, Zenon DEF Events
    <3>2. \A i \in 1..Len(feed[n]) : i \in 1..Len(feed'[n])
      BY <1>6
    <3>3. Events(n) \subseteq {feed'[n][i] : i \in 1..Len(feed'[n])}
      BY <1>6, <3>2, Zenon DEF Events
    <3> QED
      BY <2>2, <3>1, <3>3, Zenon DEF Events
  <2> QED
    BY <2>1, <2>2
<1>9. \A l \in Life : l = n => Seal \in Events(l)'
  <2>1. Len(feed[n]) + 1 \in 1..Len(feed'[n])
    BY <1>6
  <2> QED
    BY <1>6, <2>1, Zenon DEF Events
<1>10. Sealing'
  <2>1. \A l \in Life : l > n => feed'[l] = <<>> /\ landed'[l] = {}
    <3>1. \A l \in Life : l > n => l # n
      BY <1>2, StopAssumption DEF Life
    <3> QED
      BY <1>0, <1>1, <1>6, <3>1, Zenon DEF Sealing
  <2>2. ASSUME NEW l \in Life, NEW i \in 1..Len(feed'[l]) - 1
        PROVE  feed'[l][i] # Seal
    <3>1. CASE l # n
      <4>1. feed'[l] = feed[l]
        BY <1>6, <3>1
      <4>2. i \in 1..Len(feed[l]) - 1
        BY <4>1
      <4> QED
        BY <1>0, <4>1, <4>2, Zenon DEF Sealing
    <3>2. CASE l = n
      <4>1. i \in 1..Len(feed[n])
        BY <1>6, <3>2
      <4>2. Seal \notin Events(n)
        BY <1>0, <1>2, Zenon DEF Sealing, IsSealed
      <4> QED
        BY <1>6, <3>2, <4>1, <4>2, Zenon DEF Events
    <3> QED
      BY <3>1, <3>2
  <2>3. IsSealed(node.life)'
    BY <1>2, <1>9, Zenon DEF IsSealed, Events
  <2>4. Quiet' /\ node'.closed
    BY <1>0, <1>1, <1>2, <1>3, <1>4 DEF Quiet, Sealing
  <2> QED
    BY <1>2, <2>1, <2>2, <2>3, <2>4, Zenon DEF Sealing
<1>11. Accounted'
  <2>1. ASSUME NEW l \in Life, NEW x, Told(l, x) PROVE Told(l, x)'
    BY <1>1, <1>8, <2>1, Zenon DEF Told
  <2>2. \A x \in landed[n] : Told(n, x)
    <3> TAKE x \in landed[n]
    <3>1. x \in Write
      BY <1>0, <1>2 DEF TypeOK
    <3>2. ~Pending(x)
      BY <1>3, <3>1 DEF Pending, Quiet, Tails, Handlers
    <3> QED
      BY <1>0, <1>1, <3>2 DEF Accounted
  <2>3. ASSUME NEW l \in Life, IsSealed(l)' PROVE \A x \in landed'[l] : Told(l, x)'
    <3>1. CASE l = n
      BY <1>1, <2>1, <2>2, <3>1, Zenon
    <3>2. CASE l # n
      <4>1. IsSealed(l)
        BY <1>6, <2>3, <3>2, Zenon DEF IsSealed, Events
      <4> QED
        BY <1>0, <1>1, <2>1, <4>1, Zenon DEF Accounted
    <3> QED
      BY <3>1, <3>2
  <2>4. \A x \in landed'[node'.life] : Told(node.life, x)' \/ Pending(x)'
    <3>1. \A l \in Life : l = node'.life => \A x \in landed'[l] : Told(l, x)'
      BY <1>1, <1>2, <2>1, <2>2, Zenon
    <3> QED
      BY <1>2, <3>1, Zenon DEF Told, Events
  <2>5. ASSUME NEW l \in Life, NEW x \in Write, x \in Events(l)'
        PROVE  task'[x] \in {"published", "ended", "died"}
    <3>1. x \in Events(l)
      BY <1>8, <2>5, StopAssumption
    <3> QED
      BY <1>0, <1>1, <3>1, Zenon DEF Accounted
  <2> QED
    BY <2>3, <2>4, <2>5, Zenon DEF Accounted
<1>12. NodeStep
  <2>1. Extends
    BY <1>0, <1>1, AppendExtends DEF Event
  <2>2. node.life <= node'.life /\ node'.life \in Nat
    BY <1>2, StopAssumption DEF Life
  <2> QED
    BY <1>1, <2>1, <2>2, Zenon DEF NodeStep
<1> QED
  BY <1>0, <1>5, <1>7, <1>10, <1>11, <1>12, PeersKept, Zenon DEF Inv

\* The tasks and the handlers go with the process.
LEMMA ExitKeeps ==
  ASSUME Inv, Exit
  PROVE  Inv'
<1>0. TypeOK /\ Counted /\ Sealing /\ Accounted /\ PeersOK /\ node \in Node
  BY NodeTyped DEF Inv
<1>1. /\ node' = [node EXCEPT !.up = FALSE]
      /\ task' = [w \in Write |-> IF task[w] = "idle" THEN "idle" ELSE "ended"]
      /\ wait' = [w \in Write |-> IF wait[w] = "idle" THEN "idle" ELSE "over"]
      /\ UNCHANGED <<setting, orphans, landed, feed, peer, gaps, observed>>
  BY DEF Exit
<1>2. /\ node' \in Node /\ ~node'.up /\ node'.life = node.life /\ node'.closed = node.closed
      /\ node'.seal = node.seal /\ node.life \in Life
  BY <1>0, <1>1, Zenon DEF Node
<1>3. task' \in [Write -> TaskState] /\ wait' \in [Write -> WaitState]
  BY <1>1 DEF TaskState, WaitState
<1>4. TypeOK'
  BY <1>0, <1>1, <1>2, <1>3, Zenon DEF TypeOK
<1>5. Tails' = {} /\ Handlers' = {}
  BY <1>1 DEF Tails, Handlers
<1>6. \A w \in Write : task'[w] = "idle" <=> wait'[w] = "idle"
  BY <1>0, <1>1 DEF Counted
<1>7. Counted'
  BY <1>2, <1>5, <1>6, FS_EmptySet, Zenon DEF Counted
<1>8. Sealing'
  <2>1. Quiet' /\ (Advertised' <=> Advertised)
    BY <1>2, <1>5 DEF Quiet, Advertised
  <2>2. IsSealed(node.life)' <=> IsSealed(node.life)
    BY <1>1, <1>2, Zenon DEF IsSealed, Events
  <2> QED
    BY <1>0, <1>1, <1>2, <2>1, <2>2, Zenon DEF Sealing
<1>9. Accounted'
  <2>1. ASSUME NEW l \in Life, NEW w \in Write, w \in Events(l)'
        PROVE  task'[w] \in {"published", "ended", "died"}
    <3>1. w \in Events(l)
      BY <1>1, <2>1 DEF Events
    <3>2. task[w] # "idle"
      BY <1>0, <3>1 DEF Accounted
    <3> QED
      BY <1>1, <3>2
  <2>2. \A l \in Life : IsSealed(l)' => \A w \in landed'[l] : Told(l, w)'
    BY <1>0, <1>1, Zenon DEF Accounted, IsSealed, Told, Events
  <2> QED
    BY <1>2, <2>1, <2>2, Zenon DEF Accounted
<1>10. NodeStep
  <2>1. node.life \in Nat /\ node.life <= node'.life
    BY <1>2, StopAssumption DEF Life
  <2> QED
    BY <1>0, <1>1, <1>2, <2>1, SameExtends, Zenon DEF NodeStep
<1> QED
  BY <1>0, <1>4, <1>7, <1>8, <1>9, <1>10, PeersKept, Zenon DEF Inv

\* The new life's feed is empty and nothing of it has landed.
LEMMA RestartKeeps ==
  ASSUME Inv, Restart
  PROVE  Inv'
<1>0. TypeOK /\ Counted /\ Sealing /\ Accounted /\ PeersOK /\ node \in Node
  BY NodeTyped DEF Inv
<1>1. /\ ~node.up /\ node.life < setting.lives /\ node' = NewLife(node.life + 1)
      /\ UNCHANGED <<setting, orphans, task, wait, landed, feed, peer, gaps, observed>>
  BY DEF Restart
<1>2. node.life \in Life /\ node.life + 1 \in Life /\ setting.lives \in Life
  BY <1>0, <1>1, StopAssumption DEF Node, Life, Setting, TypeOK
<1>3. /\ node' \in Node /\ node'.up /\ node'.life = node.life + 1 /\ node'.running = 0
      /\ ~node'.closed /\ node'.seal = "none"
  BY <1>1, <1>2 DEF NewLife, Node
<1>4. TypeOK'
  BY <1>0, <1>1, <1>3, Zenon DEF TypeOK
<1>5. Tails = {} /\ Handlers = {} /\ Tails' = Tails /\ Handlers' = Handlers
  BY <1>0, <1>1 DEF Counted, Tails, Handlers
<1>6. node'.running = Cardinality(Tails') + Cardinality(Handlers')
  BY <1>3, <1>5, FS_EmptySet
<1>7. Counted'
  BY <1>0, <1>1, <1>3, <1>5, <1>6, Zenon DEF Counted
<1>8. \A l \in Life : l >= node.life + 1 => feed[l] = <<>> /\ landed[l] = {}
  <2>1. \A l \in Life : l >= node.life + 1 => l > node.life
    BY <1>2, StopAssumption DEF Life
  <2> QED
    BY <1>0, <2>1, Zenon DEF Sealing
<1>9. feed[node.life + 1] = <<>> /\ landed[node.life + 1] = {}
  BY <1>2, <1>8, StopAssumption DEF Life
<1>10. Sealing'
  <2>1. ~IsSealed(node.life)' /\ ~Advertised'
    BY <1>1, <1>3, <1>9 DEF IsSealed, Events, Advertised
  <2>2. \A l \in Life : l > node'.life => feed'[l] = <<>> /\ landed'[l] = {}
    <3>1. \A l \in Life : l > node'.life => l >= node.life + 1
      BY <1>2, <1>3, StopAssumption DEF Life
    <3> QED
      BY <1>1, <1>8, <3>1, Zenon
  <2>3. \A l \in Life : \A i \in 1..Len(feed'[l]) - 1 : feed'[l][i] # Seal
    BY <1>0, <1>1, Zenon DEF Sealing
  <2> QED
    BY <1>3, <2>1, <2>2, <2>3, Zenon DEF Sealing
<1>11. Accounted'
  <2>1. landed'[node'.life] = {}
    BY <1>1, <1>3, <1>9
  <2> QED
    BY <1>0, <1>1, <2>1, Zenon DEF Accounted, IsSealed, Told, Events
<1>12. NodeStep
  <2>1. node'.life \in Nat /\ node.life <= node'.life
    BY <1>2, <1>3, StopAssumption DEF Life
  <2> QED
    BY <1>0, <1>1, <2>1, SameExtends, Zenon DEF NodeStep
<1> QED
  BY <1>0, <1>4, <1>7, <1>10, <1>11, <1>12, PeersKept, Zenon DEF Inv

\* A step of peer p, which changes nobody else's state.
PeerStep(p) ==
  /\ UNCHANGED <<setting, orphans, node, task, wait, landed, feed, observed>>
  /\ peer' \in [Peer -> PeerState] /\ gaps' \in [Peer -> SUBSET (Life \X Life)]
  /\ \A q \in Peer \ {p} : peer'[q] = peer[q] /\ gaps'[q] = gaps[q]

\* What a peer's step leaves alone.
LEMMA NodeKept ==
  ASSUME Inv, UNCHANGED <<setting, orphans, node, task, wait, landed, feed, observed>>
  PROVE  Counted' /\ Sealing' /\ Accounted'
<1>1. UNCHANGED <<setting, orphans, node, task, wait, landed, feed, observed>>
  OBVIOUS
<1>2. Counted'
  BY <1>1, Zenon DEF Inv, Counted, Tails, Handlers
<1>3. Sealing'
  <2>1. (Quiet' <=> Quiet) /\ (Advertised' <=> Advertised)
    BY <1>1 DEF Quiet, Advertised, Tails, Handlers
  <2>2. IsSealed(node.life)' <=> IsSealed(node.life)
    BY <1>1, Zenon DEF IsSealed, Events
  <2> QED
    BY <1>1, <2>1, <2>2, Zenon DEF Inv, Sealing
<1>4. Accounted'
  <2>1. \A l \in Life : (IsSealed(l)' <=> IsSealed(l)) /\ Events(l)' = Events(l)
    BY <1>1, Zenon DEF IsSealed, Events
  <2>2. \A l, w : Told(l, w)' <=> Told(l, w)
    BY <1>1, Zenon DEF Told, Events
  <2>3. \A w : Told(node.life, w)' <=> Told(node.life, w)
    BY <1>1, Zenon DEF Told, Events
  <2>4. \A w : Pending(w)' <=> Pending(w)
    BY <1>1, Zenon DEF Pending
  <2>5. Accounted
    BY DEF Inv
  <2> QED
    BY <1>1, <2>1, <2>2, <2>3, <2>4, <2>5, Zenon DEF Accounted
<1> QED
  BY <1>2, <1>3, <1>4

\* Only p's own part of the invariant is left to show of it.
LEMMA PeerStepKeeps ==
  ASSUME Inv, NEW p \in Peer, PeerStep(p), Placed(p)', Reflects(p)', Crossed(p)'
  PROVE  Inv'
<1>1. /\ UNCHANGED <<setting, orphans, node, task, wait, landed, feed, observed>>
      /\ peer' \in [Peer -> PeerState] /\ gaps' \in [Peer -> SUBSET (Life \X Life)]
  BY DEF PeerStep
<1>2. TypeOK'
  BY <1>1, Zenon DEF Inv, TypeOK
<1>3. Counted' /\ Sealing' /\ Accounted'
  BY <1>1, NodeKept
<1>4. ASSUME NEW q \in Peer \ {p} PROVE Placed(q)' /\ Reflects(q)' /\ Crossed(q)'
  <2>1. peer'[q] = peer[q] /\ gaps'[q] = gaps[q]
    BY DEF PeerStep
  <2>2. Placed(q) /\ Reflects(q) /\ Crossed(q)
    BY DEF Inv, PeersOK
  <2>3. Placed(q)'
    BY <1>1, <2>1, <2>2, Zenon DEF Placed, AtSeal
  <2>4. Reflects(q)'
    BY <1>1, <2>1, <2>2, Zenon DEF Reflects
  <2>5. Crossed(q)'
    BY <1>1, <2>1, <2>2, Zenon DEF Crossed
  <2> QED
    BY <2>3, <2>4, <2>5
<1>5. PeersOK'
  BY <1>4, Zenon DEF PeersOK
<1> QED
  BY <1>2, <1>3, <1>5 DEF Inv

LEMMA GapsTyped ==
  ASSUME Inv, NEW p \in Peer
  PROVE  \A g \in gaps[p] : g[1] \in Nat /\ g[2] \in Nat
<1>1. gaps[p] \subseteq Life \X Life
  BY DEF Inv, TypeOK
<1>2. Life \subseteq Nat
  BY StopAssumption DEF Life
<1> QED
  BY <1>1, <1>2, Zenon

LEMMA PeerTyped ==
  ASSUME Inv, NEW p \in Peer
  PROVE  /\ peer[p] \in PeerState /\ peer[p].life \in Life /\ peer[p].pos \in Nat
         /\ peer[p].known \subseteq Write /\ peer[p].sealed \in Nat /\ peer[p].renewed \in Nat
         /\ node.life \in Life /\ Life \subseteq Nat \ {0}
         /\ Len(feed[peer[p].life]) \in Nat
         /\ Placed(p) /\ Reflects(p) /\ Crossed(p)
<1>1. peer[p] \in PeerState /\ node \in Node /\ feed \in [Life -> Seq(Write \cup {Seal})]
  BY DEF Inv, TypeOK
<1>2. Placed(p) /\ Reflects(p) /\ Crossed(p)
  BY DEF Inv, PeersOK
<1>3. Life \subseteq Nat \ {0}
  BY StopAssumption DEF Life
<1>4. /\ peer[p].life \in Life /\ peer[p].pos \in Nat /\ peer[p].known \subseteq Write
      /\ peer[p].sealed \in Nat /\ peer[p].renewed \in Nat /\ node.life \in Life
  BY <1>1 DEF PeerState, Node
<1> QED
  BY <1>1, <1>2, <1>3, <1>4

\* A peer that stands at a seal has delivered the whole feed.
LEMMA AtSealIsEnd ==
  ASSUME Inv, NEW p \in Peer, AtSeal(p)
  PROVE  ~Behind(p) /\ peer[p].pos = Len(feed[peer[p].life]) /\ IsSealed(peer[p].life)
<1>1. /\ peer[p].life \in Life /\ peer[p].pos \in Nat /\ Len(feed[peer[p].life]) \in Nat
      /\ peer[p].pos <= Len(feed[peer[p].life])
  BY PeerTyped DEF Placed
<1>2. ~(peer[p].pos \in 1..Len(feed[peer[p].life]) - 1)
  BY <1>1, Zenon DEF Inv, Sealing, AtSeal
<1>3. peer[p].pos > 0
  BY DEF AtSeal
<1>4. peer[p].pos = Len(feed[peer[p].life]) /\ peer[p].pos \in 1..Len(feed[peer[p].life])
  BY <1>1, <1>2, <1>3
<1>5. ~Behind(p)
  BY <1>1, <1>4 DEF Behind
<1>6. IsSealed(peer[p].life)
  BY <1>4, Zenon DEF AtSeal, IsSealed, Events
<1> QED
  BY <1>4, <1>5, <1>6

\* One that is behind holds no seal, and every acknowledged life is over.
LEMMA BehindUnsealed ==
  ASSUME Inv, NEW p \in Peer, Behind(p), p \in setting.peers
  PROVE  peer[p].sealed = 0 /\ \A l \in observed : l < peer[p].life
<1>1. peer[p].sealed = 0
  BY AtSealIsEnd, PeerTyped, Zenon DEF Placed
<1>2. 0 \notin observed
  BY PeerTyped DEF Inv, TypeOK
<1>3. Crossed(p)
  BY PeerTyped
<1>4. \A l \in observed : l < peer[p].life \/ peer[p].sealed = l
  BY <1>3 DEF Crossed
<1> QED
  BY <1>1, <1>2, <1>4, Zenon

\* What a peer's step may put into its state.
LEMMA PeerMoves ==
  ASSUME NEW s \in PeerState
  PROVE  /\ \A k \in Nat, e \in Write : [s EXCEPT !.pos = k + 1, !.known = @ \cup {e}] \in PeerState
         /\ \A k \in Nat, l \in Nat : [s EXCEPT !.pos = k + 1, !.sealed = l] \in PeerState
<1>1. ASSUME NEW k \in Nat, NEW e \in Write
      PROVE  [s EXCEPT !.pos = k + 1, !.known = @ \cup {e}] \in PeerState
  <2>1. k + 1 \in Nat /\ s.known \cup {e} \in SUBSET Write
    BY DEF PeerState
  <2> QED
    BY <2>1, Zenon DEF PeerState
<1>2. ASSUME NEW k \in Nat, NEW l \in Nat
      PROVE  [s EXCEPT !.pos = k + 1, !.sealed = l] \in PeerState
  <2>1. k + 1 \in Nat
    OBVIOUS
  <2> QED
    BY <2>1, Zenon DEF PeerState
<1> QED
  BY <1>1, <1>2, Zenon

\* The index reflects the write before the position moves past it.
LEMMA WroteKeeps ==
  ASSUME Inv, NEW p \in Peer, Wrote(p)
  PROVE  Inv'
<1> DEFINE l == peer[p].life
           k == peer[p].pos
           e == feed[l][k + 1]
<1>0. /\ peer[p] \in PeerState /\ l \in Life /\ k \in Nat /\ peer[p].known \subseteq Write
      /\ Len(feed[l]) \in Nat /\ Placed(p) /\ Reflects(p) /\ Crossed(p)
  BY PeerTyped
<1>1. /\ p \in setting.peers /\ Behind(p) /\ e # Seal
      /\ peer' = [peer EXCEPT ![p].pos = @ + 1, ![p].known = @ \cup {e}]
      /\ UNCHANGED <<setting, orphans, node, task, wait, landed, feed, gaps, observed>>
  BY DEF Wrote, Following, NextEvent
<1>2. k < Len(feed[l]) /\ k + 1 \in 1..Len(feed[l])
  BY <1>0, <1>1 DEF Behind
<1>3. e \in Write
  <2>1. feed[l] \in Seq(Write \cup {Seal})
    BY <1>0 DEF Inv, TypeOK
  <2>2. e \in Write \cup {Seal}
    BY <1>2, <2>1
  <2> QED
    BY <1>1, <2>2
<1>4. peer \in [Peer -> PeerState] /\ gaps \in [Peer -> SUBSET (Life \X Life)]
  BY DEF Inv, TypeOK
<1> HIDE DEF l, k, e
<1>5. /\ peer'[p] = [peer[p] EXCEPT !.pos = k + 1, !.known = @ \cup {e}]
      /\ \A q \in Peer \ {p} : peer'[q] = peer[q]
      /\ peer' \in [Peer -> PeerState]
  <2>1. [peer[p] EXCEPT !.pos = k + 1, !.known = @ \cup {e}] \in PeerState
    BY <1>0, <1>3, PeerMoves, Zenon
  <2> QED
    BY <1>1, <1>4, <2>1, Zenon DEF l, k
<1>6. /\ peer'[p].life = l /\ peer'[p].pos = k + 1 /\ peer'[p].known = peer[p].known \cup {e}
      /\ peer'[p].serving = peer[p].serving /\ peer'[p].sealed = peer[p].sealed
      /\ peer'[p].renewed = peer[p].renewed
  BY <1>0, <1>5 DEF PeerState, l
<1>7. PeerStep(p)
  BY <1>1, <1>4, <1>5, Zenon DEF PeerStep
<1>8. peer[p].sealed = 0 /\ \A x \in observed : x < l
  BY <1>1, BehindUnsealed DEF l
<1>9. Placed(p)'
  <2>1. ~AtSeal(p)'
    BY <1>1, <1>6, Zenon DEF AtSeal, e
  <2>2. l <= node.life
    BY <1>0 DEF Placed, l
  <2>3. k + 1 <= Len(feed[l])
    BY <1>0, <1>2
  <2> QED
    BY <1>1, <1>6, <1>8, <2>1, <2>2, <2>3, Zenon DEF Placed
<1>10. Reflects(p)'
  <2> SUFFICES ASSUME peer'[p].serving
               PROVE  /\ \A m \in Life : m < l => landed[m] \subseteq peer'[p].known \cup orphans
                      /\ \A i \in 1..k + 1 : feed[l][i] \in landed[l] => feed[l][i] \in peer'[p].known
    BY <1>1, <1>6, Zenon DEF Reflects
  <2>1. /\ \A m \in Life : m < l => landed[m] \subseteq peer[p].known \cup orphans
        /\ \A i \in 1..k : feed[l][i] \in landed[l] => feed[l][i] \in peer[p].known
    BY <1>0, <1>6, Zenon DEF Reflects, l, k
  <2>2. \A i \in 1..k + 1 : i \in 1..k \/ i = k + 1
    BY <1>0
  <2>3. feed[l][k + 1] \in peer'[p].known
    BY <1>6, Zenon DEF e
  <2> QED
    BY <1>6, <2>1, <2>2, <2>3, Zenon
<1>11. Crossed(p)'
  BY <1>0, <1>1, <1>6, Zenon DEF Crossed, l
<1> QED
  BY <1>7, <1>9, <1>10, <1>11, PeerStepKeeps, Zenon

\* The seal is no mutation, so the index need not reflect it.
LEMMA SealedKeeps ==
  ASSUME Inv, NEW p \in Peer, Sealed(p)
  PROVE  Inv'
<1> DEFINE l == peer[p].life
           k == peer[p].pos
<1>0. /\ peer[p] \in PeerState /\ l \in Life /\ k \in Nat /\ Life \subseteq Nat \ {0}
      /\ Len(feed[l]) \in Nat /\ Placed(p) /\ Reflects(p) /\ Crossed(p)
  BY PeerTyped
<1>1. /\ p \in setting.peers /\ Behind(p) /\ feed[l][k + 1] = Seal
      /\ peer' = [peer EXCEPT ![p].pos = @ + 1, ![p].sealed = l]
      /\ UNCHANGED <<setting, orphans, node, task, wait, landed, feed, gaps, observed>>
  BY DEF Sealed, Following, NextEvent
<1>2. k < Len(feed[l]) /\ k + 1 <= Len(feed[l]) /\ k + 1 > 0
  BY <1>0, <1>1 DEF Behind
<1>3. Seal \notin landed[l]
  BY <1>0, StopAssumption, Zenon DEF Inv, TypeOK
<1>4. peer \in [Peer -> PeerState] /\ gaps \in [Peer -> SUBSET (Life \X Life)]
  BY DEF Inv, TypeOK
<1> HIDE DEF l, k
<1>5. /\ peer'[p] = [peer[p] EXCEPT !.pos = k + 1, !.sealed = l]
      /\ \A q \in Peer \ {p} : peer'[q] = peer[q]
      /\ peer' \in [Peer -> PeerState]
  <2>1. [peer[p] EXCEPT !.pos = k + 1, !.sealed = l] \in PeerState
    BY <1>0, PeerMoves, Zenon
  <2> QED
    BY <1>1, <1>4, <2>1, Zenon DEF l, k
<1>6. /\ peer'[p].life = l /\ peer'[p].pos = k + 1 /\ peer'[p].known = peer[p].known
      /\ peer'[p].serving = peer[p].serving /\ peer'[p].sealed = l
      /\ peer'[p].renewed = peer[p].renewed
  BY <1>0, <1>5 DEF PeerState, l
<1>7. PeerStep(p)
  BY <1>1, <1>4, <1>5, Zenon DEF PeerStep
<1>8. \A x \in observed : x < l
  BY <1>1, BehindUnsealed DEF l
<1>9. Placed(p)'
  <2>1. AtSeal(p)'
    BY <1>1, <1>2, <1>6, Zenon DEF AtSeal
  <2>2. l <= node.life
    BY <1>0 DEF Placed, l
  <2> QED
    BY <1>1, <1>2, <1>6, <2>1, <2>2, Zenon DEF Placed
<1>10. Reflects(p)'
  <2>1. \A i \in 1..k + 1 : i \in 1..k \/ i = k + 1
    BY <1>0
  <2> QED
    BY <1>0, <1>1, <1>3, <1>6, <2>1, Zenon DEF Reflects, l, k
<1>11. Crossed(p)'
  BY <1>0, <1>1, <1>6, <1>8, Zenon DEF Crossed, l
<1> QED
  BY <1>7, <1>9, <1>10, <1>11, PeerStepKeeps, Zenon

\* A serving peer at its life's seal reflects that life too.
LEMMA SealedLifeReflected ==
  ASSUME Inv, NEW p \in Peer, peer[p].serving, peer[p].sealed # 0
  PROVE  landed[peer[p].life] \subseteq peer[p].known \cup orphans
<1> DEFINE l == peer[p].life
<1>1. l \in Life /\ AtSeal(p) /\ Reflects(p)
  BY PeerTyped, Zenon DEF Placed
<1>2. IsSealed(l) /\ peer[p].pos = Len(feed[l])
  BY <1>1, AtSealIsEnd
<1>3. \A w \in landed[l] : w \in Events(l) \/ w \in orphans
  BY <1>1, <1>2, Zenon DEF Inv, Accounted, Told
<1>4. \A w \in landed[l] : w \in Events(l) => w \in peer[p].known
  BY <1>1, <1>2, Zenon DEF Reflects, Events
<1> QED
  BY <1>3, <1>4

\* The seal was delivered, so what the index reflects covers the old life.
LEMMA RenewedKeeps ==
  ASSUME Inv, NEW p \in Peer, Renewed(p)
  PROVE  Inv'
<1> DEFINE l == peer[p].life
           n == node.life
<1>0. /\ peer[p] \in PeerState /\ l \in Life /\ n \in Life /\ Life \subseteq Nat \ {0}
      /\ Len(feed[n]) \in Nat /\ Placed(p) /\ Reflects(p) /\ Crossed(p)
  BY PeerTyped DEF Inv, TypeOK
<1>1. /\ p \in setting.peers /\ peer[p].sealed = l /\ n = l + 1
      /\ peer' = [peer EXCEPT ![p].life = n, ![p].pos = 0, ![p].sealed = 0, ![p].renewed = n]
      /\ UNCHANGED <<setting, orphans, node, task, wait, landed, feed, gaps, observed>>
  BY DEF Renewed, NewLifeSeen, SealDelivered
<1>2. peer \in [Peer -> PeerState] /\ gaps \in [Peer -> SUBSET (Life \X Life)]
  BY DEF Inv, TypeOK
<1>3. peer[p].serving => landed[l] \subseteq peer[p].known \cup orphans
  BY <1>0, <1>1, SealedLifeReflected
<1>4. n \in Nat /\ 0 \in Nat /\ l < n /\ 0 <= Len(feed[n])
  BY <1>0, <1>1
<1> HIDE DEF l, n
<1>5. /\ peer'[p] = [peer[p] EXCEPT !.life = n, !.pos = 0, !.sealed = 0, !.renewed = n]
      /\ \A q \in Peer \ {p} : peer'[q] = peer[q]
      /\ peer' \in [Peer -> PeerState]
  <2>1. [peer[p] EXCEPT !.life = n, !.pos = 0, !.sealed = 0, !.renewed = n] \in PeerState
    BY <1>0, <1>4, Zenon DEF PeerState
  <2> QED
    BY <1>1, <1>2, <2>1, Zenon
<1>6. /\ peer'[p].life = n /\ peer'[p].pos = 0 /\ peer'[p].known = peer[p].known
      /\ peer'[p].serving = peer[p].serving /\ peer'[p].sealed = 0 /\ peer'[p].renewed = n
  BY <1>0, <1>5 DEF PeerState
<1>7. PeerStep(p)
  BY <1>1, <1>2, <1>5, Zenon DEF PeerStep
<1>8. Placed(p)'
  <2>1. ~AtSeal(p)'
    BY <1>6 DEF AtSeal
  <2>2. n <= node.life
    BY <1>4 DEF n
  <2> QED
    BY <1>1, <1>4, <1>6, <2>1, <2>2, Zenon DEF Placed
<1>9. Reflects(p)'
  <2>1. \A m \in Life : m < n => m < l \/ m = l
    BY <1>0, <1>1
  <2>2. \A i : i \notin 1..0
    OBVIOUS
  <2> QED
    BY <1>0, <1>1, <1>3, <1>6, <2>1, <2>2, Zenon DEF Reflects, l
<1>10. Crossed(p)'
  <2>1. \A g \in gaps[p] : g[2] <= l /\ g[2] \in Nat
    BY <1>0, GapsTyped, Zenon DEF Crossed, l
  <2>2. \A g \in gaps[p] : g[2] <= n /\ g[2] < n
    <3>1. \A m \in Nat : m <= l => m <= n /\ m < n
      BY <1>0, <1>4
    <3> QED
      BY <2>1, <3>1, Zenon
  <2>3. \A x \in observed : x < l \/ x = l
    BY <1>0, <1>1, Zenon DEF Crossed, l
  <2>4. \A x \in observed : x < n
    BY <1>0, <1>4, <2>3 DEF Inv, TypeOK
  <2> QED
    BY <1>0, <1>1, <1>6, <2>2, <2>4, Zenon DEF Crossed
<1> QED
  BY <1>7, <1>8, <1>9, <1>10, PeerStepKeeps, Zenon

\* A gap clears the evidence and the index.
Gapped(s, l, k) ==
  s \in PeerState /\ s.life = l /\ s.pos = k /\ ~s.serving /\ s.sealed = 0 /\ s.renewed = 0

LEMMA GapMoves ==
  ASSUME NEW s \in PeerState, NEW l \in Life, NEW k \in Nat
  PROVE  Gapped(AfterGap(s, l, k), l, k)
<1>1. 0 \in Nat /\ {} \in SUBSET Write /\ FALSE \in BOOLEAN
  OBVIOUS
<1>2. AfterGap(s, l, k) \in PeerState
  BY <1>1, Zenon DEF AfterGap, PeerState
<1> QED
  BY <1>2 DEF AfterGap, PeerState, Gapped

\* Nobody who acknowledged the seal of the life before takes this gap.
LEMMA RestartGapKeeps ==
  ASSUME Inv, NEW p \in Peer, RestartGap(p)
  PROVE  Inv'
<1> DEFINE l == peer[p].life
           n == node.life
           G == gaps[p] \cup {<<l, n>>}
<1>0. /\ peer[p] \in PeerState /\ l \in Life /\ n \in Life /\ Life \subseteq Nat \ {0}
      /\ Len(feed[n]) \in Nat /\ Placed(p) /\ Crossed(p)
  BY PeerTyped DEF Inv, TypeOK
<1>1. /\ p \in setting.peers /\ l < n /\ ~(peer[p].sealed = l /\ n = l + 1)
      /\ peer' = [peer EXCEPT ![p] = AfterGap(@, n, 0)]
      /\ gaps' = [gaps EXCEPT ![p] = G]
      /\ UNCHANGED <<setting, orphans, node, task, wait, landed, feed, observed>>
  <2>1. n > l => l < n
    BY <1>0
  <2> QED
    BY <2>1, Zenon DEF RestartGap, NewLifeSeen, SealDelivered
<1>2. peer \in [Peer -> PeerState] /\ gaps \in [Peer -> SUBSET (Life \X Life)]
  BY DEF Inv, TypeOK
<1> HIDE DEF l, n
<1>3. /\ l \in Nat /\ n \in Nat /\ 0 \in Nat /\ 0 <= Len(feed[n])
      /\ <<l, n>> \in Life \X Life
  BY <1>0
<1>4. /\ peer'[p] = AfterGap(peer[p], n, 0) /\ gaps'[p] = G
      /\ peer' \in [Peer -> PeerState] /\ gaps' \in [Peer -> SUBSET (Life \X Life)]
      /\ \A q \in Peer \ {p} : peer'[q] = peer[q] /\ gaps'[q] = gaps[q]
      /\ Gapped(peer'[p], n, 0)
  <2>1. Gapped(AfterGap(peer[p], n, 0), n, 0)
    BY <1>0, <1>3, GapMoves
  <2>2. AfterGap(peer[p], n, 0) \in PeerState
    BY <2>1 DEF Gapped
  <2> QED
    BY <1>0, <1>1, <1>2, <1>3, <2>1, <2>2, Zenon
<1>5. PeerStep(p)
  BY <1>1, <1>4, Zenon DEF PeerStep
<1>6. /\ peer'[p].life = n /\ peer'[p].pos = 0 /\ ~peer'[p].serving
      /\ peer'[p].sealed = 0 /\ peer'[p].renewed = 0
  BY <1>4 DEF Gapped
<1>7. Placed(p)'
  <2>1. ~AtSeal(p)'
    BY <1>6 DEF AtSeal
  <2>2. n <= node.life
    BY <1>3 DEF n
  <2> QED
    BY <1>1, <1>3, <1>6, <2>1, <2>2, Zenon DEF Placed
<1>8. Reflects(p)'
  BY <1>6 DEF Reflects
<1>9. Crossed(p)'
  <2>1. \A g \in gaps[p] : g[2] <= n
    <3>1. \A g \in gaps[p] : g[2] <= l /\ g[2] \in Nat
      BY <1>0, GapsTyped, Zenon DEF Crossed, l
    <3>2. \A m \in Nat : m <= l => m <= n
      BY <1>1, <1>3
    <3> QED
      BY <3>1, <3>2, Zenon
  <2>2. \A g \in G : g[2] <= n
    <3>1. <<l, n>>[2] <= n
      BY <1>3
    <3> QED
      BY <2>1, <3>1, Zenon
  <2>3. \A x \in observed : x \in Nat /\ (x < l \/ peer[p].sealed = x)
    BY <1>0, <1>1, Zenon DEF Crossed, Inv, TypeOK, l
  <2>4. peer[p].sealed \in {0, l} /\ 0 \notin observed
    BY <1>0, Zenon DEF Placed, Inv, TypeOK, l
  <2>5. \A x \in observed : x < n /\ (x = l => n # x + 1)
    BY <1>1, <1>3, <2>3, <2>4
  <2>6. \A x \in observed : <<x, x + 1>> \notin gaps[p]
    BY <1>0, Zenon DEF Crossed
  <2>7. \A x \in observed : <<x, x + 1>> # <<l, n>>
    BY <2>5
  <2> QED
    BY <1>1, <1>4, <1>6, <2>2, <2>5, <2>6, <2>7, Zenon DEF Crossed
<1> QED
  BY <1>5, <1>7, <1>8, <1>9, PeerStepKeeps, Zenon

\* The latest event stays in the window, so the gap ends before the seal.
LEMMA MissedGapKeeps ==
  ASSUME Inv, NEW p \in Peer, MissedGap(p)
  PROVE  Inv'
<1> DEFINE n == node.life
           G == gaps[p] \cup {<<n, n>>}
<1>0. /\ peer[p] \in PeerState /\ n \in Life /\ Life \subseteq Nat \ {0} /\ peer[p].pos \in Nat
      /\ Len(feed[n]) \in Nat /\ Crossed(p)
  BY PeerTyped DEF Inv, TypeOK
<1>1. PICK k \in peer[p].pos + 1 .. Len(feed[n]) - 1 :
           peer' = [peer EXCEPT ![p] = AfterGap(@, n, k)]
  BY Zenon DEF MissedGap
<1>2. /\ p \in setting.peers /\ Behind(p) /\ peer[p].life = n
      /\ gaps' = [gaps EXCEPT ![p] = G]
      /\ UNCHANGED <<setting, orphans, node, task, wait, landed, feed, observed>>
  BY DEF MissedGap, Following
<1>3. peer \in [Peer -> PeerState] /\ gaps \in [Peer -> SUBSET (Life \X Life)]
  BY DEF Inv, TypeOK
<1>4. \A x \in observed : x < n
  BY <1>2, BehindUnsealed
<1>5. \A i \in 1..Len(feed[n]) - 1 : feed[n][i] # Seal
  BY <1>0, Zenon DEF Inv, Sealing
<1>6. \A g \in gaps[p] : g[2] <= n
  BY <1>0, <1>2, Zenon DEF Crossed
<1> HIDE DEF n
<1>7. /\ n \in Nat /\ <<n, n>> \in Life \X Life
      /\ k \in Nat /\ k <= Len(feed[n]) /\ k \in 1..Len(feed[n]) - 1
  BY <1>0
<1>8. /\ gaps'[p] = G
      /\ peer' \in [Peer -> PeerState] /\ gaps' \in [Peer -> SUBSET (Life \X Life)]
      /\ \A q \in Peer \ {p} : peer'[q] = peer[q] /\ gaps'[q] = gaps[q]
      /\ Gapped(peer'[p], n, k)
  <2>1. Gapped(AfterGap(peer[p], n, k), n, k)
    BY <1>0, <1>7, GapMoves
  <2>2. AfterGap(peer[p], n, k) \in PeerState
    BY <2>1 DEF Gapped
  <2> QED
    BY <1>0, <1>1, <1>2, <1>3, <1>7, <2>1, <2>2, Zenon
<1>9. PeerStep(p)
  BY <1>2, <1>8, Zenon DEF PeerStep
<1>10. /\ peer'[p].life = n /\ peer'[p].pos = k /\ ~peer'[p].serving
       /\ peer'[p].sealed = 0 /\ peer'[p].renewed = 0
  BY <1>8 DEF Gapped
<1>11. Placed(p)'
  <2>1. ~AtSeal(p)'
    BY <1>2, <1>5, <1>7, <1>10, Zenon DEF AtSeal
  <2>2. n <= node.life
    BY <1>7 DEF n
  <2> QED
    BY <1>2, <1>7, <1>10, <2>1, <2>2, Zenon DEF Placed
<1>12. Reflects(p)'
  BY <1>10 DEF Reflects
<1>13. Crossed(p)'
  <2>1. \A g \in G : g[2] <= n
    <3>1. <<n, n>>[2] <= n
      BY <1>7
    <3> QED
      BY <1>6, <3>1, Zenon
  <2>2. \A x \in observed : <<x, x + 1>> \notin gaps[p]
    BY <1>0, Zenon DEF Crossed
  <2>3. \A x \in observed : <<x, x + 1>> # <<n, n>>
    BY <1>7
  <2> QED
    BY <1>2, <1>4, <1>8, <1>10, <2>1, <2>2, <2>3, Zenon DEF Crossed
<1> QED
  BY <1>9, <1>11, <1>12, <1>13, PeerStepKeeps, Zenon

\* The listing shows what every life landed.
LEMMA RebuildKeeps ==
  ASSUME Inv, NEW p \in Peer, Rebuild(p)
  PROVE  Inv'
<1>0. peer[p] \in PeerState /\ Placed(p) /\ Crossed(p) /\ peer[p].life \in Life
  BY PeerTyped
<1>1. /\ peer' = [peer EXCEPT ![p].known = @ \cup Landed, ![p].serving = TRUE]
      /\ UNCHANGED <<setting, orphans, node, task, wait, landed, feed, gaps, observed>>
  BY DEF Rebuild
<1>2. peer \in [Peer -> PeerState] /\ gaps \in [Peer -> SUBSET (Life \X Life)]
  BY DEF Inv, TypeOK
<1>3. Landed \subseteq Write /\ \A l \in Life : landed[l] \subseteq Landed
  BY DEF Inv, TypeOK, Landed
<1> DEFINE s == [peer[p] EXCEPT !.known = @ \cup Landed, !.serving = TRUE]
<1>4. s \in PeerState
  <2>1. peer[p].known \cup Landed \in SUBSET Write /\ TRUE \in BOOLEAN
    BY <1>0, <1>3, Zenon DEF PeerState
  <2> QED
    BY <1>0, <2>1, Zenon DEF PeerState
<1>5. /\ peer'[p] = s /\ peer' \in [Peer -> PeerState]
      /\ \A q \in Peer \ {p} : peer'[q] = peer[q]
  BY <1>1, <1>2, <1>4, Zenon
<1>6. /\ peer'[p].life = peer[p].life /\ peer'[p].pos = peer[p].pos
      /\ peer'[p].known = peer[p].known \cup Landed
      /\ peer'[p].sealed = peer[p].sealed /\ peer'[p].renewed = peer[p].renewed
  BY <1>0, <1>5 DEF PeerState
<1>7. PeerStep(p)
  BY <1>1, <1>2, <1>5, Zenon DEF PeerStep
<1>8. Placed(p)'
  BY <1>0, <1>1, <1>6, Zenon DEF Placed, AtSeal
<1>9. Reflects(p)'
  BY <1>0, <1>1, <1>3, <1>6, Zenon DEF Reflects
<1>10. Crossed(p)'
  BY <1>0, <1>1, <1>6, Zenon DEF Crossed
<1> QED
  BY <1>7, <1>8, <1>9, <1>10, PeerStepKeeps, Zenon

-----------------------------------------------------------------------------
LEMMA InitHolds ==
  ASSUME Init
  PROVE  Inv
<1>1. 1 \in Life /\ 0 \in Nat /\ setting \in Setting
  BY StopAssumption DEF Init, Life
<1>2. /\ node \in Node /\ node.life = 1 /\ node.running = 0 /\ node.up
      /\ node.seal = "none" /\ ~node.closed
  BY <1>1 DEF Init, NewLife, Node
<1>3. task \in [Write -> TaskState] /\ wait \in [Write -> WaitState]
  BY DEF Init, TaskState, WaitState
<1>4. /\ landed \in [Life -> SUBSET Write] /\ feed \in [Life -> Seq(Write \cup {Seal})]
      /\ orphans \subseteq Write /\ gaps \in [Peer -> SUBSET (Life \X Life)]
      /\ observed \subseteq Life
  BY DEF Init
<1>5. peer \in [Peer -> PeerState]
  <2>1. [life |-> 1, pos |-> 0, known |-> {}, serving |-> TRUE, sealed |-> 0, renewed |-> 0]
          \in PeerState
    BY <1>1 DEF PeerState
  <2> QED
    BY <2>1, Zenon DEF Init
<1>6. TypeOK
  BY <1>1, <1>2, <1>3, <1>4, <1>5, Zenon DEF TypeOK
<1>7. Tails = {} /\ Handlers = {}
  BY DEF Init, Tails, Handlers
<1>8. Counted
  <2>1. node.running = Cardinality(Tails) + Cardinality(Handlers)
    BY <1>2, <1>7, FS_EmptySet
  <2>2. \A w \in Write : task[w] = "idle" <=> wait[w] = "idle"
    BY DEF Init
  <2> QED
    BY <1>2, <1>7, <2>1, <2>2, FS_EmptySet, Zenon DEF Counted
<1>9. \A l \in Life : feed[l] = <<>> /\ landed[l] = {} /\ Len(feed[l]) = 0 /\ Events(l) = {}
  BY DEF Init, Events
<1>10. Sealing
  <2>1. \A l \in Life : \A i : i \notin 1..Len(feed[l]) - 1
    BY <1>9
  <2> QED
    BY <1>1, <1>2, <1>7, <1>9, <2>1, Zenon DEF Sealing, Advertised, Quiet, IsSealed
<1>11. Accounted
  BY <1>1, <1>2, <1>9, Zenon DEF Accounted, IsSealed
<1>12. ASSUME NEW p \in Peer PROVE Placed(p) /\ Reflects(p) /\ Crossed(p)
  <2>1. /\ peer[p].life = 1 /\ peer[p].pos = 0 /\ peer[p].sealed = 0 /\ gaps[p] = {}
        /\ observed = {}
    BY DEF Init
  <2>2. Placed(p)
    BY <1>1, <1>2, <1>9, <2>1 DEF Placed, AtSeal
  <2>3. Reflects(p)
    BY <1>9, <2>1 DEF Reflects
  <2>4. Crossed(p)
    BY <2>1, Zenon DEF Crossed
  <2> QED
    BY <2>2, <2>3, <2>4
<1> QED
  BY <1>6, <1>8, <1>10, <1>11, <1>12 DEF Inv, PeersOK

LEMMA StutterKeeps ==
  ASSUME Inv, UNCHANGED vars
  PROVE  Inv'
<1>1. UNCHANGED <<setting, node, task, wait, landed, feed, peer, orphans, gaps, observed>>
  BY DEF vars
<1>2. TypeOK' /\ PeersOK /\ TypeOK
  BY <1>1, Zenon DEF Inv, TypeOK
<1>3. Extends
  BY <1>1, <1>2, SameExtends
<1>4. NodeStep
  <2>1. node.life \in Nat /\ node.life <= node.life
    BY <1>2, StopAssumption DEF TypeOK, Node, Life
  <2> QED
    BY <1>1, <1>3, <2>1, Zenon DEF NodeStep
<1>5. PeersOK'
  BY <1>2, <1>4, PeersKept
<1> QED
  BY <1>1, <1>2, <1>5, NodeKept DEF Inv

LEMMA NextKeeps ==
  ASSUME Inv, [Next]_vars
  PROVE  Inv'
<1>1. CASE UNCHANGED vars
  BY <1>1, StutterKeeps
<1>2. ASSUME NEW w \in Write, Admit(w) \/ TailStep(w) \/ Die(w) \/ Handler(w) \/ HangUp(w)
      PROVE  Inv'
  BY <1>2, AdmitKeeps, TailStepKeeps, DieKeeps, HandlerKeeps, HangUpKeeps
<1>3. CASE Stop \/ SealWrites \/ SealAbandoned \/ SealObserved \/ SealUnconfirmed
  BY <1>3, StopKeeps, SealWritesKeeps, SealObservedKeeps
<1>4. CASE Exit \/ Restart
  BY <1>4, ExitKeeps, RestartKeeps
<1>5. ASSUME NEW p \in Peer, Follow(p) \/ MissedGap(p)
      PROVE  Inv'
  BY <1>5, WroteKeeps, SealedKeeps, RenewedKeeps, RestartGapKeeps, RebuildKeeps, MissedGapKeeps
     DEF Follow
<1> QED
  BY <1>1, <1>2, <1>3, <1>4, <1>5, Zenon DEF Next

\* The invariant, in every reachable state, for any mutations, peers and
\* number of lives.
THEOREM StopInvariant == Spec => []Inv
<1>1. Init => Inv
  BY InitHolds
<1>2. Inv /\ [Next]_vars => Inv'
  BY NextKeeps
<1> QED
  BY <1>1, <1>2, PTL DEF Spec

\* The variables keep their types; in particular the tail count never falls
\* below zero, whatever dies and hangs up (WriteTails::finish).
THEOREM StopTyped == Spec => []TypeOK
<1>1. Inv => TypeOK
  BY DEF Inv
<1> QED
  BY <1>1, StopInvariant, PTL

\* The seal comes last in its life's feed and the feed before it has every
\* mutation the life landed: the guards of tasks and handlers together keep
\* seal_writes waiting until nobody is left to publish.
THEOREM SealFinal == Spec => []SealIsFinal
<1>1. Inv => SealIsFinal
  <2> SUFFICES ASSUME Inv, NEW l \in Life, IsSealed(l)
               PROVE  /\ \A i \in 1..Len(feed[l]) - 1 : feed[l][i] # Seal
                      /\ landed[l] \subseteq Events(l) \cup orphans
    BY DEF SealIsFinal
  <2>1. \A i \in 1..Len(feed[l]) - 1 : feed[l][i] # Seal
    BY Zenon DEF Inv, Sealing
  <2>2. \A w \in landed[l] : w \in Events(l) \/ w \in orphans
    BY Zenon DEF Inv, Accounted, Told
  <2> QED
    BY <2>1, <2>2
<1> QED
  BY <1>1, StopInvariant, PTL

\* What a peer serves reflects every mutation of the lives it has left behind,
\* and of the one whose seal it delivered, however it crossed the restarts.
THEOREM WholeLivesServed == Spec => []ServesWholeLives
<1>1. Inv => ServesWholeLives
  <2> SUFFICES ASSUME Inv, NEW p \in Peer, peer[p].serving, NEW l \in Life,
                      l < peer[p].life \/ l = peer[p].sealed
               PROVE  landed[l] \subseteq peer[p].known \cup orphans
    BY DEF ServesWholeLives
  <2>1. CASE l < peer[p].life
    <3>1. Reflects(p)
      BY PeerTyped
    <3> QED
      BY <2>1, <3>1, Zenon DEF Reflects
  <2>2. CASE l = peer[p].sealed
    <3>1. Life \subseteq Nat \ {0} /\ Placed(p)
      BY PeerTyped
    <3>2. l # 0
      BY <3>1
    <3>3. l = peer[p].life
      BY <2>2, <3>1, <3>2, Zenon DEF Placed
    <3> QED
      BY <2>2, <3>2, <3>3, SealedLifeReflected, Zenon
  <2> QED
    BY <2>1, <2>2
<1> QED
  BY <1>1, StopInvariant, PTL

\* The crossing evidence is of the peer's own life and later than its last gap.
THEOREM EvidenceCurrent == Spec => []EvidenceIsCurrent
<1>1. Inv => EvidenceIsCurrent
  <2> SUFFICES ASSUME Inv, NEW p \in Peer
               PROVE  /\ peer[p].sealed \in {0, peer[p].life}
                      /\ peer[p].renewed # 0 => \A g \in gaps[p] : g[2] < peer[p].renewed
    BY DEF EvidenceIsCurrent
  <2>1. Placed(p) /\ Crossed(p)
    BY PeerTyped
  <2> QED
    BY <2>1, Zenon DEF Placed, Crossed
<1> QED
  BY <1>1, StopInvariant, PTL

\* A seal that every peer acknowledged carries each of them over the restart:
\* none takes a gap into the next life.
THEOREM ObservedCrossed == Spec => []ObservedCrosses
<1>1. Inv => ObservedCrosses
  <2> SUFFICES ASSUME Inv, NEW p \in Peer, NEW l \in observed
               PROVE  <<l, l + 1>> \notin gaps[p]
    BY Zenon DEF ObservedCrosses
  <2>1. Crossed(p)
    BY PeerTyped
  <2> QED
    BY <2>1, Zenon DEF Crossed
<1> QED
  BY <1>1, StopInvariant, PTL

=============================================================================
