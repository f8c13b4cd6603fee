------------------------------- MODULE Rollout -------------------------------
(***************************************************************************)
(* Rollout readiness (src/src/cache/readiness.rs, src/src/sync/readiness.rs*)
(* and src/src/sync/advertise.rs): when a pod is ready, what it declares   *)
(* to its peers, and what a rollout that stops pods on the strength of     *)
(* that readiness does to the fleet's indexes.                             *)
(*                                                                         *)
(* A pod's declaration is a version: 0 is "nothing received", 2n - 1 is    *)
(* life n without CAP_INDEXED and 2n is life n with it.  Gossip carries    *)
(* versions forward only.                                                  *)
(***************************************************************************)
EXTENDS Naturals

CONSTANTS
  Pod,       \* the pods of the StatefulSet, each a seed of the others
  MaxLife,   \* bound: lives of a pod
  Trouble    \* sets of faults: each behaviour is exposed to one of them

\* "suspect": a slow pod is suspected.  "gap": a node that completed its index
\* loses it before it is latched.  "crash": any pod may crash.  "origin": the
\* origin cannot be scanned and no peer donates.
Fault == {"suspect", "gap", "crash", "origin"}

\* A rollout of one pod stops the only index there is.
ASSUME RolloutAssumption ==
  /\ MaxLife \in Nat \ {0} /\ Trouble \subseteq SUBSET Fault
  /\ \E p, q \in Pod : p # q

VARIABLES
  fault,     \* what may go wrong in this behaviour
  up,        \* the pods that run
  life,      \* each pod's life
  index,     \* "cold", "complete", or "latched" (IndexReady)
  pub,       \* the declaration each pod has enqueued
  roster,    \* each pod's membership status of each other
  caps,      \* each pod's view of each other's declaration
  unmet,     \* each pod's UnmetSeeds
  ready      \* the kubelet's last readiness sample of each pod

vars == <<fault, up, life, index, pub, roster, caps, unmet, ready>>

views == <<roster, caps, unmet>>

Others(p) == Pod \ {p}

\* Advertisement::offer: the whole set, CAP_INDEXED once it is latched.
Declared(p) == IF index[p] = "latched" THEN 2 * life[p] ELSE 2 * life[p] - 1

\* Every pod holds a complete index and knows the others.
Init ==
  /\ fault \in Trouble
  /\ up = Pod
  /\ life = [p \in Pod |-> 1]
  /\ index = [p \in Pod |-> "latched"]
  /\ pub = [p \in Pod |-> Declared(p)]
  /\ roster = [v \in Pod |-> [p \in Pod |-> "alive"]]
  /\ caps = [v \in Pod |-> [p \in Pod |-> Declared(p)]]
  /\ unmet = [v \in Pod |-> {}]
  /\ ready = [p \in Pod |-> TRUE]

-----------------------------------------------------------------------------
(* Readiness.                                                              *)

\* No declaration received, or CAP_INDEXED is in it.
MayBeIndexed(version) == version % 2 = 0

\* Mutant: a suspected peer is taken for gone.
PeerMayHoldAlive(v) ==
  \/ unmet[v] # {}
  \/ \E p \in Others(v) : roster[v][p] = "alive" /\ MayBeIndexed(caps[v][p])

\* Mutant: the last declaration decides, whatever the membership says.
PeerMayHoldEver(v) ==
  \/ unmet[v] # {}
  \/ \E p \in Others(v) : roster[v][p] # "absent" /\ MayBeIndexed(caps[v][p])

\* A seed not met yet, or a member not known dead that has CAP_INDEXED or
\* has declared nothing yet.
PeerMayHoldIndex(v) ==
  \/ unmet[v] # {}
  \/ \E p \in Others(v) :
       roster[v][p] \in {"alive", "suspect"} /\ MayBeIndexed(caps[v][p])

\* Mutant: only the peers decide.
ProbePeers(p) == ~PeerMayHoldIndex(p)

ProbeReady(p) == index[p] = "latched" \/ ~PeerMayHoldIndex(p)

\* The kubelet samples GET /ready.
Probe(p) ==
  /\ p \in up
  /\ ready' = [ready EXCEPT ![p] = ProbeReady(p)]
  /\ UNCHANGED <<fault, up, life, index, pub, views>>

\* The initial index and the coherence warm-up complete: from a peer's image
\* or an origin scan.
Complete(p) ==
  /\ "origin" \notin fault
  /\ p \in up /\ index[p] = "cold"
  /\ index' = [index EXCEPT ![p] = "complete"]
  /\ UNCHANGED <<fault, up, life, pub, views, ready>>

\* A gap or a lapse before the next poll of the watch.
Gap(p) ==
  /\ "gap" \in fault
  /\ p \in up /\ index[p] = "complete"
  /\ index' = [index EXCEPT ![p] = "cold"]
  /\ UNCHANGED <<fault, up, life, pub, views, ready>>

\* The poll finds the node initially ready: the latch is set for good.
WatchIndexReady(p) ==
  /\ p \in up /\ index[p] = "complete"
  /\ index' = [index EXCEPT ![p] = "latched"]
  /\ UNCHANGED <<fault, up, life, pub, views, ready>>

\* The declaration is enqueued, at the first attempt or at a retry; the state
\* is read and enqueued under one lock.
Offer(p) ==
  /\ p \in up /\ pub[p] # Declared(p)
  /\ pub' = [pub EXCEPT ![p] = Declared(p)]
  /\ UNCHANGED <<fault, up, life, index, views, ready>>

-----------------------------------------------------------------------------
(* Membership, as Groupnet reports it to each pod.                         *)

\* The seed resolver registers a seed whose address resolves, or a pod that
\* came back is heard again.
Meet(v, p) ==
  /\ {v, p} \subseteq up /\ v # p /\ roster[v][p] # "alive"
  /\ roster' = [roster EXCEPT ![v][p] = "alive"]
  /\ UNCHANGED <<fault, up, life, index, pub, caps, unmet, ready>>

\* UnmetSeeds::settle: forget the seeds now in the roster.
Settle(v) ==
  LET left == {p \in unmet[v] : roster[v][p] = "absent"}
  IN  /\ v \in up /\ left # unmet[v]
      /\ unmet' = [unmet EXCEPT ![v] = left]
      /\ UNCHANGED <<fault, up, life, index, pub, roster, caps, ready>>

\* UnmetSeeds::give_up: the address did not resolve, no pod holds it.
GiveUp(v, p) ==
  /\ v \in up /\ p \in unmet[v] /\ p \notin up
  /\ unmet' = [unmet EXCEPT ![v] = @ \ {p}]
  /\ UNCHANGED <<fault, up, life, index, pub, roster, caps, ready>>

\* v learns p's declaration from p itself, or a later one than its own from
\* another pod.
Gossip(v, p) ==
  /\ v \in up /\ v # p /\ roster[v][p] # "absent"
  /\ \E version \in {pub[q] : q \in up \cap {p}}
                    \cup {caps[q][p] : q \in up \ {v, p}} :
       /\ version > caps[v][p]
       /\ caps' = [caps EXCEPT ![v][p] = version]
  /\ UNCHANGED <<fault, up, life, index, pub, roster, unmet, ready>>

\* A slow pod is suspected.
Suspect(v, p) ==
  /\ "suspect" \in fault
  /\ {v, p} \subseteq up /\ v # p /\ roster[v][p] = "alive"
  /\ roster' = [roster EXCEPT ![v][p] = "suspect"]
  /\ UNCHANGED <<fault, up, life, index, pub, caps, unmet, ready>>

\* A pod that is gone turns dead within the detection window.
Detect(v, p) ==
  /\ v \in up /\ p \notin up /\ roster[v][p] \in {"alive", "suspect"}
  /\ roster' = [roster EXCEPT ![v][p] = "dead"]
  /\ UNCHANGED <<fault, up, life, index, pub, caps, unmet, ready>>

-----------------------------------------------------------------------------
(* The rollout: a StatefulSet controller and the kubelet.                  *)

\* The process ends and its memory with it; its declaration stays with the
\* peers.
Down(p) ==
  /\ up' = up \ {p}
  /\ ready' = [ready EXCEPT ![p] = FALSE]
  /\ index' = [index EXCEPT ![p] = "cold"]
  /\ roster' = [roster EXCEPT ![p] = [q \in Pod |-> "absent"]]
  /\ caps' = [caps EXCEPT ![p] = [q \in Pod |-> 0]]
  /\ unmet' = [unmet EXCEPT ![p] = {}]
  /\ UNCHANGED <<fault, life, pub>>

\* The controller stops an old pod once every other pod is ready.
Stop(p) ==
  /\ p \in up /\ life[p] = 1
  /\ \A q \in Others(p) : q \in up /\ ready[q]
  /\ Down(p)

Crash(p) == "crash" \in fault /\ p \in up /\ Down(p)

\* A new life: an empty roster, every seed expected (expect_seeds), and the
\* previous life's declaration still with the peers until this one's.
Start(p) ==
  /\ p \notin up /\ life[p] < MaxLife
  /\ up' = up \cup {p}
  /\ life' = [life EXCEPT ![p] = @ + 1]
  /\ unmet' = [unmet EXCEPT ![p] = Others(p)]
  /\ UNCHANGED <<fault, index, pub, roster, caps, ready>>

-----------------------------------------------------------------------------
Membership(v, p) == Meet(v, p) \/ GiveUp(v, p) \/ Detect(v, p)

Next ==
  \E p \in Pod :
    \/ Probe(p) \/ Complete(p) \/ Gap(p) \/ WatchIndexReady(p) \/ Offer(p)
    \/ Settle(p) \/ Stop(p) \/ Crash(p) \/ Start(p)
    \/ \E v \in Pod : Membership(v, p) \/ Gossip(v, p) \/ Suspect(v, p)

Spec == Init /\ [][Next]_vars

\* Probes, polls, retries, gossip and failure detection all recur, a node that
\* can complete its index does, and the controller keeps going.
FairSpec ==
  /\ Spec
  /\ \A p \in Pod :
       /\ WF_vars(Probe(p)) /\ WF_vars(Offer(p)) /\ WF_vars(Settle(p))
       /\ WF_vars(Complete(p)) /\ SF_vars(WatchIndexReady(p))
       /\ WF_vars(Start(p)) /\ SF_vars(Stop(p))
       /\ \A v \in Pod : WF_vars(Membership(v, p)) /\ WF_vars(Gossip(v, p))

-----------------------------------------------------------------------------
Holders == {p \in up : index[p] = "latched"}

\* "Never let a rollout stop the last index-holding pod": a fleet whose pods
\* all hold an index keeps one through a whole rollout in which none crashes,
\* whatever each starting pod has seen of its peers when its readiness is sampled.
IndexSurvives == "crash" \in fault \/ Holders # {}

\* "A cold fleet is ready", and "no deadlock": once no running pod holds an
\* index, every running pod ends up ready, whatever dead pods and earlier
\* lives declared, and whether or not the origin can be scanned.
ColdFleetReady ==
  <>[](Holders = {}) => <>[](\A p \in up : ready[p])

\* The rollout replaces every pod: a pod beside index holders becomes ready
\* once it has an index of its own.
RolloutEnds ==
  fault \cap {"crash", "origin"} = {} =>
    <>(\A p \in Pod : life[p] = 2 /\ p \in up /\ ready[p])

=============================================================================
