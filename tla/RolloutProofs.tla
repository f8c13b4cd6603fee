---------------------------- MODULE RolloutProofs ----------------------------
(***************************************************************************)
(* A rollout never stops the last index holder, for any set of two or more *)
(* pods and any number of lives.  Readiness is a sample, so the invariant  *)
(* relates a past sample to the present: while a pod of the first life     *)
(* runs, every other pod still expects it or has it in its roster, has no  *)
(* declaration of it without the index, and was therefore ready only if it *)
(* held an index itself.                                                   *)
(***************************************************************************)
EXTENDS Rollout, TLAPS

Status == {"absent", "alive", "suspect", "dead"}

Typed ==
  /\ fault \subseteq Fault /\ up \subseteq Pod
  /\ life \in [Pod -> Nat]
  /\ index \in [Pod -> {"cold", "complete", "latched"}]
  /\ pub \in [Pod -> Nat]
  /\ roster \in [Pod -> [Pod -> Status]]
  /\ caps \in [Pod -> [Pod -> Nat]]
  /\ unmet \in [Pod -> SUBSET Pod]
  /\ ready \in [Pod -> BOOLEAN]
  /\ \A p \in Pod : life[p] >= 1

\* A pod the rollout has not stopped yet.
Old(p) == p \in up /\ life[p] = 1

\* It has its index and says so.
OldDeclares(p) == Old(p) => index[p] = "latched" /\ pub[p] = 2

\* v has heard nothing else of p's first life, ...
Heard(v, p) == life[p] = 1 => caps[v][p] \in {0, 2}

\* ... does not take p for dead, and knows p or still expects it.
Expects(v, p) ==
  Old(p) => /\ roster[v][p] # "dead"
            /\ v \in up => p \in unmet[v] \/ roster[v][p] # "absent"

\* So v's last sample, if it was ready, is of a pod that holds an index.
Earned(v, p) == Old(p) /\ ready[v] => index[v] = "latched"

Pairs == \A v, p \in Pod : v # p => Heard(v, p) /\ Expects(v, p) /\ Earned(v, p)

Safe ==
  /\ \A p \in Pod : OldDeclares(p)
  /\ Pairs
  /\ Holders # {}

Inv == Typed /\ ("crash" \notin fault => Safe)

-----------------------------------------------------------------------------
\* The invariant when no pod stops or starts: what is left to show of a step.
LEMMA RunningKeeps ==
  ASSUME Inv, UNCHANGED <<fault, up, life>>, Typed',
         \A p \in Pod : index[p] = "latched" => index'[p] = "latched",
         "crash" \notin fault /\ Safe =>
           /\ \A p \in Pod : Old(p) => pub'[p] = 2
           /\ \A v, p \in Pod : v # p => Heard(v, p)' /\ Expects(v, p)' /\ Earned(v, p)'
  PROVE  Inv'
<1> SUFFICES ASSUME "crash" \notin fault PROVE Safe'
  BY DEF Inv
<1>1. Safe /\ Typed
  BY DEF Inv
<1>2. \A p \in Pod : OldDeclares(p)'
  BY <1>1, Zenon DEF Safe, OldDeclares, Old
<1>3. Holders' # {}
  BY <1>1 DEF Safe, Holders, Typed
<1> QED
  BY <1>1, <1>2, <1>3, Zenon DEF Safe, Pairs

\* A pod that knows or expects an old one is ready only with an index: the
\* sample is earned when it is taken.
LEMMA ProbeKeeps ==
  ASSUME Inv, NEW p \in Pod, Probe(p)
  PROVE  Inv'
<1>0. Typed
  BY DEF Inv
<1>1. /\ ready' = [ready EXCEPT ![p] = ProbeReady(p)]
      /\ UNCHANGED <<fault, up, life, index, pub, roster, caps, unmet>> /\ p \in up
  BY DEF Probe, views
<1>2. ProbeReady(p) \in BOOLEAN
  BY DEF ProbeReady
<1>3. Typed'
  BY <1>0, <1>1, <1>2, Zenon DEF Typed
<1>4. ASSUME Safe, NEW v \in Pod, NEW q \in Pod, v # q
      PROVE  Heard(v, q)' /\ Expects(v, q)' /\ Earned(v, q)'
  <2>1. Heard(v, q) /\ Expects(v, q) /\ Earned(v, q)
    BY <1>4 DEF Safe, Pairs
  <2>2. Heard(v, q)' /\ Expects(v, q)'
    BY <1>1, <2>1, Zenon DEF Heard, Expects, Old
  <2>3. CASE v # p
    BY <1>0, <1>1, <2>1, <2>2, <2>3 DEF Earned, Old, Typed
  <2>4. CASE v = p
    <3> SUFFICES ASSUME Old(q), ProbeReady(p), index[p] # "latched"
                 PROVE  FALSE
      BY <1>0, <1>1, <2>2, <2>4 DEF Earned, Old, Typed
    <3>1. ~PeerMayHoldIndex(p)
      BY DEF ProbeReady
    <3>2. unmet[p] = {} /\ roster[p][q] # "dead" /\ roster[p][q] # "absent"
      BY <1>1, <2>1, <2>4, <3>1 DEF PeerMayHoldIndex, Expects, Old
    <3>3. roster[p][q] \in {"alive", "suspect"}
      BY <1>0, <3>2 DEF Typed, Status
    <3>4. caps[p][q] \in {0, 2}
      BY <2>1, <2>4 DEF Heard, Old
    <3>5. MayBeIndexed(caps[p][q])
      BY <3>4 DEF MayBeIndexed
    <3> QED
      BY <1>4, <2>4, <3>1, <3>3, <3>5 DEF PeerMayHoldIndex, Others
  <2> QED
    BY <2>3, <2>4
<1> QED
  BY <1>1, <1>3, <1>4, RunningKeeps, Zenon DEF Safe, OldDeclares

\* The index comes, or goes before it is latched.
LEMMA IndexKeeps ==
  ASSUME Inv, NEW p \in Pod, Complete(p) \/ Gap(p) \/ WatchIndexReady(p)
  PROVE  Inv'
<1>0. Typed
  BY DEF Inv
<1>1. PICK i \in {"cold", "complete", "latched"} : index' = [index EXCEPT ![p] = i]
  BY DEF Complete, Gap, WatchIndexReady
<1>2. UNCHANGED <<fault, up, life, pub, roster, caps, unmet, ready>> /\ index[p] # "latched"
  BY DEF Complete, Gap, WatchIndexReady, views
<1>3. Typed'
  BY <1>0, <1>1, <1>2, Zenon DEF Typed
<1>4. \A q \in Pod : index[q] = "latched" => index'[q] = "latched"
  BY <1>0, <1>1, <1>2 DEF Typed
<1>5. ASSUME Safe, NEW v \in Pod, NEW q \in Pod, v # q
      PROVE  Heard(v, q)' /\ Expects(v, q)' /\ Earned(v, q)'
  <2>1. Heard(v, q) /\ Expects(v, q) /\ Earned(v, q)
    BY <1>5 DEF Safe, Pairs
  <2> QED
    BY <1>2, <1>4, <2>1, Zenon DEF Heard, Expects, Earned, Old
<1> QED
  BY <1>2, <1>3, <1>4, <1>5, RunningKeeps, Zenon DEF Safe, OldDeclares

\* A running pod of the first life has nothing new to declare.
LEMMA OfferKeeps ==
  ASSUME Inv, NEW p \in Pod, Offer(p)
  PROVE  Inv'
<1>0. Typed
  BY DEF Inv
<1>1. /\ pub' = [pub EXCEPT ![p] = Declared(p)]
      /\ UNCHANGED <<fault, up, life, index, roster, caps, unmet, ready>>
  BY DEF Offer, views
<1>2. Declared(p) \in Nat /\ (index[p] = "latched" /\ life[p] = 1 => Declared(p) = 2)
  BY <1>0 DEF Declared, Typed
<1>3. Typed'
  BY <1>0, <1>1, <1>2, Zenon DEF Typed
<1>4. ASSUME Safe, NEW q \in Pod, Old(q)
      PROVE  pub'[q] = 2
  <2>1. index[q] = "latched" /\ pub[q] = 2 /\ life[q] = 1
    BY <1>4 DEF Safe, OldDeclares, Old
  <2> QED
    BY <1>0, <1>1, <1>2, <2>1 DEF Typed
<1>5. ASSUME Safe, NEW v \in Pod, NEW q \in Pod, v # q
      PROVE  Heard(v, q)' /\ Expects(v, q)' /\ Earned(v, q)'
  <2>1. Heard(v, q) /\ Expects(v, q) /\ Earned(v, q)
    BY <1>5 DEF Safe, Pairs
  <2> QED
    BY <1>1, <2>1, Zenon DEF Heard, Expects, Earned, Old
<1> QED
  BY <1>1, <1>3, <1>4, <1>5, RunningKeeps, Zenon

\* The roster loses no pod that runs.
LEMMA RosterKeeps ==
  ASSUME Inv, NEW v \in Pod, NEW p \in Pod, Meet(v, p) \/ Suspect(v, p) \/ Detect(v, p)
  PROVE  Inv'
<1>0. Typed
  BY DEF Inv
<1>1. PICK t \in Status \ {"absent"} :
           roster' = [roster EXCEPT ![v][p] = t] /\ (t = "dead" => p \notin up)
  BY DEF Meet, Suspect, Detect, Status
<1>2. UNCHANGED <<fault, up, life, index, pub, caps, unmet, ready>>
  BY DEF Meet, Suspect, Detect
<1>3. /\ roster' \in [Pod -> [Pod -> Status]]
      /\ \A w, q \in Pod : roster'[w][q] = IF w = v /\ q = p THEN t ELSE roster[w][q]
  BY <1>0, <1>1 DEF Typed
<1>4. Typed'
  BY <1>0, <1>2, <1>3, Zenon DEF Typed
<1>5. ASSUME Safe, NEW w \in Pod, NEW q \in Pod, w # q
      PROVE  Heard(w, q)' /\ Expects(w, q)' /\ Earned(w, q)'
  <2>1. Heard(w, q) /\ Expects(w, q) /\ Earned(w, q)
    BY <1>5 DEF Safe, Pairs
  <2>2. Expects(w, q)'
    BY <1>1, <1>2, <1>3, <2>1 DEF Expects, Old
  <2> QED
    BY <1>2, <2>1, <2>2, Zenon DEF Heard, Earned, Old
<1> QED
  BY <1>2, <1>4, <1>5, RunningKeeps, Zenon DEF Safe, OldDeclares

\* A seed is no longer expected once it is in the roster, or is not running.
LEMMA UnmetKeeps ==
  ASSUME Inv, NEW v \in Pod, Settle(v) \/ \E p \in Pod : GiveUp(v, p)
  PROVE  Inv'
<1>0. Typed
  BY DEF Inv
<1>1. PICK left \in SUBSET unmet[v] :
           /\ unmet' = [unmet EXCEPT ![v] = left]
           /\ \A p \in unmet[v] \ left : roster[v][p] # "absent" \/ p \notin up
  <2>1. CASE Settle(v)
    BY <2>1, Zenon DEF Settle
  <2>2. CASE \E p \in Pod : GiveUp(v, p)
    <3>1. PICK p \in Pod : GiveUp(v, p)
      BY <2>2
    <3>2. unmet' = [unmet EXCEPT ![v] = unmet[v] \ {p}] /\ p \notin up
      BY <3>1, Zenon DEF GiveUp
    <3>3. unmet[v] \ {p} \in SUBSET unmet[v]
      OBVIOUS
    <3>4. \A q \in unmet[v] \ (unmet[v] \ {p}) : roster[v][q] # "absent" \/ q \notin up
      BY <3>2
    <3> QED
      BY <3>2, <3>3, <3>4, Zenon
  <2> QED
    BY <2>1, <2>2
<1>2. UNCHANGED <<fault, up, life, index, pub, roster, caps, ready>>
  BY DEF Settle, GiveUp
<1>3. /\ unmet' \in [Pod -> SUBSET Pod]
      /\ \A w \in Pod : unmet'[w] = IF w = v THEN left ELSE unmet[w]
  BY <1>0, <1>1 DEF Typed
<1>4. Typed'
  BY <1>0, <1>2, <1>3, Zenon DEF Typed
<1>5. ASSUME Safe, NEW w \in Pod, NEW q \in Pod, w # q
      PROVE  Heard(w, q)' /\ Expects(w, q)' /\ Earned(w, q)'
  <2>1. Heard(w, q) /\ Expects(w, q) /\ Earned(w, q)
    BY <1>5 DEF Safe, Pairs
  <2>2. Expects(w, q)'
    BY <1>1, <1>2, <1>3, <2>1 DEF Expects, Old
  <2> QED
    BY <1>2, <2>1, <2>2, Zenon DEF Heard, Earned, Old
<1> QED
  BY <1>2, <1>4, <1>5, RunningKeeps, Zenon DEF Safe, OldDeclares

\* What is heard of a first life is what that life declared.
LEMMA GossipKeeps ==
  ASSUME Inv, NEW v \in Pod, NEW p \in Pod, Gossip(v, p)
  PROVE  Inv'
<1>0. Typed
  BY DEF Inv
<1>1. PICK version : /\ caps' = [caps EXCEPT ![v][p] = version]
                     /\ \/ p \in up /\ version = pub[p]
                        \/ \E q \in up \ {v, p} : version = caps[q][p]
  BY Zenon DEF Gossip
<1>2. UNCHANGED <<fault, up, life, index, pub, roster, unmet, ready>>
  BY DEF Gossip
<1>3. version \in Nat
  BY <1>0, <1>1 DEF Typed
<1>4. /\ caps' \in [Pod -> [Pod -> Nat]]
      /\ \A w, q \in Pod : caps'[w][q] = IF w = v /\ q = p THEN version ELSE caps[w][q]
  BY <1>0, <1>1, <1>3 DEF Typed
<1>5. Typed'
  BY <1>0, <1>2, <1>4, Zenon DEF Typed
<1>6. ASSUME Safe, NEW w \in Pod, NEW q \in Pod, w # q
      PROVE  Heard(w, q)' /\ Expects(w, q)' /\ Earned(w, q)'
  <2>1. Heard(w, q) /\ Expects(w, q) /\ Earned(w, q)
    BY <1>6 DEF Safe, Pairs
  <2>2. CASE w = v /\ q = p
    <3>1. life[p] = 1 => version \in {0, 2}
      <4>1. CASE p \in up /\ version = pub[p]
        BY <1>6, <4>1 DEF Safe, OldDeclares, Old
      <4>2. CASE \E r \in up \ {v, p} : version = caps[r][p]
        <5>1. PICK r \in up \ {v, p} : version = caps[r][p]
          BY <4>2
        <5>2. Heard(r, p)
          BY <1>0, <1>6, <5>1 DEF Safe, Pairs, Typed
        <5> QED
          BY <5>1, <5>2 DEF Heard
      <4> QED
        BY <1>1, <4>1, <4>2
    <3> QED
      BY <1>2, <1>4, <2>1, <2>2, <3>1 DEF Heard, Expects, Earned, Old
  <2>3. CASE ~(w = v /\ q = p)
    BY <1>2, <1>4, <2>1, <2>3 DEF Heard, Expects, Earned, Old
  <2> QED
    BY <2>2, <2>3
<1> QED
  BY <1>2, <1>5, <1>6, RunningKeeps, Zenon DEF Safe, OldDeclares

-----------------------------------------------------------------------------
\* A pod that goes down leaves the others' state alone.
LEMMA DownTyped ==
  ASSUME Typed, NEW p \in Pod, Down(p)
  PROVE  /\ Typed' /\ UNCHANGED <<fault, life, pub>> /\ up' = up \ {p}
         /\ \A q \in Pod \ {p} : /\ index'[q] = index[q] /\ ready'[q] = ready[q]
                                 /\ unmet'[q] = unmet[q]
         /\ \A v, q \in Pod : /\ roster'[v][q] = IF v = p THEN "absent" ELSE roster[v][q]
                              /\ caps'[v][q] = IF v = p THEN 0 ELSE caps[v][q]
         /\ ~ready'[p]
<1>1. /\ up' = up \ {p} /\ ready' = [ready EXCEPT ![p] = FALSE]
      /\ index' = [index EXCEPT ![p] = "cold"]
      /\ roster' = [roster EXCEPT ![p] = [q \in Pod |-> "absent"]]
      /\ caps' = [caps EXCEPT ![p] = [q \in Pod |-> 0]]
      /\ unmet' = [unmet EXCEPT ![p] = {}]
      /\ UNCHANGED <<fault, life, pub>>
  BY DEF Down
<1>2. /\ ready' \in [Pod -> BOOLEAN] /\ index' \in [Pod -> {"cold", "complete", "latched"}]
      /\ unmet' \in [Pod -> SUBSET Pod] /\ up' \subseteq Pod
  BY <1>1 DEF Typed
<1>3. roster' \in [Pod -> [Pod -> Status]]
  BY <1>1 DEF Typed, Status
<1>4. caps' \in [Pod -> [Pod -> Nat]]
  BY <1>1 DEF Typed
<1>5. Typed'
  BY <1>1, <1>2, <1>3, <1>4, Zenon DEF Typed
<1>6. \A v, q \in Pod : /\ roster'[v][q] = IF v = p THEN "absent" ELSE roster[v][q]
                        /\ caps'[v][q] = IF v = p THEN 0 ELSE caps[v][q]
  BY <1>1 DEF Typed
<1>7. \A q \in Pod \ {p} : /\ index'[q] = index[q] /\ ready'[q] = ready[q]
                           /\ unmet'[q] = unmet[q]
  BY <1>1 DEF Typed
<1>8. ~ready'[p]
  BY <1>1 DEF Typed
<1> QED
  BY <1>1, <1>5, <1>6, <1>7, <1>8, Zenon

\* The controller waits for every other pod to be ready: beside the pod it
\* stops, that takes an index.
LEMMA StopKeeps ==
  ASSUME Inv, NEW p \in Pod, Stop(p)
  PROVE  Inv'
<1>0. Typed /\ Down(p)
  BY DEF Inv, Stop
<1>1. /\ Typed' /\ UNCHANGED <<fault, life, pub>> /\ up' = up \ {p}
      /\ \A q \in Pod \ {p} : /\ index'[q] = index[q] /\ ready'[q] = ready[q]
                              /\ unmet'[q] = unmet[q]
      /\ \A v, q \in Pod : /\ roster'[v][q] = IF v = p THEN "absent" ELSE roster[v][q]
                           /\ caps'[v][q] = IF v = p THEN 0 ELSE caps[v][q]
      /\ ~ready'[p]
  BY <1>0, DownTyped, Zenon
<1> SUFFICES ASSUME "crash" \notin fault PROVE Safe'
  BY <1>1 DEF Inv
<1>2. Safe
  BY DEF Inv
<1>3. \A q \in Pod : Old(q)' => Old(q) /\ q # p
  BY <1>1 DEF Old
<1>4. \A q \in Pod : OldDeclares(q)'
  BY <1>1, <1>2, <1>3 DEF Safe, OldDeclares
<1>5. ASSUME NEW w \in Pod, NEW q \in Pod, w # q
      PROVE  Heard(w, q)' /\ Expects(w, q)' /\ Earned(w, q)'
  <2>1. Heard(w, q) /\ Expects(w, q) /\ Earned(w, q)
    BY <1>2, <1>5 DEF Safe, Pairs
  <2>2. Heard(w, q)'
    BY <1>1, <2>1 DEF Heard
  <2>3. Expects(w, q)'
    BY <1>1, <1>3, <2>1 DEF Expects
  <2>4. Earned(w, q)'
    BY <1>1, <1>3, <2>1 DEF Earned
  <2> QED
    BY <2>2, <2>3, <2>4
<1>6. Holders' # {}
  <2>1. PICK q \in Pod : q # p
    BY RolloutAssumption
  <2>2. Old(p) /\ q \in up /\ ready[q]
    BY <2>1 DEF Stop, Old, Others
  <2>3. Earned(q, p)
    BY <1>2, <2>1 DEF Safe, Pairs
  <2>4. index[q] = "latched"
    BY <2>2, <2>3 DEF Earned
  <2> QED
    BY <1>1, <2>1, <2>2, <2>4 DEF Holders
<1> QED
  BY <1>4, <1>5, <1>6, Zenon DEF Safe, Pairs

LEMMA CrashKeeps ==
  ASSUME Inv, NEW p \in Pod, Crash(p)
  PROVE  Inv'
  BY DownTyped DEF Crash, Inv

\* A new life expects every seed, and is no old pod.
LEMMA StartKeeps ==
  ASSUME Inv, NEW p \in Pod, Start(p)
  PROVE  Inv'
<1>0. Typed
  BY DEF Inv
<1>1. /\ p \notin up /\ up' = up \cup {p} /\ life' = [life EXCEPT ![p] = @ + 1]
      /\ unmet' = [unmet EXCEPT ![p] = Others(p)]
      /\ UNCHANGED <<fault, index, pub, roster, caps, ready>>
  BY DEF Start
<1>2. /\ life' \in [Pod -> Nat] /\ life'[p] >= 2 /\ \A q \in Pod \ {p} : life'[q] = life[q]
      /\ \A q \in Pod : life'[q] >= 1
  BY <1>0, <1>1 DEF Typed
<1>3. /\ unmet' \in [Pod -> SUBSET Pod] /\ unmet'[p] = Pod \ {p}
      /\ \A q \in Pod \ {p} : unmet'[q] = unmet[q]
  BY <1>0, <1>1 DEF Typed, Others
<1>4. Typed'
  BY <1>0, <1>1, <1>2, <1>3, Zenon DEF Typed
<1> SUFFICES ASSUME "crash" \notin fault PROVE Safe'
  BY <1>1, <1>4 DEF Inv
<1>5. Safe
  BY DEF Inv
<1>6. \A q \in Pod : life'[q] = 1 => life[q] = 1 /\ q # p
  BY <1>2
<1>7. \A q \in Pod : Old(q)' => Old(q) /\ q # p
  BY <1>1, <1>6 DEF Old
<1>8. ASSUME NEW w \in Pod, NEW q \in Pod, w # q
      PROVE  Heard(w, q)' /\ Expects(w, q)' /\ Earned(w, q)'
  <2>1. Heard(w, q) /\ Expects(w, q) /\ Earned(w, q)
    BY <1>5, <1>8 DEF Safe, Pairs
  <2>2. Heard(w, q)'
    BY <1>1, <1>6, <2>1 DEF Heard
  <2>3. Expects(w, q)'
    BY <1>1, <1>3, <1>7, <1>8, <2>1 DEF Expects
  <2>4. Earned(w, q)'
    BY <1>1, <1>7, <2>1 DEF Earned
  <2> QED
    BY <2>2, <2>3, <2>4
<1>9. Holders' # {}
  BY <1>1, <1>5 DEF Safe, Holders
<1>10. \A q \in Pod : OldDeclares(q)'
  BY <1>1, <1>5, <1>7 DEF Safe, OldDeclares
<1> QED
  BY <1>8, <1>9, <1>10, Zenon DEF Safe, Pairs

-----------------------------------------------------------------------------
LEMMA InitHolds ==
  ASSUME Init
  PROVE  Inv
<1>1. \A p \in Pod : Declared(p) = 2
  <2>1. \A p \in Pod : index[p] = "latched" /\ life[p] = 1
    BY Zenon DEF Init
  <2>2. \A p \in Pod : Declared(p) = 2 * life[p]
    BY <2>1, Zenon DEF Declared
  <2>3. 2 * 1 = 2
    OBVIOUS
  <2> QED
    BY <2>1, <2>2, <2>3, Zenon
<1>2. pub \in [Pod -> Nat] /\ caps \in [Pod -> [Pod -> Nat]]
  BY <1>1 DEF Init
<1>3. roster \in [Pod -> [Pod -> Status]]
  BY DEF Init, Status
<1>4. Typed
  BY <1>2, <1>3, RolloutAssumption DEF Init, Typed
<1>5. \A p \in Pod : OldDeclares(p)
  BY <1>1 DEF Init, OldDeclares
<1>6. Pairs
  BY <1>1 DEF Init, Pairs, Heard, Expects, Earned
<1>7. Holders # {}
  BY RolloutAssumption DEF Init, Holders
<1> QED
  BY <1>4, <1>5, <1>6, <1>7 DEF Inv, Safe

LEMMA NextKeeps ==
  ASSUME Inv, [Next]_vars
  PROVE  Inv'
<1>1. CASE UNCHANGED vars
  <2>1. UNCHANGED <<fault, up, life, index, pub, roster, caps, unmet, ready>>
    BY <1>1 DEF vars
  <2>2. Typed'
    BY <2>1, Zenon DEF Inv, Typed
  <2>3. ASSUME Safe, NEW w \in Pod, NEW q \in Pod, w # q
        PROVE  Heard(w, q)' /\ Expects(w, q)' /\ Earned(w, q)'
    BY <2>1, <2>3, Zenon DEF Safe, Pairs, Heard, Expects, Earned, Old
  <2> QED
    BY <2>1, <2>2, <2>3, RunningKeeps, Zenon DEF Safe, OldDeclares
<1>2. ASSUME NEW p \in Pod,
             \/ Probe(p) \/ Complete(p) \/ Gap(p) \/ WatchIndexReady(p) \/ Offer(p)
             \/ Settle(p) \/ Stop(p) \/ Crash(p) \/ Start(p)
      PROVE  Inv'
  BY <1>2, ProbeKeeps, IndexKeeps, OfferKeeps, UnmetKeeps, StopKeeps, CrashKeeps, StartKeeps,
     Zenon
<1>3. ASSUME NEW p \in Pod, NEW v \in Pod, Membership(v, p) \/ Gossip(v, p) \/ Suspect(v, p)
      PROVE  Inv'
  BY <1>3, RosterKeeps, UnmetKeeps, GossipKeeps, Zenon DEF Membership
<1> QED
  BY <1>1, <1>2, <1>3, Zenon DEF Next

\* "Never let a rollout stop the last index-holding pod": in every reachable
\* state of a fleet of two or more pods that began with an index in each, a pod
\* that runs holds one, unless pods crash.
THEOREM RolloutKeepsAnIndex == Spec => []IndexSurvives
<1>1. Init => Inv
  BY InitHolds
<1>2. Inv /\ [Next]_vars => Inv'
  BY NextKeeps
<1>3. Inv => IndexSurvives
  BY DEF Inv, Safe, IndexSurvives
<1> QED
  BY <1>1, <1>2, <1>3, PTL DEF Spec

=============================================================================
