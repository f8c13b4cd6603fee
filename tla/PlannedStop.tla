----------------------------- MODULE PlannedStop -----------------------------
(***************************************************************************)
(* A node's planned stop and how its peers cross its restart               *)
(* (src/src/cache/stop.rs, src/src/sync/stop.rs and the seal, renewal and  *)
(* gap arms of the apply loop in src/src/sync/coherence.rs).               *)
(*                                                                         *)
(* Each mutation runs on a task of its own while the HTTP handler waits    *)
(* for it; both hold a guard of the node's tail count.  The stop closes    *)
(* admission, waits for the count to reach zero and seals the feed.  A     *)
(* peer that delivered the seal crosses into the next life by renewal;     *)
(* any other peer takes a gap and rescans the origin.                      *)
(***************************************************************************)
EXTENDS Naturals, Sequences, FiniteSets

CONSTANTS
  Write,     \* the mutations; each is of a key of its own
  Peer,      \* the nodes that follow the stopping node's feed
  MaxLife,   \* bound: lives of the stopping node
  Settings   \* the circumstances to consider, out of Setting

\* "die": a mutation's task panics.  "hangup": its client goes away.
\* "crash": the node stops unplanned.  "timeout": a wait of the stop reaches
\* its deadline.  "miss": writes leave the feed's window before a peer fetched
\* them.
Fault == {"die", "hangup", "crash", "timeout", "miss"}

\* The circumstances a behaviour runs in, fixed by its first state.
Setting ==
  [writes : SUBSET Write, peers : SUBSET Peer, lives : 1..MaxLife, faults : SUBSET Fault]

\* The seal, as a feed event.
Seal == "seal"

ASSUME StopAssumption ==
  /\ MaxLife \in Nat \ {0} /\ \A s \in Settings : s \in Setting
  /\ Seal \notin Write

VARIABLES
  setting,   \* the circumstances
  node,      \* the stopping node
  task,      \* each mutation's spawned task
  wait,      \* each mutation's HTTP handler
  landed,    \* the mutations the origin applied, with the life that did it
  feed,      \* the feed of each life: mutations and, last, its seal
  peer,      \* what each peer has delivered and serves
  orphans,   \* history: mutations whose task died with no handler to tell
  gaps,      \* history: each peer's gaps, from a life into a life
  observed   \* history: the lives whose seal every peer acknowledged

vars == <<setting, node, task, wait, landed, feed, peer, orphans, gaps, observed>>

Life == 1..MaxLife

\* WriteTails and the stop's progress.  seal is "none" before the stop,
\* "waiting" for the tails, then "advertised", then how it ended.
Node ==
  [life : Life, up : BOOLEAN, running : Nat, closed : BOOLEAN,
   seal : {"none", "waiting", "advertised", "observed", "unconfirmed",
           "abandoned"}]

TaskState == {"idle", "calling", "landed", "published", "ended", "died"}
WaitState == {"idle", "waiting", "over"}

NewLife(life) ==
  [life |-> life, up |-> TRUE, running |-> 0, closed |-> FALSE,
   seal |-> "none"]

\* What a peer holds of the node: its place in the feed, the mutations its
\* index reflects (as a row or as a fence), whether it serves from it, and
\* the crossing evidence (life sealed, life renewed into; 0 for none).
PeerState ==
  [life : Life, pos : Nat, known : SUBSET Write, serving : BOOLEAN,
   sealed : Nat, renewed : Nat]

Init ==
  /\ setting \in Settings
  /\ node = NewLife(1)
  /\ task = [w \in Write |-> "idle"]
  /\ wait = [w \in Write |-> "idle"]
  /\ landed = [l \in Life |-> {}]
  /\ feed = [l \in Life |-> <<>>]
  /\ peer = [p \in Peer |->
               [life |-> 1, pos |-> 0, known |-> {}, serving |-> TRUE,
                sealed |-> 0, renewed |-> 0]]
  /\ orphans = {}
  /\ gaps = [p \in Peer |-> {}]
  /\ observed = {}

Landed == UNION {landed[l] : l \in Life}

\* The events of a life's feed.
Events(l) == {feed[l][i] : i \in 1..Len(feed[l])}

-----------------------------------------------------------------------------
(* Mutations: a task that calls the origin and publishes, a handler that   *)
(* waits for it.  Each holds one guard of the count.                       *)

Moves(f, w, from, to) == f[w] = from /\ f' = [f EXCEPT ![w] = to]

DropGuard == node' = [node EXCEPT !.running = @ - 1]

\* Mutant: the handler's wait is not counted.
AdmitUnshared(w) ==
  /\ w \in setting.writes /\ node.up /\ ~node.closed
  /\ Moves(task, w, "idle", "calling")
  /\ wait' = [wait EXCEPT ![w] = "waiting"]
  /\ node' = [node EXCEPT !.running = @ + 1]
  /\ UNCHANGED <<setting, orphans, landed, feed, peer, gaps, observed>>

\* track and share: the task's guard and the handler's.  A closed count
\* answers 503 before the origin is called.
Admit(w) ==
  /\ w \in setting.writes /\ node.up /\ ~node.closed
  /\ Moves(task, w, "idle", "calling")
  /\ wait' = [wait EXCEPT ![w] = "waiting"]
  /\ node' = [node EXCEPT !.running = @ + 2]
  /\ UNCHANGED <<setting, orphans, landed, feed, peer, gaps, observed>>

\* The origin applies the mutation.
Land(w) ==
  /\ node.up
  /\ Moves(task, w, "calling", "landed")
  /\ landed' = [landed EXCEPT ![node.life] = @ \cup {w}]
  /\ UNCHANGED <<setting, orphans, node, wait, feed, peer, gaps, observed>>

\* The origin definitely refuses it: the task ends and publishes nothing.
Refuse(w) ==
  /\ node.up
  /\ Moves(task, w, "calling", "ended")
  /\ DropGuard
  /\ UNCHANGED <<setting, orphans, wait, landed, feed, peer, gaps, observed>>

\* The origin's answer arrived and the task indexes the mutation (or, the
\* answer leaving the outcome open, fences its key); the index lock assigns
\* its feed position.
Publish(w) ==
  /\ node.up
  /\ \/ Moves(task, w, "landed", "published")
     \/ Moves(task, w, "calling", "published")
  /\ feed' = [feed EXCEPT ![node.life] = Append(@, w)]
  /\ UNCHANGED <<setting, orphans, node, wait, landed, peer, gaps, observed>>

\* The cluster wait is over, acknowledged or not: the task's guard drops.
Finish(w) ==
  /\ node.up
  /\ Moves(task, w, "published", "ended")
  /\ DropGuard
  /\ UNCHANGED <<setting, orphans, wait, landed, feed, peer, gaps, observed>>

\* Task and handler are both gone and the feed does not have the mutation:
\* nobody is left to announce it.
Orphaned(w, gone) ==
  orphans' = IF gone /\ w \notin Events(node.life) THEN orphans \cup {w} ELSE orphans

\* Mutant: a task that dies keeps its place in the count.
DieLeaking(w) ==
  /\ "die" \in setting.faults /\ node.up
  /\ task[w] \in {"calling", "landed", "published"}
  /\ task' = [task EXCEPT ![w] = "died"] /\ Orphaned(w, wait[w] = "over")
  /\ UNCHANGED <<setting, node, wait, landed, feed, peer, gaps, observed>>

\* The task panics or is aborted; dropping the guard takes it off the count.
Die(w) ==
  /\ "die" \in setting.faults /\ node.up
  /\ task[w] \in {"calling", "landed", "published"}
  /\ task' = [task EXCEPT ![w] = "died"] /\ Orphaned(w, wait[w] = "over")
  /\ DropGuard
  /\ UNCHANGED <<setting, wait, landed, feed, peer, gaps, observed>>

\* The handler answers the client with the task's result.
Answer(w) ==
  /\ node.up
  /\ task[w] = "ended" /\ wait[w] = "waiting"
  /\ wait' = [wait EXCEPT ![w] = "over"]
  /\ DropGuard
  /\ UNCHANGED <<setting, orphans, task, landed, feed, peer, gaps, observed>>

\* The task died, so the handler fences the key and advertises it as unknown
\* before it answers; its guard is held until then.
AnnounceUnknown(w) ==
  /\ node.up
  /\ task[w] = "died" /\ wait[w] = "waiting"
  /\ wait' = [wait EXCEPT ![w] = "over"]
  /\ feed' = [feed EXCEPT ![node.life] = Append(@, w)]
  /\ DropGuard
  /\ UNCHANGED <<setting, orphans, task, landed, peer, gaps, observed>>

\* Mutant: the mutation runs in the handler's own future, so the hang-up
\* cancels it.
HangUpCancels(w) ==
  /\ "hangup" \in setting.faults /\ node.up
  /\ wait[w] = "waiting"
  /\ wait' = [wait EXCEPT ![w] = "over"]
  /\ task' = [task EXCEPT ![w] = "ended"]
  /\ node' = [node EXCEPT !.running = @ - (IF task[w] \in {"ended", "died"} THEN 1 ELSE 2)]
  /\ UNCHANGED <<setting, orphans, landed, feed, peer, gaps, observed>>

\* The client hangs up, which drops the handler's future and its guard.
HangUp(w) ==
  /\ "hangup" \in setting.faults /\ node.up
  /\ wait[w] = "waiting"
  /\ wait' = [wait EXCEPT ![w] = "over"] /\ Orphaned(w, task[w] = "died")
  /\ DropGuard
  /\ UNCHANGED <<setting, task, landed, feed, peer, gaps, observed>>

-----------------------------------------------------------------------------
(* The stop.                                                               *)

\* Mutant: the seal is prepared while mutations are still admitted.
StopOpen ==
  /\ node.up /\ node.seal = "none"
  /\ node' = [node EXCEPT !.seal = "waiting"]
  /\ UNCHANGED <<setting, orphans, task, wait, landed, feed, peer, gaps, observed>>

\* SIGTERM: admission closes and the seal starts to wait.
Stop ==
  /\ node.up /\ node.seal = "none"
  /\ node' = [node EXCEPT !.closed = TRUE, !.seal = "waiting"]
  /\ UNCHANGED <<setting, orphans, task, wait, landed, feed, peer, gaps, observed>>

\* Every tail is gone: the feed is sealed.
SealWrites ==
  /\ node.up /\ node.seal = "waiting" /\ node.running = 0
  /\ node' = [node EXCEPT !.seal = "advertised"]
  /\ feed' = [feed EXCEPT ![node.life] = Append(@, Seal)]
  /\ UNCHANGED <<setting, orphans, task, wait, landed, peer, gaps, observed>>

\* A tail still runs at the deadline: nothing is sealed.
SealAbandoned ==
  /\ "timeout" \in setting.faults
  /\ node.up /\ node.seal = "waiting" /\ node.running > 0
  /\ node' = [node EXCEPT !.seal = "abandoned"]
  /\ UNCHANGED <<setting, orphans, task, wait, landed, feed, peer, gaps, observed>>

\* Mutant: the wait is for the last write, not for the seal.
AppliedAlmost(p) == peer[p].life = node.life
                    /\ peer[p].pos + 1 >= Len(feed[node.life])

\* p acknowledged the seal.
Applied(p) == peer[p].life = node.life /\ peer[p].pos = Len(feed[node.life])

SealObserved ==
  /\ node.up /\ node.seal = "advertised"
  /\ \A p \in setting.peers : Applied(p)
  /\ node' = [node EXCEPT !.seal = "observed"]
  /\ observed' = observed \cup {node.life}
  /\ UNCHANGED <<setting, orphans, task, wait, landed, feed, peer, gaps>>

SealUnconfirmed ==
  /\ "timeout" \in setting.faults
  /\ node.up /\ node.seal = "advertised"
  /\ node' = [node EXCEPT !.seal = "unconfirmed"]
  /\ UNCHANGED <<setting, orphans, task, wait, landed, feed, peer, gaps, observed>>

\* The process ends: the stop is over, or it crashed.  Its tasks and handlers
\* go with it.
Exit ==
  /\ node.up
  /\ \/ node.seal \in {"observed", "unconfirmed", "abandoned"}
     \/ "crash" \in setting.faults
  /\ node' = [node EXCEPT !.up = FALSE]
  /\ task' = [w \in Write |-> IF task[w] = "idle" THEN "idle" ELSE "ended"]
  /\ wait' = [w \in Write |-> IF wait[w] = "idle" THEN "idle" ELSE "over"]
  /\ UNCHANGED <<setting, orphans, landed, feed, peer, gaps, observed>>

\* A new life, advertised at once.
Restart ==
  /\ ~node.up /\ node.life < setting.lives
  /\ node' = NewLife(node.life + 1)
  /\ UNCHANGED <<setting, orphans, task, wait, landed, feed, peer, gaps, observed>>

-----------------------------------------------------------------------------
(* A peer follows the feed.  What the feed reports of a restart is         *)
(* Groupnet's: a renewal when the seal of the life directly before was     *)
(* delivered, a gap otherwise.                                             *)

NextEvent(p) == feed[peer[p].life][peer[p].pos + 1]

Behind(p) == peer[p].pos < Len(feed[peer[p].life])

\* The life's feed is still advertised.
Following(p) == p \in setting.peers /\ peer[p].life = node.life /\ Behind(p)

\* PeerWrite::Wrote: the index reflects the mutation before it is acknowledged.
Wrote(p) ==
  /\ Following(p) /\ NextEvent(p) # Seal
  /\ peer' = [peer EXCEPT ![p].pos = @ + 1,
                          ![p].known = @ \cup {NextEvent(p)}]
  /\ UNCHANGED <<setting, orphans, node, task, wait, landed, feed, gaps, observed>>

\* PeerWrite::Sealed: note_native_seal and observe_seal.
Sealed(p) ==
  /\ Following(p) /\ NextEvent(p) = Seal
  /\ peer' = [peer EXCEPT ![p].pos = @ + 1, ![p].sealed = peer[p].life]
  /\ UNCHANGED <<setting, orphans, node, task, wait, landed, feed, gaps, observed>>

\* The peer sees a life it does not follow yet.
NewLifeSeen(p) == p \in setting.peers /\ node.up /\ node.life > peer[p].life

\* The delivered seal proves nothing was missed: it is of the life the new
\* one directly follows.
SealDelivered(p) ==
  peer[p].sealed = peer[p].life /\ node.life = peer[p].life + 1

\* PeerWrite::Renewed: observe_renewal.  The index and the bodies are kept.
Renewed(p) ==
  /\ NewLifeSeen(p) /\ SealDelivered(p)
  /\ peer' = [peer EXCEPT ![p].life = node.life, ![p].pos = 0,
                          ![p].sealed = 0, ![p].renewed = node.life]
  /\ UNCHANGED <<setting, orphans, node, task, wait, landed, feed, gaps, observed>>

\* Mutant: the evidence of an earlier stop survives a gap.
AfterGapKeeping(s, life, pos) ==
  [s EXCEPT !.life = life, !.pos = pos, !.known = {}, !.serving = FALSE]

\* forget_crossing and discard_for_gap: the evidence and the index go, and
\* nothing is served until the rebuild.
AfterGap(s, life, pos) ==
  [s EXCEPT !.life = life, !.pos = pos, !.known = {}, !.serving = FALSE,
            !.sealed = 0, !.renewed = 0]

\* PeerWrite::Gap: an unsealed restart, ...
RestartGap(p) ==
  /\ NewLifeSeen(p) /\ ~SealDelivered(p)
  /\ peer' = [peer EXCEPT ![p] = AfterGap(@, node.life, 0)]
  /\ gaps' = [gaps EXCEPT ![p] = @ \cup {<<peer[p].life, node.life>>}]
  /\ UNCHANGED <<setting, orphans, node, task, wait, landed, feed, observed>>

\* ... or writes that left the feed's window before they were delivered.  The
\* latest event stays in it.
MissedGap(p) ==
  /\ "miss" \in setting.faults /\ Following(p)
  /\ \E pos \in peer[p].pos + 1 .. Len(feed[node.life]) - 1 :
       peer' = [peer EXCEPT ![p] = AfterGap(@, node.life, pos)]
  /\ gaps' = [gaps EXCEPT ![p] = @ \cup {<<node.life, node.life>>}]
  /\ UNCHANGED <<setting, orphans, node, task, wait, landed, feed, observed>>

\* The recovery rebuilds the index from the origin and serves again.
Rebuild(p) ==
  /\ ~peer[p].serving
  /\ peer' = [peer EXCEPT ![p].known = @ \cup Landed, ![p].serving = TRUE]
  /\ UNCHANGED <<setting, orphans, node, task, wait, landed, feed, gaps, observed>>

-----------------------------------------------------------------------------
TailStep(w) == Land(w) \/ Refuse(w) \/ Publish(w) \/ Finish(w)

Handler(w) == Answer(w) \/ AnnounceUnknown(w)

Follow(p) ==
  Wrote(p) \/ Sealed(p) \/ Renewed(p) \/ RestartGap(p) \/ Rebuild(p)

Next ==
  \/ \E w \in Write : Admit(w) \/ TailStep(w) \/ Die(w) \/ Handler(w) \/ HangUp(w)
  \/ Stop \/ SealWrites \/ SealAbandoned \/ SealObserved \/ SealUnconfirmed
  \/ Exit \/ Restart
  \/ \E p \in Peer : Follow(p) \/ MissedGap(p)

Spec == Init /\ [][Next]_vars

\* Tasks and handlers are polled, every origin call and every wait is bounded,
\* and the feed reaches the peers.  Nothing makes a client write, an operator
\* stop or restart the node, or a fault happen.
FairSpec ==
  /\ Spec
  /\ \A w \in Write : WF_vars(TailStep(w)) /\ WF_vars(Handler(w))
  /\ WF_vars(SealWrites) /\ WF_vars(SealObserved)
  /\ \A p \in Peer : WF_vars(Follow(p))

-----------------------------------------------------------------------------
\* The variables have their types.
TypeOK ==
  /\ setting \in Setting
  /\ node \in Node
  /\ task \in [Write -> TaskState]
  /\ wait \in [Write -> WaitState]
  /\ landed \in [Life -> SUBSET Write]
  /\ feed \in [Life -> Seq(Write \cup {Seal})]
  /\ peer \in [Peer -> PeerState]
  /\ orphans \subseteq Write
  /\ gaps \in [Peer -> SUBSET (Life \X Life)]
  /\ observed \subseteq Life

IsSealed(l) == Seal \in Events(l)

\* A sealed life published every mutation it landed, the seal comes last, and
\* no task or handler of it may still publish: cache/stop.rs counts the
\* handler's wait next to the task so that the announcement of a dead task is
\* not made behind the seal, where the feed would panic.  The one exception is
\* a mutation whose task died and whose client hung up: the code forgets it.
SealIsFinal ==
  \A l \in Life : IsSealed(l) =>
    /\ \A i \in 1..Len(feed[l]) - 1 : feed[l][i] # Seal
    /\ landed[l] \subseteq Events(l) \cup orphans

\* A peer that delivered a life's seal has applied that whole life: what it
\* serves reflects every mutation an earlier life landed (a forgotten one
\* aside), however many stops and restarts it crossed, by renewal or by gap
\* (sync/stop.rs).
ServesWholeLives ==
  \A p \in Peer : peer[p].serving =>
    \A l \in Life :
      l < peer[p].life \/ l = peer[p].sealed => landed[l] \subseteq peer[p].known \cup orphans

\* The crossing evidence a recovery reads (Peer::sealed, Peer::renewal) is of
\* the life the peer is in, and of restarts it crossed after its last gap: a
\* gap supersedes any seal or renewal before it (forget_crossing).
EvidenceIsCurrent ==
  \A p \in Peer :
    /\ peer[p].sealed \in {0, peer[p].life}
    /\ peer[p].renewed # 0 => \A g \in gaps[p] : g[2] < peer[p].renewed

\* SealOutcome::Observed: "each will cross this node's restart without a gap".
\* No peer takes a gap into the life after one whose seal it acknowledged.
ObservedCrosses ==
  \A p \in Peer, l \in observed : <<l, l + 1>> \notin gaps[p]

\* A stop seals the feed: hang-ups and dead tasks give every guard back, so
\* the count reaches zero and the peers learn that the life is over, unless
\* the deadline or a crash comes first (seal_writes).
StopSeals ==
  node.up /\ node.seal = "waiting"
    ~> ~node.up \/ node.seal = "abandoned" \/ IsSealed(node.life)

=============================================================================
