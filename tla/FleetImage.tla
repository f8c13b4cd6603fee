----------------------------- MODULE FleetImage -----------------------------
(***************************************************************************)
(* Fleet bootstrap: a donor captures its index, journals every later       *)
(* effect, and a joining follower replays image and journal on a private   *)
(* stage that replaces its live index once both have applied the same      *)
(* native feeds (src/src/index/fleet.rs and fleet/, sync/volatile/fleet.rs *)
(* and fleet/).  Meanwhile clients write through both nodes and a third    *)
(* one, feeds overrun, writers restart, and either node observes,          *)
(* reconciles and rescans.  Each step is one critical section of one       *)
(* node's index lock, or a step of the private stage.                      *)
(***************************************************************************)
EXTENDS FleetRows, Sequences

CONSTANTS
  Donor, Follower,  \* the two nodes; every other writer is a third node
  MaxEvents,        \* JOURNAL_CONFIG.max_events
  Settings          \* the settings of a behaviour; see Setting

Node == {Donor, Follower}

\* "lost": a write's answer is lost.  "gap": a feed overruns.  "seal" and
\* "crash": a third writer restarts, with and without a planned stop.
\* "scan": a node rebuilds its index from the origin of its own accord.
\* "read": origin answers are observed.  "drop": a capture is abandoned and
\* the donor's listener ends.
Event == {"lost", "gap", "seal", "crash", "scan", "read", "drop"}

\* Which events happen, which writers wrote before the follower's feeds began,
\* which clients write, and the bounds on writes, clock, captures, rebuilds
\* and fences.
Setting ==
  [keys : SUBSET Key, events : SUBSET Event, prior : SUBSET Writer,
   writers : SUBSET Writer, maxVer : Nat, maxTime : Nat, captures : Nat,
   maxGen : Nat, maxEpoch : Nat]

ASSUME FleetImageAssumption ==
  /\ Node \subseteq Writer /\ Donor # Follower
  /\ 0 \notin Key
  /\ MaxEvents \in Nat
  /\ Settings \subseteq Setting

VARIABLES
  setting,   \* the setting of this behaviour
  origin,    \* what the origin holds: per key the version and its mtime
  now,       \* the wall clock
  written,   \* writes begun so far
  op,        \* the mutation each writer runs
  head,      \* the last position of each writer's feed
  feed,      \* per node and writer, the events on their way
  node,      \* per node its bucket, its native cuts and the members it sees
  caps,      \* the donor's captures, in order of their serials
  attached,  \* the serial of the capture the donor's index journals to, or 0
  stage,     \* the follower's private stage
  barrier    \* the last barrier receipt the donor gave the follower

vars == <<setting, origin, now, written, op, head, feed, node, caps, attached,
          stage, barrier>>

Absent == [ver |-> 0, mtime |-> 0]
Idle == [pc |-> "idle", key |-> 0, kind |-> "put", ver |-> 0]
NoStage == [phase |-> "none", serial |-> 0, b |-> NoBucket, pos |-> 0]
NoBarrier == [serial |-> 0, pos |-> 0, cuts |-> [w \in Writer |-> NoCut],
              members |-> [w \in Writer |-> 0]]

\* A member is known by its node and its present life.
FirstLives == [w \in Writer |-> 1]

\* origin_time: origin timestamps enter the index in whole seconds.
OriginTime(t) == WholeSeconds(t) * Second

OriginRow(o, meta) ==
  IF o.ver = 0 THEN NoRow
  ELSE [ts |-> OriginTime(o.mtime), size |-> o.ver, etag |-> o.ver, meta |-> meta]

Listing == [k \in Key |-> OriginRow(origin[k], 0)]

Init ==
  /\ setting \in Settings
  /\ now = Second
  /\ origin \in [Key -> {Absent, [ver |-> 1, mtime |-> Second]}]
  /\ \A k \in Key \ setting.keys : origin[k] = Absent
  /\ written = 1
  /\ op = [w \in Writer |-> Idle]
  /\ head = [w \in Writer |-> At(1, IF w \in setting.prior THEN 1 ELSE 0)]
  /\ feed = [n \in Node |-> [w \in Writer |-> <<>>]]
  /\ node = [n \in Node |->
       IF n = Donor
       THEN [b |-> [Decoded([keys |-> Listing, gone |-> NoBucket.gone]) EXCEPT !.gen = 1],
             cuts |-> [w \in Writer |-> IF w = Donor \/ w \in setting.prior
                                        THEN head[w] ELSE NoCut],
             members |-> FirstLives]
       ELSE [b |-> NoBucket,
             cuts |-> [w \in Writer |-> IF w = Follower THEN head[w] ELSE NoCut],
             members |-> FirstLives]]
  /\ caps = <<>>
  /\ attached = 0
  /\ stage = NoStage
  /\ barrier = NoBarrier

-----------------------------------------------------------------------------
(* The journal of a capture (groupnet's DonorJournal) and what the index   *)
(* tells it under its lock.                                                *)

\* The donor's transferable rows and its cuts at one moment.
Snapshot(b, cuts) == [image |-> Image(b), cuts |-> cuts]

Silent == [say |-> "nothing"]
Withdraw == [say |-> "withdraw"]
Local(delta) == [say |-> "local", delta |-> delta]
Native(w, at, delta) == [say |-> "native", delta |-> delta, writer |-> w, at |-> at]

\* A native effect, after note_native_cut: only the next event of a known life
\* can be journaled; anything else withdraws the capture.
NativeEntry(cuts, w, at, delta) ==
  IF Follows(cuts, w, at) THEN Native(w, at, delta) ELSE Withdraw

\* Mutant: the journal's bound is not kept.
JournaledPastBound(c, entry, snapshot) ==
  IF ~c.active \/ entry.say = "nothing" THEN c
  ELSE IF entry.say = "withdraw" THEN [c EXCEPT !.active = FALSE]
  ELSE [c EXCEPT !.deltas = Append(@, entry.delta),
                 !.cuts = IF entry.say = "native"
                          THEN [@ EXCEPT ![entry.writer] = entry.at] ELSE @,
                 !.trail = Append(@, snapshot)]

\* A withdrawn journal takes nothing more, a full one is withdrawn.  trail
\* keeps, beside each position, what the donor's index held there.
Journaled(c, entry, snapshot) ==
  IF ~c.active \/ entry.say = "nothing" THEN c
  ELSE IF entry.say = "withdraw" \/ Len(c.deltas) = MaxEvents
       THEN [c EXCEPT !.active = FALSE]
  ELSE [c EXCEPT !.deltas = Append(@, entry.delta),
                 !.cuts = IF entry.say = "native"
                          THEN [@ EXCEPT ![entry.writer] = entry.at] ELSE @,
                 !.trail = Append(@, snapshot)]

Captured(n) == n = Donor /\ attached # 0

\* One critical section of node n's index: its bucket and cuts become b and
\* cuts, and its capture, when it has one, is told.
PublishSeeing(n, b, cuts, members, entry) ==
  /\ node' = [node EXCEPT ![n] = [b |-> b, cuts |-> cuts, members |-> members]]
  /\ caps' = IF Captured(n)
             THEN [caps EXCEPT ![attached] = Journaled(@, entry, Snapshot(b, cuts))]
             ELSE caps

Publish(n, b, cuts, entry) == PublishSeeing(n, b, cuts, node[n].members, entry)

\* The node learns that w lives a later life.
Seeing(n, w, at) == [node[n].members EXCEPT ![w] = at.epoch]

\* Mutant: the donor forgets expired tombstones while a capture is attached.
SweepableAlways(n, ts) == SUBSET Expired(node[n].b, ts)

\* The tombstones a live delete may forget: none while a capture is attached.
Sweepable(n, ts) == IF Captured(n) THEN {{}} ELSE SUBSET Expired(node[n].b, ts)

\* A definitive event e of writer w reaches node n's index.
ApplyNative(n, w, e) ==
  LET b == node[n].b
      cuts == NoteCut(node[n].cuts, w, e.at)
      Entry(delta) == NativeEntry(node[n].cuts, w, e.at, delta)
  IN  \/ /\ e.kind = "put"
         /\ Publish(n, ApplyPut(b, e.key, e.row), cuts, Entry(PutEffect(b, e.key, e.row)))
      \/ /\ e.kind = "del"
         /\ \E swept \in Sweepable(n, e.row.ts) :
              Publish(n, ApplyDel(b, e.key, e.row.ts, swept), cuts,
                      Entry(DelEffect(b, e.key, e.row.ts)))
      \/ /\ e.kind = "unknown"
         /\ b.epoch < setting.maxEpoch
         /\ Publish(n, FenceKey(b, e.key), cuts, Withdraw)
      \/ /\ e.kind = "seal"
         /\ Publish(n, b, cuts, Entry(Noop))

\* Mutant: the rows survive a gap.
DiscardNothing(n, w, through) ==
  PublishSeeing(n, node[n].b, SkipGap(node[n].cuts, w, through), Seeing(n, w, through), Withdraw)

DiscardForGap(n, w, through) ==
  PublishSeeing(n, DiscardBuckets(node[n].b), SkipGap(node[n].cuts, w, through),
                Seeing(n, w, through), Withdraw)

-----------------------------------------------------------------------------
(* Writes and feeds.                                                       *)

Pending(n) == UNION {{feed[n][w][i] : i \in DOMAIN feed[n][w]} : w \in Writer}

\* Clients wait for an acknowledgement, which waits for every serving node.
MayBegin(k) ==
  /\ \A w \in Writer : op[w].pc # "idle" => op[w].key # k
  /\ \A n \in Node : node[n].b.synced \/ node[n].b.rebuild # 0 =>
       \A e \in Pending(n) : e.key # k

\* A client's write reaches the origin, or its answer is lost before or after
\* the origin applies it.
Write(w, k, kind, outcome) ==
  /\ op[w].pc = "idle" /\ w \in setting.writers /\ k \in setting.keys
  /\ written < setting.maxVer
  /\ MayBegin(k)
  /\ outcome = "landed" \/ "lost" \in setting.events
  /\ written' = written + 1
  /\ origin' = IF outcome = "refused" THEN origin
               ELSE [origin EXCEPT ![k] = IF kind = "put"
                                          THEN [ver |-> written + 1, mtime |-> now]
                                          ELSE Absent]
  /\ op' = [op EXCEPT ![w] = [pc |-> IF outcome = "landed" THEN "landed" ELSE "unknown",
                              key |-> k, kind |-> kind, ver |-> written + 1]]
  /\ UNCHANGED <<setting, now, head, feed, node, caps, attached, stage, barrier>>

\* w's feed goes on with these events.
Emit(w, events) ==
  feed' = [n \in Node |->
            IF n = w THEN feed[n] ELSE [feed[n] EXCEPT ![w] = @ \o events]]

NextAt(w) == At(head[w].epoch, head[w].seq + 1)

Happening(kind, at, k, row) ==
  [kind |-> kind, at |-> at, key |-> k, row |-> row, from |-> NoCut]

\* The writer's event takes its feed position and, on a node, enters its own
\* index, under one hold of the index lock.
Announce(w, own, sent) ==
  /\ head' = [head EXCEPT ![w] = NextAt(w)]
  /\ op' = [op EXCEPT ![w] = Idle]
  /\ Emit(w, <<sent>>)
  /\ IF w \in Node THEN ApplyNative(w, w, own) ELSE UNCHANGED <<node, caps>>

\* Nothing older than the tombstone TTL is still on its way.
Timely(t) == \A n \in Node : \A e \in Pending(n) : t <= e.row.ts + TTL \/ e.row.ts = 0

\* The writer stamps its finished write with its clock and publishes it.  Its
\* own row carries the metadata, which never travels on the feed.
Record(w, t) ==
  /\ op[w].pc = "landed"
  /\ t <= setting.maxTime /\ Timely(t)
  /\ now' = t
  /\ LET row(meta) == IF op[w].kind = "del" THEN [NoRow EXCEPT !.ts = t]
                      ELSE [ts |-> t, size |-> op[w].ver, etag |-> op[w].ver, meta |-> meta]
         is(meta) == Happening(op[w].kind, NextAt(w), op[w].key, row(meta))
     IN  Announce(w, is(op[w].ver), is(0))
  /\ UNCHANGED <<setting, origin, written, attached, stage, barrier>>

\* A write whose answer was lost is published as unknown.
RecordUnknown(w) ==
  /\ op[w].pc = "unknown"
  /\ LET e == Happening("unknown", NextAt(w), op[w].key, NoRow)
     IN  Announce(w, e, e)
  /\ UNCHANGED <<setting, origin, now, written, attached, stage, barrier>>

\* A third writer restarts.  A planned stop seals its life first; a crash
\* loses what it had not published, which its peers learn as a gap.
Restart(w, kind) ==
  LET next == At(head[w].epoch + 1, 0)
      mark == [Happening(kind, next, 0, NoRow) EXCEPT !.from = NextAt(w)]
  IN  /\ w \notin Node /\ head[w].epoch = 1
      /\ kind \in setting.events
      /\ kind = "seal" => op[w].pc = "idle"
      /\ Emit(w, IF kind = "crash" THEN <<mark>>
                 ELSE <<Happening("seal", NextAt(w), 0, NoRow),
                        [mark EXCEPT !.kind = "renewed"]>>)
      /\ head' = [head EXCEPT ![w] = next]
      /\ op' = [op EXCEPT ![w] = Idle]
      /\ UNCHANGED <<setting, origin, now, written, node, caps, attached, stage, barrier>>

\* observe_renewal: the sealed life's successor.
Renewed(n, w, e) ==
  LET cuts == node[n].cuts
  IN  PublishSeeing(n, node[n].b, RenewCut(cuts, w, e.at.epoch), Seeing(n, w, e.at),
              IF ~Renews(cuts, w, e.at.epoch) THEN Silent
              ELSE IF cuts[w] = e.from THEN Native(w, e.at, Noop) ELSE Withdraw)

\* The apply loop takes the next event of w's feed.
Deliver(n, w) ==
  /\ feed[n][w] # <<>>
  /\ feed' = [feed EXCEPT ![n][w] = Tail(@)]
  /\ LET e == Head(feed[n][w])
     IN  \/ e.kind = "renewed" /\ Renewed(n, w, e)
         \/ e.kind = "crash" /\ DiscardForGap(n, w, e.at)
         \/ e.kind \notin {"renewed", "crash"} /\ ~Duplicate(node[n].cuts, w, e.at)
              /\ ApplyNative(n, w, e)
         \/ e.kind \notin {"renewed", "crash"} /\ Duplicate(node[n].cuts, w, e.at)
              /\ UNCHANGED <<node, caps>>
  /\ UNCHANGED <<setting, origin, now, written, op, head, attached, stage, barrier>>

\* The feed overran: its first i events are missed.  A gap in a feed of which
\* nothing was applied here leaves no cut behind; that no donor stands before
\* it then is groupnet's part.
Gap(n, w, i) ==
  /\ "gap" \in setting.events
  /\ i \in DOMAIN feed[n][w] /\ Known(node[n].cuts, w)
  /\ node[n].b.gen < setting.maxGen
  /\ feed' = [feed EXCEPT ![n][w] = SubSeq(@, i + 1, Len(@))]
  /\ DiscardForGap(n, w, feed[n][w][i].at)
  /\ UNCHANGED <<setting, origin, now, written, op, head, attached, stage, barrier>>

-----------------------------------------------------------------------------
(* What a node learns from the origin: an observed answer, the HEAD of a   *)
(* fenced key, a rebuild.  Their flight times are IndexSync's subject.     *)

Observe(n, k) ==
  LET b == node[n].b
      o == origin[k]
      row == OriginRow(o, o.ver)
      filled == CompleteEntry(b, k, o.ver)
  IN  /\ "read" \in setting.events /\ o.ver # 0
      /\ IF Indexed(b, k)
         THEN Publish(n, filled, node[n].cuts,
                      IF filled = b THEN Silent ELSE Local(Put(k, filled.keys[k])))
         ELSE Publish(n, ApplyObservedPut(b, k, row), node[n].cuts,
                      IF PutLoses(b, k, row.ts) \/ k \in b.touched
                      THEN Silent ELSE Local(Put(k, row)))
      /\ UNCHANGED <<setting, origin, now, written, op, head, feed, attached, stage, barrier>>

\* resolve_uncertain_key tells a capture nothing: no key is fenced while one
\* is active.
Resolve(n, k) ==
  LET b == node[n].b
  IN  /\ b.fence[k] # 0
      /\ Publish(n, ResolveUncertainKey(b, k, b.fence[k], OriginRow(origin[k], origin[k].ver), now),
                 node[n].cuts, Silent)
      /\ UNCHANGED <<setting, origin, now, written, op, head, feed, attached, stage, barrier>>

\* A rebuild that starts behind events on their way is IndexSync's subject.
ScanBegin(n) ==
  LET b == node[n].b
  IN  /\ b.gen < setting.maxGen /\ b.rebuild = 0
      /\ Pending(n) = {}
      /\ "scan" \in setting.events \/ (n = Donor /\ ~b.synced)
      /\ Publish(n, BeginBucketResync(b), node[n].cuts, Withdraw)
      /\ UNCHANGED <<setting, origin, now, written, op, head, feed, attached, stage, barrier>>

ScanEnd(n) ==
  LET b == node[n].b
  IN  /\ b.rebuild # 0
      /\ Publish(n, FinishBucketSync(SyncListing(b, b.rebuild, Listing), b.rebuild),
                 node[n].cuts, Withdraw)
      /\ UNCHANGED <<setting, origin, now, written, op, head, feed, attached, stage, barrier>>
-----------------------------------------------------------------------------
(* The donor's captures.                                                   *)

Serving(s) == s \in DOMAIN caps /\ caps[s].phase = "offered" /\ caps[s].active /\ attached = s

Withdrawn(s) == [caps EXCEPT ![s].active = FALSE]

\* Mutant: the capture that was attached before stays active.
BeginBeside(s) == caps

\* Attaching a capture withdraws the one attached before.
BeginOver(s) == IF s = 0 THEN caps ELSE Withdrawn(s)

\* ready_capture, begin_fleet_capture: C, under the recovery guard and the
\* index lock.
Capture ==
  LET donor == node[Donor]
  IN  /\ Len(caps) < setting.captures
      /\ Capturable(donor.b)
      /\ caps' = Append(BeginOver(attached),
                        [phase |-> "pending", active |-> TRUE, image |-> Image(donor.b),
                         cuts |-> donor.cuts, members |-> donor.members, deltas |-> <<>>,
                         trail |-> <<Snapshot(donor.b, donor.cuts)>>])
      /\ attached' = Len(caps) + 1
      /\ UNCHANGED <<setting, origin, now, written, op, head, feed, node, stage, barrier>>

\* Measured and encoded off the lock, from the snapshot taken at C.
Encode(s) ==
  /\ caps[s].phase = "pending"
  /\ NoRowUnderTombstone(caps[s].image)
  /\ caps' = [caps EXCEPT ![s].phase = "encoded"]
  /\ UNCHANGED <<setting, origin, now, written, op, head, feed, node, attached, stage, barrier>>

\* The guarded finish: still attached, still active, the same members.
Finish(s) ==
  /\ caps[s].phase = "encoded"
  /\ attached = s /\ caps[s].active
  /\ caps[s].members = node[Donor].members
  /\ caps' = [caps EXCEPT ![s].phase = "offered"]
  /\ UNCHANGED <<setting, origin, now, written, op, head, feed, node, attached, stage, barrier>>

\* A capture is given up at any point: an error, a deadline, a changed roster,
\* a cancelled task.  Only the capture that is attached is detached.
Drop(s) ==
  /\ caps[s].phase # "dropped"
  /\ "drop" \in setting.events \/ ~caps[s].active
  /\ caps' = [caps EXCEPT ![s].phase = "dropped",
                          ![s].active = IF attached = s THEN FALSE ELSE @]
  /\ attached' = IF attached = s THEN 0 ELSE attached
  /\ UNCHANGED <<setting, origin, now, written, op, head, feed, node, stage, barrier>>

\* retire_fleet_service: the listener ended.
RetireService ==
  /\ "drop" \in setting.events /\ attached # 0
  /\ caps' = Withdrawn(attached)
  /\ attached' = 0
  /\ UNCHANGED <<setting, origin, now, written, op, head, feed, node, stage, barrier>>

-----------------------------------------------------------------------------
(* The follower's stage.                                                   *)

Reserve(s) ==
  /\ stage.phase = "none" /\ Serving(s)
  /\ node[Follower].b.gen < setting.maxGen
  /\ stage' = [NoStage EXCEPT !.phase = "reserved", !.serial = s]
  /\ UNCHANGED <<setting, origin, now, written, op, head, feed, node, caps, attached, barrier>>

\* The donor hands out chunks only while its capture serves.
StoreChunks ==
  /\ stage.phase = "reserved" /\ Serving(stage.serial)
  /\ stage' = [stage EXCEPT !.phase = "stored"]
  /\ UNCHANGED <<setting, origin, now, written, op, head, feed, node, caps, attached, barrier>>

Verify ==
  /\ stage.phase = "stored"
  /\ stage' = [stage EXCEPT !.phase = "ready", !.b = Decoded(caps[stage.serial].image)]
  /\ UNCHANGED <<setting, origin, now, written, op, head, feed, node, caps, attached, barrier>>

\* One delta of a batch; the stage has room for it.
StageDelta ==
  LET delta == caps[stage.serial].deltas[stage.pos + 1]
  IN  /\ stage.phase = "ready" /\ Serving(stage.serial)
      /\ stage.pos < Len(caps[stage.serial].deltas)
      /\ MayGrow(stage.b, delta) => RowCount(stage.b) < MaxRows
      /\ stage' = [stage EXCEPT !.b = Replay(@, delta), !.pos = @ + 1]
      /\ UNCHANGED <<setting, origin, now, written, op, head, feed, node, caps, attached, barrier>>

\* The donor answers with its journal's end and the cuts there.
Barrier ==
  /\ stage.phase = "ready" /\ Serving(stage.serial)
  /\ barrier' = [serial |-> stage.serial, pos |-> Len(caps[stage.serial].deltas),
                 cuts |-> caps[stage.serial].cuts, members |-> node[Donor].members]
  /\ UNCHANGED <<setting, origin, now, written, op, head, feed, node, caps, attached, stage>>

\* Mutant: the cuts checked before the install are not checked again.
MayInstallUnaligned ==
  /\ barrier.serial = stage.serial /\ barrier.pos = stage.pos
  /\ node[Follower].members = barrier.members
  /\ Compatible(node[Follower].b, stage.b)

\* The stage stands exactly at the barrier and so do the live feeds; donor and
\* follower see the same members; the live rows are covered or can be carried.
MayInstall ==
  /\ barrier.serial = stage.serial /\ barrier.pos = stage.pos
  /\ node[Follower].members = barrier.members
  /\ Aligned(node[Follower].cuts, barrier.cuts)
  /\ Compatible(node[Follower].b, stage.b)

\* The swap, checked under the write lock.  The live cuts stay.
Install ==
  /\ stage.phase = "ready"
  /\ MayInstall
  /\ node' = [node EXCEPT ![Follower].b = Installed(@, stage.b)]
  /\ stage' = NoStage
  /\ barrier' = NoBarrier
  /\ UNCHANGED <<setting, origin, now, written, op, head, feed, caps, attached>>

DiscardStage ==
  /\ stage.phase # "none"
  /\ "drop" \in setting.events \/ ~caps[stage.serial].active
  /\ stage' = NoStage
  /\ barrier' = NoBarrier
  /\ UNCHANGED <<setting, origin, now, written, op, head, feed, node, caps, attached>>

-----------------------------------------------------------------------------
\* A clock is read: time has passed, a little or more than the TTL.
Ticks == {now + 1, now + TTL + 1}

WriterStep(w) ==
  \/ \E k \in Key, kind \in {"put", "del"}, outcome \in {"landed", "lost", "refused"} :
       Write(w, k, kind, outcome)
  \/ \E t \in Ticks : Record(w, t)
  \/ RecordUnknown(w)
  \/ \E kind \in {"seal", "crash"} : Restart(w, kind)

NodeStep(n) ==
  \/ \E w \in Writer : Deliver(n, w) \/ \E i \in DOMAIN feed[n][w] : Gap(n, w, i)
  \/ \E k \in Key : Observe(n, k) \/ Resolve(n, k)
  \/ ScanBegin(n) \/ ScanEnd(n)

CaptureStep ==
  \/ Capture \/ RetireService
  \/ \E s \in DOMAIN caps : Encode(s) \/ Finish(s) \/ Drop(s)

StageStep ==
  \/ \E s \in DOMAIN caps : Reserve(s)
  \/ StoreChunks \/ Verify \/ StageDelta \/ Barrier \/ Install \/ DiscardStage

Next ==
  \/ \E w \in Writer : WriterStep(w)
  \/ \E n \in Node : NodeStep(n)
  \/ CaptureStep
  \/ StageStep

Spec == Init /\ [][Next]_vars

-----------------------------------------------------------------------------
Happened == [kind : {"put", "del", "unknown", "seal", "renewed", "crash"}, at : Cut,
             key : Key \cup {0}, row : Row, from : Cut]
Rows == [keys : [Key -> Row], gone : [Key -> Nat]]
CaptureType ==
  [phase : {"pending", "encoded", "offered", "dropped"}, active : BOOLEAN, image : Rows,
   cuts : Cuts, members : [Writer -> Nat], deltas : Seq(Delta), trail : Seq([image : Rows, cuts : Cuts])]

\* Every variable has its type, and a journal never outgrows its bound.
TypeOK ==
  /\ setting \in Setting
  /\ origin \in [Key -> [ver : Nat, mtime : Nat]]
  /\ now \in Nat /\ written \in Nat
  /\ op \in [Writer -> [pc : {"idle", "landed", "unknown"}, key : Key \cup {0},
                        kind : {"put", "del"}, ver : Nat]]
  /\ head \in Cuts
  /\ feed \in [Node -> [Writer -> Seq(Happened)]]
  /\ node \in [Node -> [b : Bucket, cuts : Cuts, members : [Writer -> Nat]]]
  /\ caps \in Seq(CaptureType)
  /\ \A s \in DOMAIN caps : Len(caps[s].deltas) <= MaxEvents
  /\ attached \in 0..Len(caps)
  /\ stage \in [phase : {"none", "reserved", "stored", "ready"}, serial : 0..Len(caps),
                b : Bucket, pos : Nat]
  /\ barrier \in [serial : Nat, pos : Nat, cuts : Cuts, members : [Writer -> Nat]]

\* While a capture is active, the last entry of its journal stands for the
\* donor's index as it is now: the rows a follower would receive and the
\* position reached in every feed.  No write, delete, sweep, observation,
\* fence, rebuild or renewal reaches the rows past the journal.
JournalIsCurrent ==
  \A s \in DOMAIN caps : caps[s].active =>
    /\ attached = s
    /\ caps[s].cuts = node[Donor].cuts
    /\ caps[s].trail[Len(caps[s].trail)] = Snapshot(node[Donor].b, node[Donor].cuts)

\* At every position the follower's stage holds exactly the rows the donor's
\* index held when its journal was there, and a barrier the cuts it had.
StageIsDonors ==
  /\ stage.phase = "ready" =>
       Image(stage.b) = caps[stage.serial].trail[stage.pos + 1].image
  /\ barrier.serial # 0 =>
       barrier.cuts = caps[barrier.serial].trail[barrier.pos + 1].cuts

\* Nothing about k is on its way to node n, which serves it.
Settled(n, k) ==
  /\ node[n].b.synced
  /\ node[n].b.fence[k] = 0
  /\ \A w \in Writer : op[w].pc # "idle" => op[w].key # k
  /\ \A e \in Pending(n) : e.key # k /\ e.kind # "crash"

\* Presence, ETag and size of a settled key are the origin's, on the donor and
\* on a follower that took its index over: no write is lost between the image,
\* the journal and the feeds, and no deleted key comes back.
BothAccurate ==
  \A n \in Node, k \in Key : Settled(n, k) =>
    LET r == node[n].b.keys[k]
        v == origin[k].ver
    IN  IF v = 0 THEN r = NoRow
        ELSE r.ts # 0 /\ Etag(r.etag) = Etag(v) /\ Size(r.size) = Size(v)

\* An install takes back nothing the live index knew: a row stays, as the same
\* version, unless the image proves a later one or a later delete; a delete
\* stays unless a later row replaced it; open fences keep their tokens.
KeepsLiveEffects(live, b) ==
  /\ b.fence = live.fence /\ b.epoch = live.epoch /\ b.gen > live.gen
  /\ \A k \in Key :
       /\ live.keys[k].ts # 0 =>
            \/ b.keys[k].ts # 0 /\ SameObject(live.keys[k], b.keys[k])
            \/ WholeSeconds(b.keys[k].ts) > WholeSeconds(live.keys[k].ts)
            \/ b.gone[k] > live.keys[k].ts
       /\ live.gone[k] # 0 => b.gone[k] >= live.gone[k] \/ b.keys[k].ts > live.gone[k]

InstallLosesNothing ==
  [][stage.phase = "ready" /\ stage'.phase = "none" /\ node' # node
       => KeepsLiveEffects(node[Follower].b, node'[Follower].b)]_vars

=============================================================================
