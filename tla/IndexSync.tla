------------------------------ MODULE IndexSync -----------------------------
(***************************************************************************)
(* One node's LIST index kept in step with the origin while everything     *)
(* that touches it runs concurrently: mutation tails of this node, peers'  *)
(* feed events, paged rebuild scans, per-key HEAD reconciliations, GET and *)
(* HEAD observations, feed gaps and bucket removal.  Every index step is   *)
(* one critical section of the index lock (module KeyIndex); the steps in  *)
(* between are the awaits of cache/mutation.rs, cache/proxy.rs,            *)
(* index/scan.rs and sync/coherence.rs.                                    *)
(***************************************************************************)
EXTENDS KeyIndex, Sequences, FiniteSets

CONSTANTS
  Writer,          \* mutation paths: tails of this node and of its peers
  Local,           \* the writers that run on this node
  Scanner,         \* rebuild scans that may overlap
  Reader,          \* origin GET/HEAD answers in flight
  PageSize,        \* keys per origin LIST page
  Second,          \* ticks per second: origin times are whole seconds
  Oversize,        \* versions whose body exceeds the per-object cache cap
  Settings         \* the settings of a behaviour; see Setting

\* "gap": a peer's feed overruns.  "range": ranged GETs promote whole objects.
\* "remove": the client deletes the empty bucket.  "late_head": a HEAD that
\* found a key absent is applied while a newer write of it is on its way here.
\* "gap_answer": an origin answer given before a gap is applied after it.
\* "preempt": a task of this node is preempted between two steps that have no
\* request between them (observe's two lock sections; fencing a key and
\* invalidating its fills).
Rare == {"gap", "range", "remove", "late_head", "gap_answer", "preempt"}

\* Who takes part in a behaviour, which rarer events happen in it, when a
\* second write of a key may start (see MayBegin), where a rebuild's discovery
\* may find a boundary to split at, and the bounds on its writes, clock,
\* rebuilds and fences.
Setting ==
  [keys : SUBSET Key, scanners : SUBSET Scanner, readers : SUBSET Reader,
   rare : SUBSET Rare, overlap : {"acked", "stamped", "free"}, splits : SUBSET Key,
   maxVer : Nat, maxTime : Nat, maxGen : Nat, maxEpoch : Nat]

ASSUME IndexSyncAssumption ==
  /\ Key \subseteq Nat \ {0}    \* key order is number order
  /\ Local \subseteq Writer
  /\ PageSize \in Nat \ {0} /\ Second \in Nat \ {0}
  /\ Settings \subseteq Setting

VARIABLES
  setting,  \* the setting of this behaviour
  origin,   \* what the origin holds: per key the version and its mtime
  now,      \* the wall clock of writers and origin, in ticks
  written,  \* writes begun so far; the next write's version is written + 1
  bucket,   \* this node's index of the bucket
  op,       \* the mutation each writer runs
  feed,     \* each peer's feed events not yet applied here
  heads,    \* reconciliation tasks
  scan,     \* rebuild scans
  reader    \* origin answers in flight, each under its fill fence

vars == <<setting, origin, now, written, bucket, op, feed, heads, scan, reader>>

Peer == Writer \ Local

Absent == [ver |-> 0, mtime |-> 0]
Idle == [pc |-> "idle", key |-> 0, kind |-> "put", ver |-> 0, ts |-> 0]

\* A rebuild lists disjoint ranges side by side, each named by its exclusive
\* lower bound (scan.rs, KeyRange).
Lower == Key \cup {0}
NoRange == [pc |-> "off", cursor |-> 0, page |-> NoPage, last |-> FALSE]
NoScan == [gen |-> 0, range |-> [lo \in Lower |-> NoRange]]

NoRead == [pc |-> "idle", key |-> 0, stale |-> FALSE, range |-> FALSE,
           ver |-> 0, mtime |-> 0, at |-> 0]

\* origin_time: every origin timestamp enters the index in whole seconds.
OriginTime(t) == (t \div Second) * Second

\* A row as LIST describes it: never any metadata.
ListRow(o) ==
  IF o.ver = 0 THEN NoRow
  ELSE [ts |-> OriginTime(o.mtime), size |-> o.ver, etag |-> o.ver, meta |-> 0]

\* The bucket right after an undisturbed rebuild.
Rebuilt(objects) ==
  [NoBucket EXCEPT !.exists = TRUE, !.synced = TRUE, !.gen = 1,
                   !.keys = [k \in Key |-> ListRow(objects[k])]]

Init ==
  /\ setting \in Settings
  /\ now = Second
  /\ origin \in [Key -> {Absent, [ver |-> 1, mtime |-> Second]}]
  /\ \A k \in Key \ setting.keys : origin[k] = Absent
  /\ written = 1
  /\ bucket \in {NoBucket, Rebuilt(origin)}
  /\ op = [w \in Writer |-> Idle]
  /\ feed = [w \in Peer |-> <<>>]
  /\ heads = {}
  /\ scan = [s \in Scanner |-> NoScan]
  /\ reader = [r \in Reader |-> NoRead]

-----------------------------------------------------------------------------
(* The fill fence (tier.rs): a mutation marks every answer about its key   *)
(* that is in flight stale, after waiting out one that is being folded in. *)

Folding(k) == \E r \in Reader : reader[r].pc = "observe" /\ reader[r].key = k

\* Mutant: answers in flight are not marked.
MarkNothing(k) == reader

MarkStale(k) ==
  [r \in Reader |-> IF reader[r].pc # "idle" /\ reader[r].key = k
                    THEN [reader[r] EXCEPT !.stale = TRUE] ELSE reader[r]]

FenceFills(k) == ~Folding(k) /\ reader' = MarkStale(k)

-----------------------------------------------------------------------------
(* Mutations.  "put" stands for PutObject, CopyObject and multipart        *)
(* completion, "del" for DeleteObject and each key of a batch.             *)

EventsOn(k) ==
  {e \in UNION {{feed[p][i] : i \in DOMAIN feed[p]} : p \in Peer} : e.key = k}

\* "acked": clients wait for the acknowledgement, so a write starts when the
\* previous one is applied here.  "stamped": a write may start while an
\* earlier, already stamped one is still on its way (its client saw a 503).
\* "free": writes of one key overlap.
MayBegin(k) ==
  CASE setting.overlap = "acked" -> /\ \A w \in Writer : op[w].pc # "idle" => op[w].key # k
                            /\ EventsOn(k) = {}
    [] setting.overlap = "stamped" -> \A w \in Writer : op[w].key = k =>
                                op[w].pc \in {"idle", "stamped", "announced"}
    [] OTHER -> TRUE

\* A put or copy on this node drops its cached body before it is forwarded.
Begin(w, k, kind) ==
  /\ op[w].pc = "idle" /\ k \in setting.keys
  /\ written < setting.maxVer
  /\ MayBegin(k)
  /\ written' = written + 1
  /\ op' = [op EXCEPT ![w] = [pc |-> "sent", key |-> k, kind |-> kind,
                              ver |-> written + 1, ts |-> 0]]
  /\ IF w \in Local /\ kind = "put" THEN FenceFills(k) ELSE UNCHANGED reader
  /\ UNCHANGED <<setting, origin, now, bucket, feed, heads, scan>>

\* The origin applies the mutation.
Land(w) ==
  /\ op[w].pc = "sent"
  /\ origin' = [origin EXCEPT ![op[w].key] =
                  IF op[w].kind = "put"
                  THEN [ver |-> op[w].ver, mtime |-> now] ELSE Absent]
  /\ op' = [op EXCEPT ![w].pc = "landed"]
  /\ UNCHANGED <<setting, now, written, bucket, feed, heads, scan, reader>>

\* The origin refuses it conclusively: nothing to index.
Refuse(w) ==
  /\ op[w].pc = "sent"
  /\ op' = [op EXCEPT ![w] = Idle]
  /\ UNCHANGED <<setting, origin, now, written, bucket, feed, heads, scan, reader>>

\* The answer is lost or ambiguous (5xx, timeout, a dead tail), whether or
\* not the origin applied the mutation.
Lose(w) ==
  /\ op[w].pc \in {"sent", "landed"}
  /\ op' = [op EXCEPT ![w].pc = "unknown"]
  /\ UNCHANGED <<setting, origin, now, written, bucket, feed, heads, scan, reader>>

\* After the origin's answer the writer fences in-flight fills again.
Invalidate(w) ==
  /\ w \in Local
  /\ op[w].pc = "landed"
  /\ FenceFills(op[w].key)
  /\ op' = [op EXCEPT ![w].pc = "cleared"]
  /\ UNCHANGED <<setting, origin, now, written, bucket, feed, heads, scan>>

\* Tombstone expiry assumes what the TTL is chosen for: by time t nothing
\* older than TTL is still on its way.
Timely(t) ==
  /\ \A p \in Peer : \A i \in DOMAIN feed[p] : t <= feed[p][i].row.ts + TTL
  /\ \A w \in Writer : op[w].pc = "stamped" => t <= op[w].ts + TTL
  /\ \A r \in Reader : reader[r].at # 0 => t <= reader[r].at + TTL

\* A clock is read: time has passed, a little or more than the TTL.
Ticks == {now + 1, now + TTL + 1}

ClockRead(t) ==
  /\ t <= setting.maxTime
  /\ Timely(t)

\* record_put / record_del read the writer's clock; distinct writes of one
\* key read distinct microseconds.
Stamp(w, t) ==
  /\ op[w].pc = IF w \in Local THEN "cleared" ELSE "landed"
  /\ ClockRead(t)
  /\ now' = t
  /\ op' = [op EXCEPT ![w].pc = "stamped", ![w].ts = t]
  /\ UNCHANGED <<setting, origin, written, bucket, feed, heads, scan, reader>>

\* Mutant: an unknown size is indexed as -1.
WriteRowNegative(w, size, meta) ==
  [ts |-> op[w].ts, size |-> IF size = 0 THEN 0 - 1 ELSE size,
   etag |-> op[w].ver, meta |-> meta]

\* What a finished write tells the index.  A write always knows the ETag;
\* the size may have stayed unknown, the metadata never travels on the feed.
WriteRow(w, size, meta) ==
  [ts |-> op[w].ts, size |-> size, etag |-> op[w].ver, meta |-> meta]

RowShapes(w) ==
  LET v == op[w].ver
  IN  IF op[w].kind = "del" THEN {[NoRow EXCEPT !.ts = op[w].ts]}
      ELSE {WriteRow(w, size, meta) : size \in {0, v},
                                      meta \in IF w \in Local THEN {0, v} ELSE {0}}

Event(w, row) == [kind |-> op[w].kind, key |-> op[w].key, row |-> row]
UnknownEvent(w) == [kind |-> "unknown", key |-> op[w].key,
                    row |-> [NoRow EXCEPT !.ts = now]]

\* Apply one definitive event to the index.
ApplyEvent(e) ==
  \/ /\ e.kind = "put"
     /\ bucket' = ApplyPut(bucket, e.key, e.row)
  \/ /\ e.kind = "del"
     /\ \E swept \in SUBSET Expired(bucket, e.row.ts) :
          bucket' = ApplyDel(bucket, e.key, e.row.ts, swept)

\* The writer's own index entry, assigned its feed position under the lock.
Record(w) ==
  /\ w \in Local
  /\ op[w].pc = "stamped"
  /\ \E row \in RowShapes(w) : ApplyEvent(Event(w, row))
  /\ op' = [op EXCEPT ![w] = Idle]
  /\ UNCHANGED <<setting, origin, now, written, feed, heads, scan, reader>>

\* A peer's write reaches its feed.
Publish(w) ==
  /\ w \in Peer
  /\ op[w].pc = "stamped"
  /\ \E row \in RowShapes(w) : feed' = [feed EXCEPT ![w] = Append(@, Event(w, row))]
  /\ op' = [op EXCEPT ![w] = Idle]
  /\ UNCHANGED <<setting, origin, now, written, bucket, heads, scan, reader>>

\* Fence the key under a fresh token and start its reconciliation.
FenceAndReconcile(k) ==
  /\ bucket.epoch < setting.maxEpoch
  /\ bucket' = FenceKey(bucket, k)
  /\ heads' = heads \cup {[key |-> k, token |-> bucket.epoch + 1,
                           answered |-> FALSE, row |-> NoRow]}

\* announce_unknown: index_unknown and spawn_key_reconcile, then the fills of
\* the key are invalidated.
Announce(w) ==
  /\ w \in Local
  /\ op[w].pc = "unknown"
  /\ FenceAndReconcile(op[w].key)
  /\ IF "preempt" \in setting.rare
     THEN op' = [op EXCEPT ![w].pc = "announced"] /\ UNCHANGED reader
     ELSE op' = [op EXCEPT ![w] = Idle] /\ FenceFills(op[w].key)
  /\ UNCHANGED <<setting, origin, now, written, feed, scan>>

DropAnnounced(w) ==
  /\ op[w].pc = "announced"
  /\ FenceFills(op[w].key)
  /\ op' = [op EXCEPT ![w] = Idle]
  /\ UNCHANGED <<setting, origin, now, written, bucket, feed, heads, scan>>

\* A peer's uncertain write reaches its feed.
PublishUnknown(w) ==
  /\ w \in Peer
  /\ op[w].pc = "unknown"
  /\ feed' = [feed EXCEPT ![w] = Append(@, UnknownEvent(w))]
  /\ op' = [op EXCEPT ![w] = Idle]
  /\ UNCHANGED <<setting, origin, now, written, bucket, heads, scan, reader>>

\* The apply loop takes a peer's next event: fence fills, then the index.
Deliver(p) ==
  /\ feed[p] # <<>>
  /\ LET e == Head(feed[p])
     IN  /\ FenceFills(e.key)
         /\ \/ /\ e.kind = "unknown"
               /\ FenceAndReconcile(e.key)
            \/ /\ ApplyEvent(e)
               /\ UNCHANGED heads
  /\ feed' = [feed EXCEPT ![p] = Tail(@)]
  /\ UNCHANGED <<setting, origin, now, written, op, scan>>

\* An origin answer waits to be applied to the index.
AnswerHeld ==
  \/ \E h \in heads : h.answered
  \/ \E r \in Reader : reader[r].at # 0

\* The feed overran or the peer restarted: what it held is lost and every
\* bucket is discarded.
Gap(p) ==
  /\ "gap" \in setting.rare
  /\ "gap_answer" \in setting.rare \/ ~AnswerHeld
  /\ bucket.gen + 1 < setting.maxGen
  /\ feed' = [feed EXCEPT ![p] = <<>>]
  /\ bucket' = DiscardBuckets(bucket)
  /\ UNCHANGED <<setting, origin, now, written, op, heads, scan, reader>>

-----------------------------------------------------------------------------
(* Reconciliation of a fenced key.                                         *)

HeadRow(o) ==
  IF o.ver = 0 THEN NoRow
  ELSE [ts |-> OriginTime(o.mtime), size |-> o.ver, etag |-> o.ver, meta |-> o.ver]

\* The task re-checks its token, then asks the origin; a failed HEAD is
\* retried and changes nothing.
HeadAnswer(h) ==
  /\ ~h.answered
  /\ heads' = (heads \ {h}) \cup
       IF bucket.exists /\ bucket.fence[h.key] = h.token
       THEN {[h EXCEPT !.answered = TRUE, !.row = HeadRow(origin[h.key])]}
       ELSE {}
  /\ UNCHANGED <<setting, origin, now, written, bucket, op, feed, scan, reader>>

\* A put of k that is stamped and not yet applied to this index.
PutOnTheWay(k) ==
  \/ \E w \in Writer : op[w].pc = "stamped" /\ op[w].key = k /\ op[w].kind = "put"
  \/ \E e \in EventsOn(k) : e.kind = "put"

HeadResolve(h) ==
  /\ h.answered
  /\ "late_head" \in setting.rare \/ h.row # NoRow \/ ~PutOnTheWay(h.key)
  /\ bucket' = ResolveUncertainKey(bucket, h.key, h.token, h.row, now)
  /\ heads' = heads \ {h}
  /\ UNCHANGED <<setting, origin, now, written, op, feed, scan, reader>>

-----------------------------------------------------------------------------
(* Rebuild scans.  Discovery only chooses where to split: any of the       *)
(* boundaries it may find, or none when it fails or has no budget.         *)

\* ranges: adjacent, from each boundary to the next, the last one open.
Split(boundaries) ==
  [lo \in Lower |-> IF lo \in boundaries \cup {0}
                    THEN [NoRange EXCEPT !.pc = "fetch", !.cursor = lo] ELSE NoRange]

ScanBegin(s, boundaries) ==
  /\ scan[s].gen = 0 /\ s \in setting.scanners
  /\ bucket.gen < setting.maxGen
  /\ bucket' = BeginBucketResync(bucket)
  /\ scan' = [scan EXCEPT ![s] = [gen |-> bucket.gen + 1, range |-> Split(boundaries)]]
  /\ UNCHANGED <<setting, origin, now, written, op, feed, heads, reader>>

Listed(cursor) == {k \in Key : k > cursor /\ origin[k].ver # 0}

PageAfter(cursor) ==
  {k \in Listed(cursor) :
     Cardinality({j \in Listed(cursor) : j < k}) < PageSize}

\* Mutant: a range ends just before its upper bound.
WithinOpen(s, lo) ==
  {k \in Key : \A hi \in Lower : hi > lo /\ scan[s].range[hi].pc # "off" => k < hi}

\* The keys up to the range's inclusive upper bound, which is the next range's
\* lower bound.
Within(s, lo) ==
  {k \in Key : \A hi \in Lower : hi > lo /\ scan[s].range[hi].pc # "off" => k <= hi}

\* The origin answers one LIST page of a range: a page that reaches past the
\* upper bound is cut there and is the range's last, as is an untruncated one.
ScanFetch(s, lo) ==
  /\ scan[s].range[lo].pc = "fetch"
  /\ LET all  == PageAfter(scan[s].range[lo].cursor)
         mine == all \cap Within(s, lo)
     IN  scan' = [scan EXCEPT ![s].range[lo] =
           [@ EXCEPT !.pc = "publish",
                     !.page = [k \in Key |-> IF k \in mine THEN ListRow(origin[k]) ELSE NoRow],
                     !.last = all = Listed(scan[s].range[lo].cursor) \/ mine # all]]
  /\ UNCHANGED <<setting, origin, now, written, bucket, op, feed, heads, reader>>

\* The last key of a page, as a set.
Highest(ks) == {k \in ks : \A j \in ks : j <= k}

\* The page is folded in under the generation check; a superseded scan stops,
\* with all its ranges.
ScanPublish(s, lo) ==
  /\ scan[s].range[lo].pc = "publish"
  /\ bucket' = SyncListing(bucket, scan[s].gen, scan[s].range[lo].page)
  /\ \E next \in IF scan[s].range[lo].last THEN {0} ELSE Highest(Keys(scan[s].range[lo].page)) :
       scan' = IF ~OwnsRebuild(bucket, scan[s].gen) THEN [scan EXCEPT ![s] = NoScan]
               ELSE [scan EXCEPT ![s].range[lo] =
                       [NoRange EXCEPT !.pc = IF scan[s].range[lo].last THEN "done" ELSE "fetch",
                                       !.cursor = next]]
  /\ UNCHANGED <<setting, origin, now, written, op, feed, heads, reader>>

\* Mutant: the scan is over as soon as one range is.
SomeRangeDone(s) == \E lo \in Lower : scan[s].range[lo].pc = "done"

\* "Every range must succeed before the bucket can answer" (scan.rs).
RangesDone(s) == \A lo \in Lower : scan[s].range[lo].pc \in {"off", "done"}

ScanFinish(s) ==
  /\ scan[s].gen # 0 /\ RangesDone(s)
  /\ bucket' = FinishBucketSync(bucket, scan[s].gen)
  /\ scan' = [scan EXCEPT ![s] = NoScan]
  /\ UNCHANGED <<setting, origin, now, written, op, feed, heads, reader>>

\* An origin error in one range ends the scan and drops the other ranges'
\* requests, leaving its partial rows behind; the bound leaves room for the
\* retry.
ScanFail(s, lo) ==
  /\ scan[s].range[lo].pc = "fetch"
  /\ bucket.gen < setting.maxGen
  /\ scan' = [scan EXCEPT ![s] = NoScan]
  /\ UNCHANGED <<setting, origin, now, written, bucket, op, feed, heads, reader>>

-----------------------------------------------------------------------------
(* Observations.                                                           *)

\* A HEAD or a fill registers its fence before the request leaves.  A ranged
\* GET is promoted when the index says the object fits.
ReadBegin(r, k, range) ==
  /\ reader[r].pc = "idle" /\ r \in setting.readers /\ k \in setting.keys
  /\ range => /\ "range" \in setting.rare
              /\ bucket.fence[k] = 0
              /\ bucket.keys[k].size \notin Oversize \cup {0}
  /\ reader' = [reader EXCEPT ![r] = [NoRead EXCEPT !.pc = "asked", !.key = k,
                                                    !.range = range]]
  /\ UNCHANGED <<setting, origin, now, written, bucket, op, feed, heads, scan>>

\* The origin answers; a 404 folds nothing, an oversize body is refused.
ReadAnswer(r) ==
  /\ reader[r].pc = "asked"
  /\ LET o == origin[reader[r].key]
     IN  reader' = [reader EXCEPT ![r] =
           IF o.ver = 0 THEN NoRead
           ELSE [@ EXCEPT !.pc = IF reader[r].range /\ o.ver \in Oversize
                                 THEN "oversize" ELSE "answered",
                          !.ver = o.ver, !.mtime = o.mtime, !.at = now]]
  /\ UNCHANGED <<setting, origin, now, written, bucket, op, feed, heads, scan>>

\* observe, second critical section: index a key that was not there.
ObserveAbsent(r) ==
  LET v == reader[r].ver
  IN  ApplyObservedPut(bucket, reader[r].key,
        [ts |-> OriginTime(reader[r].mtime), size |-> v, etag |-> v, meta |-> v])

\* observe, first critical section: complete the row the index holds.  The
\* second one follows at once unless something may come between.
ReadFold(r) ==
  /\ reader[r].pc = "answered"
  /\ LET k == reader[r].key
         absent == ~Indexed(bucket, k)
         split == absent /\ "preempt" \in setting.rare
     IN  /\ bucket' = IF reader[r].stale \/ split THEN bucket
                      ELSE IF absent THEN ObserveAbsent(r)
                      ELSE CompleteEntry(bucket, k, reader[r].ver)
         /\ reader' = [reader EXCEPT ![r] =
              IF ~reader[r].stale /\ split THEN [@ EXCEPT !.pc = "observe"] ELSE NoRead]
  /\ UNCHANGED <<setting, origin, now, written, op, feed, heads, scan>>

ReadObserve(r) ==
  /\ reader[r].pc = "observe"
  /\ bucket' = ObserveAbsent(r)
  /\ reader' = [reader EXCEPT ![r] = NoRead]
  /\ UNCHANGED <<setting, origin, now, written, op, feed, heads, scan>>

\* index_size_only: a refused promotion writes the size it was told, stamped
\* with this node's clock, outside the fill fence.
RangeReject(r, t) ==
  /\ reader[r].pc = "oversize"
  /\ ClockRead(t)
  /\ now' = t
  /\ bucket' = ApplyObservedPut(bucket, reader[r].key,
                 [NoRow EXCEPT !.ts = t, !.size = reader[r].ver])
  /\ reader' = [reader EXCEPT ![r] = NoRead]
  /\ UNCHANGED <<setting, origin, written, op, feed, heads, scan>>

\* DeleteBucket on an empty bucket, then remove_bucket; it can be created
\* again and written to.
DeleteBucket ==
  /\ "remove" \in setting.rare
  /\ \A k \in Key : origin[k].ver = 0
  /\ bucket.exists
  /\ bucket' = RemoveBucket(bucket)
  /\ UNCHANGED <<setting, origin, now, written, op, feed, heads, scan, reader>>

-----------------------------------------------------------------------------
WriterStep(w) ==
  \/ Land(w) \/ Refuse(w) \/ Lose(w) \/ Invalidate(w)
  \/ \E t \in Ticks : Stamp(w, t)
  \/ Record(w) \/ Publish(w) \/ Announce(w) \/ DropAnnounced(w) \/ PublishUnknown(w)

Rebuild(s) == \E boundaries \in SUBSET setting.splits : ScanBegin(s, boundaries)

ScanStep(s) == (\E lo \in Lower : ScanFetch(s, lo) \/ ScanPublish(s, lo)) \/ ScanFinish(s)

ReadStep(r) ==
  \/ ReadAnswer(r) \/ ReadFold(r) \/ ReadObserve(r)
  \/ \E t \in Ticks : RangeReject(r, t)

HeadStep == \E h \in heads : HeadAnswer(h) \/ HeadResolve(h)

Next ==
  \/ \E w \in Writer :
       WriterStep(w) \/ \E k \in Key, kind \in {"put", "del"} : Begin(w, k, kind)
  \/ \E p \in Peer : Deliver(p) \/ Gap(p)
  \/ HeadStep
  \/ \E s \in Scanner : Rebuild(s) \/ ScanStep(s) \/ \E lo \in Lower : ScanFail(s, lo)
  \/ \E r \in Reader : ReadStep(r) \/ \E k \in Key, range \in BOOLEAN : ReadBegin(r, k, range)
  \/ DeleteBucket

Spec == Init /\ [][Next]_vars

(* Fairness: tokio runs every spawned task, an origin request is answered  *)
(* or fails, and the two retry loops (spawn_key_reconcile, the background  *)
(* sync) go round until they succeed.  Clients need not start anything.    *)
Rescan == ~bucket.synced /\ \E s \in Scanner : Rebuild(s)

Fairness ==
  /\ \A w \in Writer : WF_vars(WriterStep(w))
  /\ \A p \in Peer : WF_vars(Deliver(p))
  /\ WF_vars(HeadStep)
  /\ WF_vars(Rescan)
  /\ \A s \in Scanner : WF_vars(ScanStep(s))
  /\ \A r \in Reader : WF_vars(ReadStep(r))

FairSpec == Spec /\ Fairness

-----------------------------------------------------------------------------
OriginObject == [ver : Nat, mtime : Nat]
Operation == [pc : {"idle", "sent", "landed", "cleared", "stamped", "unknown", "announced"},
              key : Key \cup {0}, kind : {"put", "del"}, ver : Nat, ts : Nat]
FeedEvent == [kind : {"put", "del", "unknown"}, key : Key, row : Row]
Reconcile == [key : Key, token : Nat, answered : BOOLEAN, row : Row]
KeyRange == [pc : {"off", "fetch", "publish", "done"}, cursor : Key \cup {0},
             page : [Key -> Row], last : BOOLEAN]
Scan == [gen : Nat, range : [Lower -> KeyRange]]
Read == [pc : {"idle", "asked", "answered", "oversize", "observe"},
         key : Key \cup {0}, stale : BOOLEAN, range : BOOLEAN,
         ver : Nat, mtime : Nat, at : Nat]

\* Every variable has its type; in particular rows carry known versions,
\* positive times and no negative "unknown size".
TypeOK ==
  /\ setting \in Setting
  /\ origin \in [Key -> OriginObject]
  /\ now \in Nat /\ written \in Nat
  /\ bucket \in Bucket
  /\ op \in [Writer -> Operation]
  /\ feed \in [Peer -> Seq(FeedEvent)]
  /\ \A h \in heads : h \in Reconcile
  /\ scan \in [Scanner -> Scan]
  /\ reader \in [Reader -> Read]

\* No live row is at or below its own tombstone (apply_put, the LIST fold and
\* the HEAD resolution all respect or drop it), whatever the order of events.
RowsOutliveTombstones == NoRowUnderTombstone(bucket)

\* Every fence in the index has exactly one owner, its token's HEAD task, so
\* no fence is orphaned and none can be resolved by another key's task.
FencesHaveOwners ==
  /\ FencesOwned(bucket)
  /\ \A k \in Key : bucket.fence[k] # 0 =>
       \E h \in heads : h.key = k /\ h.token = bucket.fence[k]

\* Nothing about k is on its way: the index lets reads of k be served.
Settled(k) ==
  /\ bucket.synced
  /\ bucket.fence[k] = 0
  /\ \A w \in Writer : op[w].pc # "idle" => op[w].key # k
  /\ EventsOn(k) = {}

\* What the index would answer about k is what the origin holds.
Accurate(k) ==
  LET r == bucket.keys[k]
      v == origin[k].ver
  IN  IF v = 0 THEN r = NoRow
      ELSE /\ r.ts # 0
           /\ r.etag # 0 => Etag(r.etag) = Etag(v)
           /\ r.size # 0 => Size(r.size) = Size(v)
           /\ r.meta # 0 => r.meta = v

\* A synced bucket's row of a settled key agrees with the origin on presence,
\* ETag, size and metadata, through every interleaving of writes, feed
\* events, scans, reconciliations and observations.
SettledIsAccurate == \A k \in Key : Settled(k) => Accurate(k)

\* A row reads may be served from (the bucket is synced, the key not fenced)
\* never goes back to an older version: a late event, page, answer or
\* reconciliation cannot undo what the index already told a client.
NeverOlder ==
  \A k \in Key :
    LET r == bucket.keys[k]
        n == bucket'.keys[k]
    IN  (bucket.synced /\ bucket.fence[k] = 0 /\ bucket'.synced /\ r.etag # 0 /\ n.etag # 0)
          => n.etag >= r.etag \/ Etag(n.etag) = Etag(r.etag)
RowsMoveForward == [][NeverOlder]_vars

\* A fenced key is eventually reconciled.
FencesResolve ==
  \A k \in Key : []<>(bucket.fence[k] = 0)

\* None of the schedules is possible that leave a wrong row behind.
Orderly == setting.rare \subseteq {"gap"} /\ setting.overlap = "acked"

\* Once writes, gaps and failures stop (all are bounded), an orderly behaviour
\* ends with the bucket synced and every row as the origin has it, for good.
Converges == Orderly => <>[](bucket.synced /\ \A k \in Key : Accurate(k))

=============================================================================
