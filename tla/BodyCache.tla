------------------------------ MODULE BodyCache -----------------------------
(***************************************************************************)
(* One object's cached bodies on one node: the hot and the warm tier with  *)
(* their trust generations (tier.rs), the GET path that serves, proves or  *)
(* fills them (cache/proxy.rs), the mutations that drop them               *)
(* (cache/mutation.rs), a peer's writes as the apply loop folds them in    *)
(* (sync/coherence.rs) and the recovery that closes and reopens local      *)
(* serving (sync/volatile.rs).  The index row a body is proved against is  *)
(* a bucket of module KeyIndex with one key.                               *)
(***************************************************************************)
EXTENDS KeyIndex, Sequences, FiniteSets

CONSTANTS
  Reader,    \* GET requests of this node
  Second,    \* ticks per second
  Settings   \* the circumstances to consider, out of Setting

\* Who mutates the object: this node or another one.
Writer == {"local", "peer"}

\* "gap": the peer's feed loses events.  "lapse": this node's serve-lease
\* runs out.  "crash": this process restarts on its disk.  "lost": the
\* origin's answer to this node's write is lost.  "peer_lost": the same at the
\* peer.  "stall": the peer gives up waiting for this node.
\* "timeout": a recovery stage does not get its proof in time.
\* "promote": a warm hit reaches the hot tier some time after it was read.
Fault == {"gap", "lapse", "crash", "lost", "peer_lost", "stall", "timeout", "promote"}

\* The circumstances a behaviour runs in, fixed by its first state.
Setting ==
  [clustered : BOOLEAN,          \* a write feed is configured (`sync` is Some)
   writers : SUBSET Writer,
   reads : Nat,                  \* bound on GETs at a time
   faults : SUBSET Fault,
   elapse : SUBSET (Nat \ {0}),  \* ticks that pass before a writer reads its clock
   versions : Nat,               \* bound on mutations
   signals : Nat]                \* bound on gaps, lapses and crashes

ASSUME BodyCacheAssumption ==
  /\ Second \in Nat \ {0}
  /\ \A s \in Settings : /\ s \in Setting
                         /\ "peer" \in s.writers => s.clustered

VARIABLES
  setting,   \* the circumstances
  origin,    \* the version the origin holds; 0 when the key is absent
  wrote,     \* when each version landed
  written,   \* mutations begun; each takes the next version number
  landed,    \* the last mutation the origin applied
  base,      \* the last one landed when a mutation last ended for its client
  now,       \* the clock, in ticks
  bucket,    \* this node's index of the bucket
  heads,     \* reconciliations of the fenced key
  hot, warm, \* the tiers' copies
  gen,       \* suspect_gen
  op,        \* the mutation each writer runs
  feed,      \* the peer's events not yet applied here
  applying,  \* the apply loop is between the index and the hot tier
  retire,    \* warm copies the apply loop has yet to delete
  stage,     \* where recovery is; see Serving
  leased,    \* the peer holds its acknowledgements for this node
  owed,      \* feed events published before the lease was regained
  signals,   \* gaps, lapses and crashes so far: the recovery generation
  listed,    \* the row a rebuild's LIST page carries
  reader     \* GETs in flight

clientVars == <<setting, origin, wrote, written, landed, base, now>>
indexVars  == <<bucket, heads>>
tierVars   == <<hot, warm, gen>>
feedVars   == <<feed, applying, retire>>
recoverVars == <<stage, leased, owed, signals, listed>>
vars == <<clientVars, indexVars, tierVars, feedVars, recoverVars, op, reader>>

K == CHOOSE k \in Key : TRUE

\* A copy: the version and Last-Modified it carries, its trust stamp, and the
\* object in memory it is (copies decoded from disk twice are two objects).
NoBody == [ver |-> 0, lm |-> 0, trust |-> 0, id |-> 0]
Body(v, lm, trust, id) == [ver |-> v, lm |-> lm, trust |-> trust, id |-> id]

Idle == [pc |-> "idle", kind |-> "put", ver |-> 0, gen |-> 0]
NoRead == [pc |-> "idle", probe |-> 0, start |-> 0, gen |-> 0, signals |-> 0,
           fillGen |-> 0, mark |-> 0, stale |-> FALSE, obj |-> NoBody]

OriginTime(t) == (t \div Second) * Second

\* What is on disk carries no trust.
OnDisk(b) == [b EXCEPT !.trust = 0, !.id = 0]

\* An object no one in this process holds yet.
Id == 1..(Cardinality(Reader) + 1)
FreshId ==
  CHOOSE i \in Id : i \notin {hot.id} \cup {reader[r].obj.id : r \in Reader}

\* The node may answer from its own state.
Serving == ~setting.clustered \/ stage = "serving"

Fenced == bucket.fence[K] # 0

OriginRow == IF origin = 0 THEN NoRow
             ELSE [ts |-> OriginTime(wrote[origin]), size |-> origin,
                   etag |-> origin, meta |-> 0]

Init ==
  /\ setting \in Settings
  /\ origin = 1 /\ written = 1 /\ landed = 1 /\ base = 1 /\ now = Second
  /\ wrote = [v \in 1..setting.versions |-> IF v = 1 THEN Second ELSE 0]
  /\ bucket = [NoBucket EXCEPT !.exists = TRUE, !.synced = TRUE, !.gen = 1,
                               !.keys[K] = OriginRow]
  /\ heads = {}
  /\ hot = NoBody /\ gen = 1
  /\ warm \in {NoBody, Body(1, Second, 0, 0)}
  /\ op = [w \in Writer |-> Idle]
  /\ feed = <<>> /\ applying = FALSE /\ retire = 0
  /\ stage = "serving" /\ leased = TRUE /\ owed = 0 /\ signals = 0 /\ listed = NoRow
  /\ reader = [r \in Reader |-> NoRead]

-----------------------------------------------------------------------------
(* Fill fences: a mutation of the key marks every registered fill stale    *)
(* and waits for the one that is committing; the marks and the end of the  *)
(* wait are one step.                                                      *)

Registered(r) == reader[r].pc \in {"asked", "fetched", "insert"}

Committing == \E r \in Reader : reader[r].pc = "insert"

Marked == [r \in Reader |-> IF Registered(r) THEN [reader[r] EXCEPT !.stale = TRUE]
                            ELSE reader[r]]

FenceKeyFills == ~Committing /\ reader' = Marked

Invalidate == FenceKeyFills /\ hot' = NoBody /\ warm' = NoBody /\ UNCHANGED gen

\* Mutant: the hot copy stays.
InvalidateNothing == FenceKeyFills /\ UNCHANGED <<hot, warm, gen>>

InvalidateHot == FenceKeyFills /\ hot' = NoBody /\ UNCHANGED <<warm, gen>>

-----------------------------------------------------------------------------
(* Mutations.  "put" drops the cached body before it is forwarded, as COPY *)
(* does; "complete" (multipart) and "del" only afterwards.  One mutation   *)
(* of the key runs at a time: clients that race writers get whichever row  *)
(* the timestamps pick.                                                    *)

Begin(w, kind) ==
  /\ w \in setting.writers /\ \A x \in Writer : op[x].pc = "idle"
  /\ written < setting.versions
  /\ written' = written + 1
  /\ op' = [op EXCEPT ![w] = [pc |-> "sent", kind |-> kind, ver |-> written + 1,
                              gen |-> IF Serving THEN gen ELSE 0]]
  /\ IF w = "local" /\ kind = "put" THEN Invalidate ELSE UNCHANGED <<reader, tierVars>>
  /\ UNCHANGED <<setting, origin, wrote, landed, base, now, indexVars, feedVars, recoverVars>>

Land(w) ==
  /\ op[w].pc = "sent"
  /\ landed' = op[w].ver
  /\ origin' = IF op[w].kind = "del" THEN 0 ELSE op[w].ver
  /\ wrote' = [wrote EXCEPT ![op[w].ver] = now]
  /\ op' = [op EXCEPT ![w].pc = "landed"]
  /\ UNCHANGED <<setting, written, base, now, indexVars, tierVars, feedVars, recoverVars, reader>>

Refuse(w) ==
  /\ op[w].pc = "sent"
  /\ op' = [op EXCEPT ![w] = Idle]
  /\ UNCHANGED <<clientVars, indexVars, tierVars, feedVars, recoverVars, reader>>

\* The answer is lost or ambiguous.
Lose(w) ==
  /\ (IF w = "local" THEN "lost" ELSE "peer_lost") \in setting.faults
  /\ op[w].pc \in {"sent", "landed"}
  /\ op' = [op EXCEPT ![w].pc = "unknown"]
  /\ UNCHANGED <<clientVars, indexVars, tierVars, feedVars, recoverVars, reader>>

\* A fill that started while the mutation was under way is fenced at commit.
Clear ==
  /\ op["local"].pc = "landed"
  /\ Invalidate
  /\ op' = [op EXCEPT !["local"].pc = "cleared"]
  /\ UNCHANGED <<clientVars, indexVars, feedVars, recoverVars>>

\* A put that began while the node was serving may keep the body it wrote,
\* stamped with the trust generation it began under.
WriteFill(keep) ==
  /\ op["local"].pc = "cleared"
  /\ keep => op["local"].kind = "put" /\ op["local"].gen # 0
  /\ LET b == Body(op["local"].ver, now, op["local"].gen, FreshId)
     IN  IF keep THEN hot' = b /\ warm' = OnDisk(b) ELSE UNCHANGED <<hot, warm>>
  /\ op' = [op EXCEPT !["local"].pc = "filled"]
  /\ UNCHANGED <<clientVars, gen, indexVars, feedVars, recoverVars, reader>>

Later == {now + d : d \in setting.elapse}

WriteRow(w, t) == [ts |-> t, size |-> op[w].ver, etag |-> op[w].ver, meta |-> 0]

Applied(b, kind, row) ==
  IF kind = "del" THEN ApplyDel(b, K, row.ts, {}) ELSE ApplyPut(b, K, row)

Ended == base' = landed /\ UNCHANGED <<setting, origin, wrote, written, landed>>

\* record_put / record_del; waiting for the peers changes nothing here.
Record(t) ==
  /\ op["local"].pc = "filled"
  /\ now' = t
  /\ bucket' = Applied(bucket, op["local"].kind, WriteRow("local", t))
  /\ op' = [op EXCEPT !["local"] = Idle]
  /\ Ended
  /\ UNCHANGED <<heads, tierVars, feedVars, recoverVars, reader>>

FenceAndReconcile ==
  /\ bucket' = FenceKey(bucket, K)
  /\ heads' = heads \cup {[token |-> bucket.epoch + 1, answered |-> FALSE, row |-> NoRow]}

\* announce_unknown: fence the key, start its HEAD, then drop the bodies.
Announce ==
  /\ op["local"].pc = "unknown"
  /\ FenceAndReconcile
  /\ op' = [op EXCEPT !["local"].pc = "announced"]
  /\ UNCHANGED <<clientVars, tierVars, feedVars, recoverVars, reader>>

DropAnnounced ==
  /\ op["local"].pc = "announced"
  /\ Invalidate
  /\ op' = [op EXCEPT !["local"] = Idle]
  /\ Ended
  /\ UNCHANGED <<now, indexVars, feedVars, recoverVars>>

\* The peer's mutation reaches its feed; its client is answered when this
\* node has applied it or lost its lease (PeerEnd).
Publish(t) ==
  /\ op["peer"].pc \in {"landed", "unknown"}
  /\ now' = t
  /\ feed' = Append(feed, [kind |-> IF op["peer"].pc = "unknown" THEN "unknown"
                                    ELSE op["peer"].kind,
                           row |-> WriteRow("peer", t)])
  /\ op' = [op EXCEPT !["peer"].pc = "published"]
  /\ UNCHANGED <<setting, origin, wrote, written, landed, base, indexVars, tierVars, applying,
                 retire, recoverVars, reader>>

PeerEnd ==
  /\ op["peer"].pc = "published"
  /\ feed = <<>> \/ ~leased
  /\ op' = [op EXCEPT !["peer"] = Idle]
  /\ Ended
  /\ UNCHANGED <<now, indexVars, tierVars, feedVars, recoverVars, reader>>

\* The wait times out: a 503 that promises nothing.
PeerStall ==
  /\ "stall" \in setting.faults
  /\ op["peer"].pc = "published"
  /\ op' = [op EXCEPT !["peer"] = Idle]
  /\ UNCHANGED <<clientVars, indexVars, tierVars, feedVars, recoverVars, reader>>

-----------------------------------------------------------------------------
(* The apply loop.                                                         *)

\* Fence the fills, move the index.
ApplyIndex ==
  /\ feed # <<>> /\ ~applying
  /\ FenceKeyFills
  /\ LET e == Head(feed)
     IN  IF e.kind = "unknown" THEN FenceAndReconcile
         ELSE bucket' = Applied(bucket, e.kind, e.row) /\ UNCHANGED heads
  /\ applying' = TRUE
  /\ UNCHANGED <<clientVars, tierVars, feed, retire, recoverVars, op>>

\* Mutant: the barrier's count runs below zero.
ApplyHotUncounted ==
  /\ applying
  /\ InvalidateHot
  /\ applying' = FALSE
  /\ feed' = Tail(feed)
  /\ owed' = owed - 1
  /\ retire' = retire + 1
  /\ UNCHANGED <<clientVars, indexVars, stage, leased, signals, listed, op>>

\* Mutant: the barrier is never told of the progress.
ApplyHotOwing ==
  /\ applying
  /\ InvalidateHot
  /\ applying' = FALSE
  /\ feed' = Tail(feed)
  /\ retire' = retire + 1
  /\ UNCHANGED <<clientVars, indexVars, stage, leased, owed, signals, listed, op>>

\* Drop the hot copy, then advance the frontier and acknowledge.
ApplyHot ==
  /\ applying
  /\ InvalidateHot
  /\ applying' = FALSE
  /\ feed' = Tail(feed)
  /\ owed' = IF owed = 0 THEN 0 ELSE owed - 1
  /\ retire' = retire + 1
  /\ UNCHANGED <<clientVars, indexVars, stage, leased, signals, listed, op>>

\* Mutant: the task drops the hot copy again and not the warm one.
RetireHot ==
  /\ retire > 0
  /\ InvalidateHot
  /\ retire' = retire - 1
  /\ UNCHANGED <<clientVars, indexVars, feed, applying, recoverVars, op>>

\* The spawned task deletes the warm copy.
Retire ==
  /\ retire > 0
  /\ Invalidate
  /\ retire' = retire - 1
  /\ UNCHANGED <<clientVars, indexVars, feed, applying, recoverVars, op>>

HeadAnswer(h) ==
  /\ ~h.answered
  /\ heads' = (heads \ {h}) \cup
       IF bucket.exists /\ bucket.fence[K] = h.token
       THEN {[h EXCEPT !.answered = TRUE, !.row = OriginRow]} ELSE {}
  /\ UNCHANGED <<clientVars, bucket, tierVars, feedVars, recoverVars, op, reader>>

HeadResolve(h) ==
  /\ h.answered
  /\ bucket' = ResolveUncertainKey(bucket, K, h.token, h.row, now)
  /\ heads' = heads \ {h}
  /\ UNCHANGED <<clientVars, tierVars, feedVars, recoverVars, op, reader>>

-----------------------------------------------------------------------------
(* Recovery.  A lapse keeps the copies' proofs and waits for the feed to   *)
(* catch up; a gap distrusts every copy and rebuilds the index.            *)

Busy(w) == op[w].pc # "idle"

Signal == signals < setting.signals /\ signals' = signals + 1

Lapse ==
  /\ setting.clustered /\ "lapse" \in setting.faults
  /\ leased
  /\ Signal
  /\ leased' = FALSE
  /\ stage' = IF stage = "serving" THEN "lapsed" ELSE stage
  /\ UNCHANGED <<clientVars, indexVars, tierVars, feedVars, owed, listed, op, reader>>

\* Mutant: the barrier does not wait for what the feed holds.
RenewOwesNothing ==
  /\ ~leased
  /\ leased' = TRUE
  /\ owed' = 0
  /\ stage' = IF stage = "lapsed" THEN "barrier" ELSE stage
  /\ UNCHANGED <<clientVars, indexVars, tierVars, feedVars, signals, listed, op, reader>>

\* Every granter has adopted a renewal published after the lapse; the heads
\* they advertise by then are what the barrier waits for.
Renew ==
  /\ ~leased
  /\ leased' = TRUE
  /\ owed' = Len(feed)
  /\ stage' = IF stage = "lapsed" THEN "barrier" ELSE stage
  /\ UNCHANGED <<clientVars, indexVars, tierVars, feedVars, signals, listed, op, reader>>

\* The feed lost events, perhaps with the peer that was writing (dead).  An
\* origin answer given before the gap is not held across it (see IndexSync).
Gap(dead) ==
  /\ "gap" \in setting.faults
  /\ ~applying /\ \A h \in heads : ~h.answered
  /\ Signal
  /\ feed' = <<>> /\ owed' = 0
  /\ bucket' = DiscardBuckets(bucket)
  /\ stage' = "distrust"
  /\ IF dead /\ op["peer"].pc \in {"landed", "unknown"}
     THEN op' = [op EXCEPT !["peer"] = Idle] /\ Ended
     ELSE UNCHANGED <<op, setting, origin, wrote, written, landed, base>>
  /\ UNCHANGED <<now, heads, tierVars, applying, retire, leased, listed, reader>>

Recover(from, to) == stage = from /\ stage' = to

\* Mutant: the copies keep their proofs across the gap.
DistrustNothing ==
  /\ Recover("distrust", "rebuild")
  /\ UNCHANGED <<clientVars, indexVars, tierVars, feedVars, leased, owed, signals,
                 listed, op, reader>>

Distrust ==
  /\ Recover("distrust", "rebuild")
  /\ gen' = gen + 1
  /\ UNCHANGED <<clientVars, indexVars, hot, warm, feedVars, leased, owed, signals,
                 listed, op, reader>>

BeginRebuild ==
  /\ Recover("rebuild", "scan")
  /\ bucket' = BeginBucketResync(bucket)
  /\ UNCHANGED <<clientVars, heads, tierVars, feedVars, leased, owed, signals, listed,
                 op, reader>>

ListPage ==
  /\ Recover("scan", "publish")
  /\ listed' = OriginRow
  /\ UNCHANGED <<clientVars, indexVars, tierVars, feedVars, leased, owed, signals, op, reader>>

PublishPage ==
  /\ Recover("publish", "finish")
  /\ bucket' = SyncListing(bucket, bucket.gen, [NoPage EXCEPT ![K] = listed])
  /\ listed' = NoRow
  /\ UNCHANGED <<clientVars, heads, tierVars, feedVars, leased, owed, signals, op, reader>>

FinishRebuild ==
  /\ Recover("finish", "barrier")
  /\ bucket' = FinishBucketSync(bucket, bucket.gen)
  /\ UNCHANGED <<clientVars, heads, tierVars, feedVars, leased, owed, signals, listed,
                 op, reader>>

Affirm ==
  /\ Recover("barrier", "serving")
  /\ leased /\ owed = 0
  /\ UNCHANGED <<clientVars, indexVars, tierVars, feedVars, leased, owed, signals, listed,
                 op, reader>>

\* A stage that cannot get its proof falls back to the rebuild.
FallBack ==
  /\ Recover("barrier", "distrust")
  /\ "timeout" \in setting.faults /\ gen <= setting.signals
  /\ UNCHANGED <<clientVars, indexVars, tierVars, feedVars, leased, owed, signals, listed,
                 op, reader>>

\* The process dies and starts again with what is on its disk; a mutation of
\* its own ends there, answered or not.
Crash ==
  /\ "crash" \in setting.faults
  /\ Signal
  /\ hot' = NoBody /\ gen' = 1 /\ UNCHANGED warm
  /\ bucket' = NoBucket /\ heads' = {} /\ listed' = NoRow
  /\ feed' = <<>> /\ applying' = FALSE /\ retire' = 0 /\ owed' = 0
  /\ IF setting.clustered THEN stage' = "rebuild" /\ leased' = FALSE
     ELSE UNCHANGED <<stage, leased>>
  /\ IF Busy("local") THEN Ended ELSE UNCHANGED <<setting, origin, wrote, written, landed, base>>
  /\ op' = [w \in Writer |-> IF w = "local" THEN Idle ELSE op[w]]
  /\ reader' = [r \in Reader |-> NoRead]
  /\ UNCHANGED now

-----------------------------------------------------------------------------
(* GET.                                                                    *)

Reading(r) == reader[r].pc \notin {"idle", "served"}

Go(r, next) == reader' = [reader EXCEPT ![r] = next]

\* The read fence, the uncertainty check and the serving licence; a read that
\* fails them streams from the origin and changes nothing.
ReadBegin(r) ==
  /\ ~Reading(r)
  /\ Cardinality({q \in Reader \ {r} : reader[q].pc # "idle"}) < setting.reads
  /\ ~Fenced /\ Serving
  /\ Go(r, [NoRead EXCEPT !.pc = "lookup", !.start = base, !.gen = gen, !.signals = signals])
  /\ UNCHANGED <<clientVars, indexVars, tierVars, feedVars, recoverVars, op>>


\* No copy that serves.  After the GET's own probe comes the fill, which probes
\* again, waits for the gate, probes under it, then registers and asks.
Missed(r) ==
  LET next == [reader[r] EXCEPT !.obj = NoBody]
  IN  CASE reader[r].probe = 0 ->
             [next EXCEPT !.pc = "lookup", !.probe = 1, !.fillGen = gen]
        [] reader[r].probe = 1 -> [next EXCEPT !.pc = "miss"]
        [] OTHER -> [next EXCEPT !.pc = "asked"]

\* A copy decoded from disk is a new object no generation trusts.
Lookup(r) ==
  /\ reader[r].pc = "lookup"
  /\ LET decoded == [warm EXCEPT !.id = FreshId]
     IN  \/ /\ hot # NoBody
            /\ Go(r, [reader[r] EXCEPT !.pc = "check", !.obj = hot])
            /\ UNCHANGED hot
         \/ /\ hot = NoBody /\ warm # NoBody /\ "promote" \in setting.faults
            /\ Go(r, [reader[r] EXCEPT !.pc = "promote", !.obj = decoded])
            /\ UNCHANGED hot
         \/ /\ hot = NoBody /\ warm # NoBody /\ "promote" \notin setting.faults
            /\ Go(r, [reader[r] EXCEPT !.pc = "check", !.obj = decoded])
            /\ hot' = decoded
         \/ /\ hot = NoBody /\ warm = NoBody
            /\ Go(r, Missed(r))
            /\ UNCHANGED hot
  /\ UNCHANGED <<clientVars, indexVars, warm, gen, feedVars, recoverVars, op>>

Promote(r) ==
  /\ reader[r].pc = "promote"
  /\ hot' = reader[r].obj
  /\ Go(r, [reader[r] EXCEPT !.pc = "check"])
  /\ UNCHANGED <<clientVars, indexVars, warm, gen, feedVars, recoverVars, op>>

\* Mutant: the ETag alone identifies a version.
MatchesEtag(row, obj) ==
  row.etag # 0 /\ Etag(row.etag) = Etag(obj.ver)

\* compare_entry_body: same ETag, and the row no more than a second newer.
Matches(row, obj) ==
  /\ row.etag # 0 /\ Etag(row.etag) = Etag(obj.ver)
  /\ row.ts <= obj.lm + Second

\* validated_get: a single node serves any copy; otherwise a copy is trusted,
\* proved by the index, or dropped.
Validate(r) ==
  /\ reader[r].pc = "check"
  /\ LET obj == reader[r].obj
         trusted == ~setting.clustered \/ obj.trust = gen
         proved == bucket.synced /\ Matches(bucket.keys[K], obj)
     IN  Go(r, [reader[r] EXCEPT !.pc = IF trusted THEN "gate"
                                        ELSE IF proved THEN "mark" ELSE "drop",
                                 !.mark = IF ~trusted /\ proved THEN gen ELSE 0])
  /\ UNCHANGED <<clientVars, indexVars, tierVars, feedVars, recoverVars, op>>

\* Everyone who holds the object sees the stamp.
MarkTrusted(r) ==
  /\ reader[r].pc = "mark"
  /\ LET Stamp(b) == IF b.id = reader[r].obj.id THEN [b EXCEPT !.trust = reader[r].mark] ELSE b
         stamped == [q \in Reader |-> [reader[q] EXCEPT !.obj = Stamp(@)]]
     IN  /\ hot' = Stamp(hot)
         /\ reader' = [stamped EXCEPT ![r].pc = "gate", ![r].mark = 0]
  /\ UNCHANGED <<clientVars, indexVars, warm, gen, feedVars, recoverVars, op>>

DropSuspect(r) ==
  /\ reader[r].pc = "drop"
  /\ ~Committing
  /\ hot' = NoBody /\ warm' = NoBody
  /\ reader' = [Marked EXCEPT ![r] = Missed(r)]
  /\ UNCHANGED <<clientVars, indexVars, gen, feedVars, recoverVars, op>>

\* Dropped before the answer's last check.
HoldsGate(r) == reader[r].probe = 2 /\ reader[r].pc # "gate"

\* One fill of the key at a time.
Acquire(r) ==
  /\ reader[r].pc = "miss"
  /\ \A q \in Reader : ~HoldsGate(q)
  /\ Go(r, [reader[r] EXCEPT !.pc = "lookup", !.probe = 2])
  /\ UNCHANGED <<clientVars, indexVars, tierVars, feedVars, recoverVars, op>>

\* The origin answers with the body, or with an error or a body too large.
Answer(r) ==
  /\ reader[r].pc = "asked"
  /\ \/ /\ origin # 0
        /\ Go(r, [reader[r] EXCEPT !.pc = "fetched",
                    !.obj = Body(origin, OriginTime(wrote[origin]), 0, FreshId)])
     \/ Go(r, NoRead)
  /\ UNCHANGED <<clientVars, indexVars, tierVars, feedVars, recoverVars, op>>

\* Mutant: the fence's verdict is ignored.
CanCommitStale(r) == gen = reader[r].fillGen /\ Serving /\ ~Fenced

CanCommit(r) == ~reader[r].stale /\ gen = reader[r].fillGen /\ Serving /\ ~Fenced

\* observe, then trust and insert under the fill's commit lock.
Commit(r) ==
  /\ reader[r].pc = "fetched"
  /\ LET obj == reader[r].obj
         row == [ts |-> obj.lm, size |-> obj.ver, etag |-> obj.ver, meta |-> obj.ver]
     IN  IF CanCommit(r)
         THEN /\ bucket' = IF Indexed(bucket, K) THEN CompleteEntry(bucket, K, obj.ver)
                           ELSE ApplyObservedPut(bucket, K, row)
              /\ Go(r, [reader[r] EXCEPT !.pc = "insert", !.obj.trust = reader[r].fillGen])
         ELSE Go(r, [reader[r] EXCEPT !.pc = "gate"]) /\ UNCHANGED bucket
  /\ UNCHANGED <<clientVars, heads, tierVars, feedVars, recoverVars, op>>

Insert(r) ==
  /\ reader[r].pc = "insert"
  /\ hot' = reader[r].obj /\ warm' = OnDisk(reader[r].obj)
  /\ Go(r, [reader[r] EXCEPT !.pc = "gate"])
  /\ UNCHANGED <<clientVars, indexVars, gen, feedVars, recoverVars, op>>

\* local_read_gate_now: the generations captured at the start still hold.
Gate(r) == gen = reader[r].gen /\ Serving /\ signals = reader[r].signals

\* Served, or else by a fill, or, when the fill's answer is the one refused,
\* from the origin.
Serve(r) ==
  /\ reader[r].pc = "gate"
  /\ Go(r, IF Gate(r) THEN [NoRead EXCEPT !.pc = "served", !.start = reader[r].start,
                                        !.obj = OnDisk(reader[r].obj)]
           ELSE IF reader[r].probe = 0 THEN Missed(r) ELSE NoRead)
  /\ UNCHANGED <<clientVars, indexVars, tierVars, feedVars, recoverVars, op>>

\* The tiers evict what they please.
Evict ==
  /\ \/ hot # NoBody /\ hot' = NoBody /\ UNCHANGED warm
     \/ warm # NoBody /\ warm' = NoBody /\ UNCHANGED hot
  /\ UNCHANGED <<clientVars, indexVars, gen, feedVars, recoverVars, op, reader>>

-----------------------------------------------------------------------------
LocalStep ==
  \/ Clear \/ (\E keep \in BOOLEAN : WriteFill(keep)) \/ (\E t \in Later : Record(t))
  \/ Announce \/ DropAnnounced

PeerStep == (\E t \in Later : Publish(t)) \/ PeerEnd

WriterStep(w) == Land(w) \/ Lose(w) \/ Refuse(w)

ApplyStep == ApplyIndex \/ ApplyHot \/ Retire

HeadStep == \E h \in heads : HeadAnswer(h) \/ HeadResolve(h)

RecoverStep ==
  \/ Renew \/ Distrust \/ BeginRebuild \/ ListPage \/ PublishPage \/ FinishRebuild
  \/ Affirm

ReadStep(r) ==
  \/ Lookup(r) \/ Promote(r) \/ Validate(r) \/ MarkTrusted(r) \/ DropSuspect(r)
  \/ Acquire(r) \/ Answer(r) \/ Commit(r) \/ Insert(r) \/ Serve(r)

Next ==
  \/ \E w \in Writer : WriterStep(w) \/ \E kind \in {"put", "complete", "del"} : Begin(w, kind)
  \/ LocalStep
  \/ PeerStep
  \/ PeerStall
  \/ ApplyStep
  \/ HeadStep
  \/ RecoverStep \/ FallBack
  \/ Lapse \/ (\E dead \in BOOLEAN : Gap(dead)) \/ Crash
  \/ \E r \in Reader : ReadBegin(r) \/ ReadStep(r)
  \/ Evict

Spec == Init /\ [][Next]_vars

\* Every spawned task runs on: requests in flight, the apply loop, the HEAD of
\* a fence and the recovery driver.  The origin answers in the end, granters
\* renew the lease in the end, and the fill gate is a fair mutex.
Fairness ==
  /\ WF_vars(\E w \in Writer : Land(w) \/ Refuse(w))
  /\ WF_vars(LocalStep) /\ WF_vars(PeerStep)
  /\ WF_vars(ApplyIndex \/ ApplyHot) /\ WF_vars(Retire)
  /\ WF_vars(HeadStep) /\ WF_vars(RecoverStep)
  /\ \A r \in Reader : WF_vars(ReadStep(r)) /\ SF_vars(Acquire(r) \/ DropSuspect(r))

FairSpec == Spec /\ Fairness

-----------------------------------------------------------------------------
Version == 0..setting.versions

Copy == [ver : Version, lm : Nat, trust : Nat, id : Id \cup {0}]

Operation == [pc : {"idle", "sent", "landed", "cleared", "filled", "unknown", "announced",
                    "published"},
              kind : {"put", "complete", "del"}, ver : Version, gen : Nat]

Read == [pc : {"idle", "lookup", "promote", "check", "mark", "drop", "miss", "asked",
               "fetched", "insert", "gate", "served"},
         probe : 0..2, start : Version, gen : Nat, signals : Nat, fillGen : Nat,
         mark : Nat, stale : BOOLEAN, obj : Copy]

\* Every variable has the shape its declaration describes; in particular what
\* the barrier and the warm retirements have left to do never goes below zero.
TypeOK ==
  /\ setting \in Setting
  /\ {origin, written, landed, base} \subseteq Version
  /\ now \in Nat /\ wrote \in [1..setting.versions -> Nat]
  /\ bucket \in Bucket /\ listed \in Row
  /\ \A h \in heads : h \in [token : Nat, answered : BOOLEAN, row : Row]
  /\ {hot, warm} \subseteq Copy /\ gen \in Nat
  /\ op \in [Writer -> Operation]
  /\ \A i \in DOMAIN feed : feed[i] \in [kind : {"put", "complete", "del", "unknown"}, row : Row]
  /\ applying \in BOOLEAN /\ leased \in BOOLEAN
  /\ {retire, owed, signals} \subseteq Nat
  /\ stage \in {"serving", "lapsed", "distrust", "rebuild", "scan", "publish", "finish",
                "barrier"}
  /\ reader \in [Reader -> Read]

\* A body of version u could have been the answer: it is the very copy, or
\* byte-identical and landed within two seconds of it.
Alike(u, obj) ==
  \/ u = obj.ver
  \/ Etag(u) = Etag(obj.ver) /\ wrote[u] < obj.lm + 2 * Second

\* A GET served from a local tier never returns a version older than the last
\* one whose write had ended, acknowledged or not, when the GET began
\* (serve_get: "a peer's overwrite is never read stale").
FreshReads ==
  \A r \in Reader : reader[r].pc = "served" =>
    \E u \in reader[r].start..landed : Alike(u, reader[r].obj)

\* Neither a stamp nor the index vouches for the copy.
Suspect(b) == b.trust # gen /\ ~(bucket.synced /\ Matches(bucket.keys[K], b))

\* Once writes stop, the tiers hold nothing but the origin's object: whatever
\* a fill, a write's own body or a late promotion left behind is dropped by
\* the mutation that superseded it (fence_mutation, start_apply).  A copy whose
\* mutation a gap or a restart hid may stay, but no read will accept it.
BodiesConverge ==
  <>[](\A b \in {hot, warm} :
         \/ b = NoBody
         \/ origin # 0 /\ Alike(origin, b)
         \/ signals > 0 /\ Suspect(b))


\* A node that stops serving its own state serves it again, as long as signals
\* do not keep coming (the recovery driver's stages).
Reopens == []<>(stage = "serving")

=============================================================================
