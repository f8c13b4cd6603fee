------------------------------ MODULE FleetRows -----------------------------
(***************************************************************************)
(* The pure parts of the fleet image (src/src/index/fleet.rs and fleet/):  *)
(* how far an index has applied each native writer, the one-key effects a  *)
(* donor journals, their replay on a private stage, and the coverage check *)
(* that decides whether a stage may replace a live bucket and which live   *)
(* effects the swap carries into it.                                       *)
(***************************************************************************)
EXTENDS KeyIndex, FiniteSets

CONSTANTS
  Writer,      \* feeds that can reach an index: its own and its peers'
  Second,      \* ticks per second: origin times are whole seconds
  MaxWriters,  \* MAX_NATIVE_WRITERS
  MaxRows      \* ImageCaps::rows

ASSUME FleetRowsAssumption == Second \in Nat \ {0}

-----------------------------------------------------------------------------
(* Native cuts: per writer the life (epoch) and the event of it through    *)
(* which this index has applied the writer's feed.                         *)

Cut == [epoch : Nat, seq : Nat]
Cuts == [Writer -> Cut]

\* No entry for the writer.  A life's epoch is never 0.
NoCut == [epoch |-> 0, seq |-> 0]

At(epoch, seq) == [epoch |-> epoch, seq |-> seq]

Known(cuts, w) == cuts[w].epoch # 0

\* There is no room for another writer.
Full(cuts) == Cardinality({w \in Writer : Known(cuts, w)}) >= MaxWriters

Earlier(a, b) == a.epoch < b.epoch \/ (a.epoch = b.epoch /\ a.seq < b.seq)

\* The event is one the cut already covers.
Duplicate(cuts, w, at) ==
  Known(cuts, w) /\ at.epoch = cuts[w].epoch /\ at.seq <= cuts[w].seq

\* The event is the next one of a life the cut is in: a capture stays exact.
Follows(cuts, w, at) ==
  Known(cuts, w) /\ at.epoch = cuts[w].epoch /\ at.seq = cuts[w].seq + 1

\* note_native_cut, for an event that is not a duplicate.
NoteCut(cuts, w, at) ==
  IF ~Known(cuts, w) /\ Full(cuts) THEN cuts ELSE [cuts EXCEPT ![w] = at]

\* renew_native_writer: a known writer moves on to its next life.
Renews(cuts, w, epoch) == Known(cuts, w) /\ cuts[w].epoch < epoch
RenewCut(cuts, w, epoch) ==
  IF Renews(cuts, w, epoch) THEN [cuts EXCEPT ![w] = At(epoch, 0)] ELSE cuts

\* Mutant: the writer's cut stays before the gap.
SkipNothing(cuts, w, through) == cuts

\* skip_native_gap: a known writer's cut moves past what was missed.
SkipGap(cuts, w, through) ==
  IF Known(cuts, w) /\ Earlier(cuts[w], through)
  THEN [cuts EXCEPT ![w] = through] ELSE cuts

\* align_cuts, when it answers Exact: every writer at one position, a writer
\* without a cut counting as one that has written nothing.
Aligned(live, covered) ==
  \A w \in Writer : live[w] = covered[w] \/ (live[w].seq = 0 /\ covered[w].seq = 0
                                              /\ NoCut \in {live[w], covered[w]})

-----------------------------------------------------------------------------
(* The image and the effects that follow it.                               *)

\* write_entry: content type and metadata do not travel.
Skeletal(row) == [row EXCEPT !.meta = 0]

\* The transferable fields of a bucket.
Image(b) == [keys |-> [k \in Key |-> Skeletal(b.keys[k])], gone |-> b.gone]

RowCount(rows) ==
  Cardinality({k \in Key : rows.keys[k].ts # 0})
    + Cardinality({k \in Key : rows.gone[k] # 0})

\* image_bucket, add_rows: what can be captured.
Capturable(b) ==
  /\ b.exists /\ b.synced /\ b.rebuild = 0
  /\ \A k \in Key : b.fence[k] = 0
  /\ RowCount(b) <= MaxRows

\* decode: a private, complete bucket.
Decoded(image) ==
  [NoBucket EXCEPT !.exists = TRUE, !.synced = TRUE,
                   !.keys = image.keys, !.gone = image.gone]

Put(k, row) == [kind |-> "put", key |-> k, row |-> Skeletal(row)]
Delete(k, ts) == [kind |-> "del", key |-> k, row |-> [NoRow EXCEPT !.ts = ts]]
Noop == [kind |-> "noop", key |-> 0, row |-> NoRow]
Delta == {Noop} \cup [kind : {"put", "del"}, key : Key, row : Row]

\* What a definitive put, delete, observation or completion leaves to journal.
PutEffect(b, k, row) == IF PutLoses(b, k, row.ts) THEN Noop ELSE Put(k, row)

\* Mutant: a delete that removes no row is journaled as nothing.
DelEffectOfRow(b, k, ts) ==
  IF b.keys[k].ts # 0 /\ b.keys[k].ts <= ts THEN Delete(k, ts) ELSE Noop

DelEffect(b, k, ts) ==
  LET after == ApplyDel(b, k, ts, {})
  IN  IF after.gone[k] # b.gone[k] \/ after.keys[k] # b.keys[k]
      THEN Delete(k, after.gone[k]) ELSE Noop

\* Mutant: replay sweeps expired tombstones as a live delete does.
ReplaySweeping(b, delta) ==
  CASE delta.kind = "put" -> ApplyPut(b, delta.key, delta.row)
    [] delta.kind = "del" -> ApplyDel(b, delta.key, delta.row.ts, Expired(b, delta.row.ts))
    [] OTHER -> b

\* IndexDelta::apply on the stage; a replayed delete never sweeps.
Replay(b, delta) ==
  CASE delta.kind = "put" -> ApplyPut(b, delta.key, delta.row)
    [] delta.kind = "del" -> ApplyDel(b, delta.key, delta.row.ts, {})
    [] OTHER -> b

\* stage_batch refuses, before it applies it, a delta that may grow a full
\* stage.
MayGrow(b, delta) ==
  delta.kind = "del" \/ (delta.kind = "put" /\ b.keys[delta.key].ts = 0)

-----------------------------------------------------------------------------
(* Coverage: may the candidate replace the live bucket?                    *)

WholeSeconds(t) == t \div Second

\* version_difference = None.
SameObject(r, p) ==
  /\ r.etag = 0 <=> p.etag = 0
  /\ r.etag # 0 => Etag(r.etag) = Etag(p.etag)
  /\ r.size = 0 <=> p.size = 0
  /\ r.size # 0 => Size(r.size) = Size(p.size)
  /\ r.etag = 0 => r.ts = p.ts

\* Mutant: any row of the candidate covers the live one.
RowCoveredByAny(r, p, g) ==
  \/ p.ts # 0
  \/ g # 0 /\ WholeSeconds(g) > WholeSeconds(r.ts)

\* row_carried = Ok(false): the candidate's row p or tombstone g covers r.
RowCovered(r, p, g) ==
  \/ p.ts # 0 /\ SameObject(r, p)
  \/ g # 0 /\ WholeSeconds(g) > WholeSeconds(r.ts)
  \/ p.ts # 0 /\ WholeSeconds(p.ts) > WholeSeconds(r.ts)

\* row_carried = Err, when it is not covered: neither is provably later.
RowConflicts(r, p, g) ==
  \/ g # 0 /\ r.ts <= g
  \/ p.ts # 0 /\ WholeSeconds(p.ts) = WholeSeconds(r.ts)

\* tombstone_carried, for the live tombstone d.
DeleteCovered(d, p, g) == g >= d \/ p.ts > d

DeleteConflicts(d, p) == p.ts # 0 /\ WholeSeconds(p.ts) = WholeSeconds(d)

UncoveredRows(live, cand) ==
  {k \in Key : live.keys[k].ts # 0
                 /\ ~RowCovered(live.keys[k], cand.keys[k], cand.gone[k])}

UncoveredDeletes(live, cand) ==
  {k \in Key : live.gone[k] # 0
                 /\ ~DeleteCovered(live.gone[k], cand.keys[k], cand.gone[k])}

\* check_candidate, once the cuts are aligned.
Compatible(live, cand) ==
  /\ live.rebuild = 0
  /\ cand.synced /\ \A k \in Key : cand.fence[k] = 0
  /\ RowCount(live) <= MaxRows
  /\ \A k \in UncoveredRows(live, cand) :
       ~RowConflicts(live.keys[k], cand.keys[k], cand.gone[k])
  /\ \A k \in UncoveredDeletes(live, cand) :
       ~DeleteConflicts(live.gone[k], cand.keys[k])

\* install_fleet_candidate: the carried deletes, then the carried rows; the
\* live bucket's fences and their epoch move over.
Installed(live, cand) ==
  LET rows == UncoveredRows(live, cand)
      dels == UncoveredDeletes(live, cand)
  IN  [cand EXCEPT
         !.gen = live.gen + 1, !.epoch = live.epoch, !.fence = live.fence,
         !.keys = [k \in Key |-> IF k \in rows THEN live.keys[k]
                                 ELSE IF k \in dels THEN NoRow ELSE @[k]],
         !.gone = [k \in Key |-> IF k \in dels THEN MaxOf(@[k], live.gone[k]) ELSE @[k]]]

=============================================================================
