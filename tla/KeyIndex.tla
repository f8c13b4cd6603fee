------------------------------ MODULE KeyIndex ------------------------------
(***************************************************************************)
(* The LIST index of one bucket (src/src/index.rs): the state of a bucket  *)
(* as a record, and every operation the program runs on it under the index *)
(* lock, each as an operator from a bucket to a bucket.                    *)
(*                                                                         *)
(* Object attributes are abstracted to the version they were learned from: *)
(* a row's size, etag and meta fields hold the version that field          *)
(* describes, and 0 when the row does not carry the field (`None`).        *)
(* Etag(v) and Size(v) say which versions the origin reports alike.        *)
(* Times are positive; 0 stands for "no tombstone" and "no row".           *)
(***************************************************************************)
EXTENDS Naturals

CONSTANTS
  Key,       \* the object keys of the bucket
  Etag(_),   \* the ETag of a version: byte-identical rewrites share one
  Size(_),   \* the size of a version
  TTL        \* TOMBSTONE_TTL: how long a tombstone is kept at least

ASSUME TTLAssumption == TTL \in Nat

Row == [ts : Nat, size : Nat, etag : Nat, meta : Nat]

NoRow == [ts |-> 0, size |-> 0, etag |-> 0, meta |-> 0]

Bucket ==
  [exists  : BOOLEAN,         \* the bucket has an entry in the map
   synced  : BOOLEAN,         \* a complete origin LIST is behind the rows
   keys    : [Key -> Row],    \* live rows; NoRow when absent
   gone    : [Key -> Nat],    \* tombstones; 0 when there is none
   gen     : Nat,             \* sync_generation
   rebuild : Nat,             \* rebuild_generation; 0 when none is running
   touched : SUBSET Key,      \* rebuild_touched
   epoch   : Nat,             \* uncertainty_epoch
   fence   : [Key -> Nat]]    \* uncertain_keys; 0 when the key is certain

\* BucketState::default(), which is also what a bucket missing from the map
\* becomes on first use.
NoBucket ==
  [exists |-> FALSE, synced |-> FALSE,
   keys |-> [k \in Key |-> NoRow], gone |-> [k \in Key |-> 0],
   gen |-> 0, rebuild |-> 0, touched |-> {},
   epoch |-> 0, fence |-> [k \in Key |-> 0]]

-----------------------------------------------------------------------------
(* Definitive mutations: a local write or a peer's feed event.             *)

\* The first definitive mutation of a key in a rebuild supersedes the LIST
\* baseline whatever the two clocks say.
FirstRebuildMutation(b, k) == b.rebuild # 0 /\ k \notin b.touched

\* Mutant: the tombstone is not consulted.
PutLosesToRowOnly(b, k, ts) == b.keys[k].ts > ts

\* Strictly newer row or equal-or-newer tombstone: the put loses.
PutLoses(b, k, ts) == b.gone[k] >= ts \/ b.keys[k].ts > ts

Touch(b, k) == IF b.rebuild # 0 THEN b.touched \cup {k} ELSE b.touched

ApplyPut(b, k, row) ==
  IF ~FirstRebuildMutation(b, k) /\ PutLoses(b, k, row.ts)
  THEN [b EXCEPT !.exists = TRUE]
  ELSE [b EXCEPT !.exists = TRUE,
                 !.keys[k] = row,
                 !.gone[k] = IF FirstRebuildMutation(b, k) THEN 0 ELSE @,
                 !.fence[k] = 0,
                 !.touched = Touch(b, k)]

\* Mutant: any older tombstone is swept, whatever its age.
ExpiredAtOnce(b, ts) == {k \in Key : b.gone[k] > 0 /\ b.gone[k] < ts}

\* Tombstones a delete at ts may forget: older than the cutoff ts - TTL.
Expired(b, ts) == {k \in Key : b.gone[k] > 0 /\ b.gone[k] + TTL < ts}

MaxOf(s, t) == IF s < t THEN t ELSE s

\* A delete sweeps some expired tombstones, records its own and, unless the
\* key was rewritten or deleted later, removes the row.  An older delete only
\* raises the tombstone.
ApplyDel(b, k, ts, swept) ==
  LET first == FirstRebuildMutation(b, k)
      kept  == [j \in Key |-> IF j \in swept THEN 0 ELSE b.gone[j]]
      gone  == [kept EXCEPT ![k] = IF first THEN ts ELSE MaxOf(@, ts)]
      loses == ~first /\ (b.keys[k].ts > ts \/ kept[k] > ts)
  IN  IF loses
      THEN [b EXCEPT !.exists = TRUE, !.gone = gone]
      ELSE [b EXCEPT !.exists = TRUE,
                     !.gone = gone,
                     !.keys[k] = NoRow,
                     !.fence[k] = 0,
                     !.touched = Touch(b, k)]

-----------------------------------------------------------------------------
(* Observations: what an origin GET or HEAD answer proves.                 *)

\* apply_observed_put: never clears a fence, never beats a rebuild-time write.
ApplyObservedPut(b, k, row) ==
  IF PutLoses(b, k, row.ts) \/ k \in b.touched
  THEN [b EXCEPT !.exists = TRUE]
  ELSE [b EXCEPT !.exists = TRUE, !.keys[k] = row]

Fill(have, learned) == IF have = 0 THEN learned ELSE have

\* An answer about version v completes only a row of that version: the same
\* ETag where the row has one, the same size where it has one.
SameVersion(r, v) ==
  /\ r.etag # 0 => Etag(r.etag) = Etag(v)
  /\ r.size # 0 => Size(r.size) = Size(v)

Indexed(b, k) == b.keys[k].ts # 0

CompleteEntry(b, k, v) ==
  LET r == b.keys[k]
  IN  IF Indexed(b, k) /\ SameVersion(r, v)
      THEN [b EXCEPT !.keys[k] = [ts   |-> r.ts,
                                  size |-> Fill(r.size, v),
                                  etag |-> Fill(r.etag, v),
                                  meta |-> Fill(r.meta, v)]]
      ELSE b

-----------------------------------------------------------------------------
(* Uncertain mutations: a key is fenced until its own HEAD resolves it.    *)

\* Mutant: the epoch is not advanced, so tokens repeat.
FenceKeySameToken(b, k) ==
  [b EXCEPT !.exists = TRUE, !.fence[k] = b.epoch + 1]

FenceKey(b, k) ==
  [b EXCEPT !.exists = TRUE, !.epoch = @ + 1, !.fence[k] = b.epoch + 1]

\* The HEAD's verdict, its token being current.
Reconciled(b, k, row, now) ==
  [b EXCEPT !.keys[k] = row,
            !.gone[k] = IF row = NoRow THEN MaxOf(@, now) ELSE 0,
            !.fence[k] = 0,
            !.touched = Touch(b, k)]

\* Mutant: the token is not compared.
ResolveAnyToken(b, k, token, row, now) ==
  IF b.exists THEN Reconciled(b, k, row, now) ELSE b

\* Mutant: a rebuild swallows the answer.
ResolveOutsideRebuild(b, k, token, row, now) ==
  IF b.exists /\ b.fence[k] = token /\ b.rebuild = 0
  THEN Reconciled(b, k, row, now) ELSE b

\* Present replaces the row without comparing clocks; an absent key
\* (row = NoRow) is removed and tombstoned at the resolver's clock.
ResolveUncertainKey(b, k, token, row, now) ==
  IF b.exists /\ b.fence[k] = token THEN Reconciled(b, k, row, now) ELSE b

-----------------------------------------------------------------------------
(* Whole-bucket rebuilds.                                                  *)

\* Rows, tombstones and the synced flag go; fences and their epoch stay.
Reset(b, generation, rebuild) ==
  [NoBucket EXCEPT !.exists = TRUE,
                   !.gen = generation,
                   !.rebuild = rebuild,
                   !.epoch = b.epoch,
                   !.fence = b.fence]

\* Mutant: no generation owns the rebuild.
BeginBucketResyncUnowned(b) == Reset(b, b.gen + 1, 0)

BeginBucketResync(b) == Reset(b, b.gen + 1, b.gen + 1)

DiscardBuckets(b) == IF b.exists THEN Reset(b, b.gen + 1, 0) ELSE b

RemoveBucket(b) == NoBucket

\* Mutant: any scan may publish while some rebuild runs.
OwnsAnyRebuild(b, generation) == b.rebuild # 0

OwnsRebuild(b, generation) ==
  b.gen = generation /\ b.rebuild = generation /\ generation # 0

\* A LIST row is folded in unless a mutation, an exact reconciliation or a
\* fence owns its key, or the row or tombstone held is newer.
ListRowWins(b, k, row) ==
  /\ k \notin b.touched
  /\ b.fence[k] = 0
  /\ ~PutLoses(b, k, row.ts)

NoPage == [k \in Key |-> NoRow]

Keys(page) == {k \in Key : page[k] # NoRow}

\* page holds the rows of one origin LIST page, NoRow for every other key.
SyncListing(b, generation, page) ==
  IF ~OwnsRebuild(b, generation)
  THEN [b EXCEPT !.exists = TRUE]
  ELSE [b EXCEPT !.keys =
          [k \in Key |-> IF k \in Keys(page) /\ ListRowWins(b, k, page[k])
                         THEN page[k] ELSE @[k]]]

FinishBucketSync(b, generation) ==
  IF ~OwnsRebuild(b, generation)
  THEN [b EXCEPT !.exists = TRUE]
  ELSE [b EXCEPT !.synced = TRUE, !.rebuild = 0, !.touched = {}]

-----------------------------------------------------------------------------
\* No live row is at or below its own tombstone.  Every path that writes a
\* row either checks the tombstone first or drops it; the fleet image codec
\* rejects an index that breaks this as corrupt.
NoRowUnderTombstone(b) ==
  \A k \in Key : b.keys[k].ts > 0 => b.gone[k] < b.keys[k].ts

\* Every fence carries a token the bucket allocated, and no two keys share
\* one, so at most one reconciliation can resolve a fence.
FencesOwned(b) ==
  /\ \A k \in Key : b.fence[k] <= b.epoch
  /\ \A j, k \in Key : b.fence[j] = b.fence[k] /\ b.fence[k] # 0 => j = k

=============================================================================
