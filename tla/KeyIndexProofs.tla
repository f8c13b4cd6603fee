--------------------------- MODULE KeyIndexProofs ---------------------------
(***************************************************************************)
(* Every operation of the bucket index keeps a well-typed bucket in which  *)
(* no live row is at or below its tombstone and every fence has one owner. *)
(* One lemma per operation; IndexSyncProofs cites them action by action.   *)
(***************************************************************************)
EXTENDS KeyIndex, TLAPS

\* What every critical section of the index lock finds and leaves.
Sound(b) == b \in Bucket /\ NoRowUnderTombstone(b) /\ FencesOwned(b)

\* A new, empty bucket (BucketState::default()) is sound.
LEMMA NoBucketSound == Sound(NoBucket)
  BY DEF Sound, NoBucket, NoRow, Bucket, Row, NoRowUnderTombstone, FencesOwned

\* A definitive put keeps the index sound: it is rejected by an equal or newer
\* tombstone, or it drops the tombstone as a rebuild's first mutation.
LEMMA ApplyPutSound ==
  ASSUME NEW b, Sound(b), NEW k \in Key, NEW row \in Row
  PROVE  Sound(ApplyPut(b, k, row))
<1> DEFINE c == ApplyPut(b, k, row)
<1>1. CASE ~FirstRebuildMutation(b, k) /\ PutLoses(b, k, row.ts)
  <2>1. c = [b EXCEPT !.exists = TRUE]
    BY <1>1 DEF ApplyPut
  <2> QED
    BY <2>1, Zenon DEF Sound, Bucket, NoRowUnderTombstone, FencesOwned
<1>2. CASE ~(~FirstRebuildMutation(b, k) /\ PutLoses(b, k, row.ts))
  <2>1. c = [b EXCEPT !.exists = TRUE,
                      !.keys = [b.keys EXCEPT ![k] = row],
                      !.gone = [b.gone EXCEPT ![k] = IF FirstRebuildMutation(b, k)
                                                     THEN 0 ELSE b.gone[k]],
                      !.fence = [b.fence EXCEPT ![k] = 0],
                      !.touched = Touch(b, k)]
    BY <1>2 DEF ApplyPut, Sound, Bucket
  <2> HIDE DEF c
  <2>2. c \in Bucket
    BY <2>1, Zenon DEF Sound, Bucket, Row, Touch
  <2>3. NoRowUnderTombstone(c)
    BY <2>1, <1>2 DEF Sound, Bucket, Row, NoRowUnderTombstone, PutLoses
  <2>4. FencesOwned(c)
    BY <2>1 DEF Sound, Bucket, FencesOwned
  <2> QED
    BY <2>2, <2>3, <2>4 DEF Sound, c
<1> QED
  BY <1>1, <1>2

\* A delete keeps the index sound: the row it leaves behind is strictly newer
\* than the tombstone it raised.
LEMMA ApplyDelSound ==
  ASSUME NEW b, Sound(b), NEW k \in Key, NEW ts \in Nat, NEW swept \in SUBSET Key
  PROVE  Sound(ApplyDel(b, k, ts, swept))
<1> DEFINE first == FirstRebuildMutation(b, k)
           kept  == [j \in Key |-> IF j \in swept THEN 0 ELSE b.gone[j]]
           gone  == [kept EXCEPT ![k] = IF first THEN ts ELSE MaxOf(kept[k], ts)]
           loses == ~first /\ (b.keys[k].ts > ts \/ kept[k] > ts)
           c == ApplyDel(b, k, ts, swept)
<1>1. /\ kept \in [Key -> Nat] /\ gone \in [Key -> Nat]
      /\ \A j \in Key : kept[j] <= b.gone[j]
      /\ \A j \in Key \ {k} : gone[j] = kept[j]
      /\ ~first => gone[k] = IF kept[k] < ts THEN ts ELSE kept[k]
  <2>1. b.gone \in [Key -> Nat]
    BY DEF Sound, Bucket
  <2>2. kept \in [Key -> Nat] /\ \A j \in Key : kept[j] <= b.gone[j]
    BY <2>1
  <2>3. MaxOf(kept[k], ts) = IF kept[k] < ts THEN ts ELSE kept[k]
    BY DEF MaxOf
  <2> HIDE DEF kept, first
  <2> QED
    BY <2>2, <2>3
<1>2. CASE loses
  <2>1. c = [b EXCEPT !.exists = TRUE, !.gone = gone]
    BY <1>2 DEF ApplyDel
  <2> HIDE DEF c, gone, kept
  <2>2. c \in Bucket
    BY <1>1, <2>1, Zenon DEF Sound, Bucket
  <2>3. NoRowUnderTombstone(c)
    BY <1>1, <1>2, <2>1 DEF Sound, Bucket, Row, NoRowUnderTombstone
  <2>4. FencesOwned(c)
    BY <2>1 DEF Sound, Bucket, FencesOwned
  <2> QED
    BY <2>2, <2>3, <2>4 DEF Sound, c
<1>3. CASE ~loses
  <2>1. c = [b EXCEPT !.exists = TRUE,
                      !.gone = gone,
                      !.keys = [b.keys EXCEPT ![k] = NoRow],
                      !.fence = [b.fence EXCEPT ![k] = 0],
                      !.touched = Touch(b, k)]
    BY <1>3 DEF ApplyDel, Sound, Bucket
  <2> HIDE DEF c, gone, kept
  <2>2. c \in Bucket
    BY <1>1, <2>1, Zenon DEF Sound, Bucket, Row, NoRow, Touch
  <2>3. NoRowUnderTombstone(c)
    BY <1>1, <2>1 DEF Sound, Bucket, Row, NoRow, NoRowUnderTombstone
  <2>4. FencesOwned(c)
    BY <2>1 DEF Sound, Bucket, FencesOwned
  <2> QED
    BY <2>2, <2>3, <2>4 DEF Sound, c
<1> QED
  BY <1>2, <1>3

\* An observation keeps the index sound: it never beats a tombstone.
LEMMA ApplyObservedPutSound ==
  ASSUME NEW b, Sound(b), NEW k \in Key, NEW row \in Row
  PROVE  Sound(ApplyObservedPut(b, k, row))
<1> DEFINE c == ApplyObservedPut(b, k, row)
<1>1. CASE PutLoses(b, k, row.ts) \/ k \in b.touched
  <2>1. c = [b EXCEPT !.exists = TRUE]
    BY <1>1 DEF ApplyObservedPut
  <2> QED
    BY <2>1, Zenon DEF Sound, Bucket, NoRowUnderTombstone, FencesOwned
<1>2. CASE ~(PutLoses(b, k, row.ts) \/ k \in b.touched)
  <2>1. c = [b EXCEPT !.exists = TRUE, !.keys = [b.keys EXCEPT ![k] = row]]
    BY <1>2 DEF ApplyObservedPut, Sound, Bucket
  <2> HIDE DEF c
  <2>2. c \in Bucket
    BY <2>1, Zenon DEF Sound, Bucket
  <2>3. NoRowUnderTombstone(c)
    BY <2>1, <1>2 DEF Sound, Bucket, Row, NoRowUnderTombstone, PutLoses
  <2>4. FencesOwned(c)
    BY <2>1 DEF Sound, Bucket, FencesOwned
  <2> QED
    BY <2>2, <2>3, <2>4 DEF Sound, c
<1> QED
  BY <1>1, <1>2

\* Completing a row keeps the index sound: the row keeps its time.
LEMMA CompleteEntrySound ==
  ASSUME NEW b, Sound(b), NEW k \in Key, NEW v \in Nat
  PROVE  Sound(CompleteEntry(b, k, v))
<1> DEFINE c == CompleteEntry(b, k, v)
           r == b.keys[k]
           n == [ts |-> r.ts, size |-> Fill(r.size, v),
                 etag |-> Fill(r.etag, v), meta |-> Fill(r.meta, v)]
<1>1. CASE ~(Indexed(b, k) /\ SameVersion(r, v))
  BY <1>1 DEF CompleteEntry
<1>2. CASE Indexed(b, k) /\ SameVersion(r, v)
  <2>1. c = [b EXCEPT !.keys = [b.keys EXCEPT ![k] = n]]
    BY <1>2 DEF CompleteEntry, Sound, Bucket
  <2>2. n \in Row /\ n.ts = b.keys[k].ts
    BY DEF Sound, Bucket, Row, Fill
  <2> HIDE DEF c, n
  <2>3. c \in Bucket
    BY <2>1, <2>2 DEF Sound, Bucket
  <2>4. NoRowUnderTombstone(c)
    BY <2>1, <2>2 DEF Sound, Bucket, Row, NoRowUnderTombstone
  <2>5. FencesOwned(c)
    BY <2>1 DEF Sound, Bucket, FencesOwned
  <2> QED
    BY <2>3, <2>4, <2>5 DEF Sound, c
<1> QED
  BY <1>1, <1>2

\* Fencing keeps the index sound: the token is new, so no key shares it.
LEMMA FenceKeySound ==
  ASSUME NEW b, Sound(b), NEW k \in Key
  PROVE  Sound(FenceKey(b, k))
<1> DEFINE c == FenceKey(b, k)
<1>1. c = [b EXCEPT !.exists = TRUE, !.epoch = b.epoch + 1,
                    !.fence = [b.fence EXCEPT ![k] = b.epoch + 1]]
  BY DEF FenceKey, Sound, Bucket
<1> HIDE DEF c
<1>2. c \in Bucket
  <2>1. b \in Bucket /\ b.epoch + 1 \in Nat
    BY DEF Sound, Bucket
  <2>2. [b.fence EXCEPT ![k] = b.epoch + 1] \in [Key -> Nat]
    BY <2>1 DEF Bucket
  <2> QED
    BY <1>1, <2>1, <2>2, Zenon DEF Bucket
<1>3. NoRowUnderTombstone(c)
  BY <1>1 DEF Sound, Bucket, NoRowUnderTombstone
<1>4. FencesOwned(c)
  BY <1>1 DEF Sound, Bucket, FencesOwned
<1> QED
  BY <1>2, <1>3, <1>4 DEF Sound, c

\* Resolving a fence keeps the index sound: a present key loses its tombstone,
\* an absent one its row.
LEMMA ResolveSound ==
  ASSUME NEW b, Sound(b), NEW k \in Key, NEW token, NEW row \in Row, NEW now \in Nat
  PROVE  Sound(ResolveUncertainKey(b, k, token, row, now))
<1> DEFINE c == Reconciled(b, k, row, now)
           dead == IF row = NoRow THEN MaxOf(b.gone[k], now) ELSE 0
<1>1. c = [b EXCEPT !.keys = [b.keys EXCEPT ![k] = row],
                    !.gone = [b.gone EXCEPT ![k] = dead],
                    !.fence = [b.fence EXCEPT ![k] = 0],
                    !.touched = Touch(b, k)]
  BY DEF Reconciled, Sound, Bucket
<1>2. dead \in Nat /\ (row.ts > 0 => dead = 0)
  BY DEF Sound, Bucket, MaxOf, NoRow
<1> HIDE DEF c, dead
<1>3. c \in Bucket
  BY <1>1, <1>2, Zenon DEF Sound, Bucket, Touch
<1>4. NoRowUnderTombstone(c)
  BY <1>1, <1>2 DEF Sound, Bucket, Row, NoRowUnderTombstone
<1>5. FencesOwned(c)
  BY <1>1 DEF Sound, Bucket, FencesOwned
<1>6. Sound(c)
  BY <1>3, <1>4, <1>5 DEF Sound
<1> QED
  BY <1>6 DEF ResolveUncertainKey, c

\* Resetting a bucket (a rebuild's start, a gap) keeps it sound.
LEMMA ResetSound ==
  ASSUME NEW b, Sound(b)
  PROVE  Sound(BeginBucketResync(b)) /\ Sound(DiscardBuckets(b))
<1>1. ASSUME NEW g \in Nat, NEW r \in Nat PROVE Sound(Reset(b, g, r))
  BY Zenon DEF Sound, Reset, NoBucket, NoRow, Bucket, Row, NoRowUnderTombstone, FencesOwned
<1>2. b.gen + 1 \in Nat
  BY DEF Sound, Bucket
<1> QED
  BY <1>1, <1>2 DEF BeginBucketResync, DiscardBuckets

\* A LIST page keeps the index sound: its rows lose to equal or newer
\* tombstones.
LEMMA SyncListingSound ==
  ASSUME NEW b, Sound(b), NEW g, NEW page \in [Key -> Row]
  PROVE  Sound(SyncListing(b, g, page))
<1> DEFINE c == SyncListing(b, g, page)
           rows == [k \in Key |-> IF k \in Keys(page) /\ ListRowWins(b, k, page[k])
                                  THEN page[k] ELSE b.keys[k]]
<1>1. CASE ~OwnsRebuild(b, g)
  <2>1. c = [b EXCEPT !.exists = TRUE]
    BY <1>1 DEF SyncListing
  <2> QED
    BY <2>1, Zenon DEF Sound, Bucket, NoRowUnderTombstone, FencesOwned
<1>2. CASE OwnsRebuild(b, g)
  <2>1. c = [b EXCEPT !.keys = rows]
    BY <1>2 DEF SyncListing
  <2>2. rows \in [Key -> Row]
    BY DEF Sound, Bucket
  <2>3. \A k \in Key : rows[k].ts > 0 => b.gone[k] < rows[k].ts
    BY DEF Sound, Bucket, Row, NoRowUnderTombstone, ListRowWins, PutLoses
  <2> HIDE DEF c, rows
  <2>4. c \in Bucket
    BY <2>1, <2>2 DEF Sound, Bucket
  <2>5. NoRowUnderTombstone(c)
    BY <2>1, <2>2, <2>3 DEF Sound, Bucket, NoRowUnderTombstone
  <2>6. FencesOwned(c)
    BY <2>1 DEF Sound, Bucket, FencesOwned
  <2> QED
    BY <2>4, <2>5, <2>6 DEF Sound, c
<1> QED
  BY <1>1, <1>2

\* Completing a rebuild keeps the index sound: rows and fences are untouched.
LEMMA FinishSound ==
  ASSUME NEW b, Sound(b), NEW g
  PROVE  Sound(FinishBucketSync(b, g))
  BY Zenon DEF Sound, FinishBucketSync, Bucket, NoRowUnderTombstone, FencesOwned

=============================================================================
