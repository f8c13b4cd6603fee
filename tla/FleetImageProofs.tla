-------------------------- MODULE FleetImageProofs --------------------------
(***************************************************************************)
(* A capture's journal stands for the donor's index as long as it is       *)
(* active, and the follower's stage is, at every position, what the donor  *)
(* held there: for any keys, writers, bounds and settings.                 *)
(*                                                                         *)
(* The argument.  Replaying a delta depends on the transferable fields of  *)
(* a bucket alone, and every effect a donor journals replays to what its   *)
(* own index holds afterwards (the pure parts, FleetRows).  So a critical  *)
(* section of a node's index hands its capture an entry that is faithful   *)
(* to what the section did to the rows and cuts, or withdraws it           *)
(* (Faithful); a journal of faithful entries replays, position by          *)
(* position, to what the donor held (CaptureOK); an ended capture is never *)
(* mistaken for the one attached; the stage is the image with a prefix of  *)
(* its capture's journal replayed (StageOK); and an install leaves a sound *)
(* index.  FInv is the inductive invariant.                                *)
(***************************************************************************)
EXTENDS FleetImage, KeyIndexProofs

\* Most steps are first-order: Zenon is the default, steps with arithmetic or
\* with several record updates cite SMT.
USE Zenon

\* A bucket that can be imaged: no rebuild runs and no key is fenced.
Clean(b) == b.rebuild = 0 /\ \A k \in Key : b.fence[k] = 0

\* IndexDelta::apply, on the transferable fields alone.
ReplayImage(im, delta) ==
  LET k  == delta.key
      ts == delta.row.ts
  IN  CASE delta.kind = "put" ->
             IF im.gone[k] >= ts \/ im.keys[k].ts > ts THEN im
             ELSE [im EXCEPT !.keys = [im.keys EXCEPT ![k] = Skeletal(delta.row)]]
        [] delta.kind = "del" ->
             [keys |-> IF im.keys[k].ts > ts \/ im.gone[k] > ts THEN im.keys
                       ELSE [im.keys EXCEPT ![k] = NoRow],
              gone |-> [im.gone EXCEPT ![k] = MaxOf(im.gone[k], ts)]]
        [] OTHER -> im

-----------------------------------------------------------------------------
(* Rows and the transferable fields.                                       *)

\* Dropping the metadata keeps the time, and dropping it twice drops no more.
LEMMA SkeletalRow ==
  ASSUME NEW row \in Row
  PROVE  /\ Skeletal(row) \in Row /\ Skeletal(row).ts = row.ts
         /\ Skeletal(Skeletal(row)) = Skeletal(row)
  BY DEF Skeletal, Row

\* No row has no metadata to drop.
LEMMA SkeletalNoRow == Skeletal(NoRow) = NoRow /\ NoRow \in Row
  BY SMTT(20) DEF Skeletal, NoRow, Row

\* The fields of an image.
LEMMA ImageFields ==
  ASSUME NEW b \in Bucket
  PROVE  /\ Image(b).gone = b.gone /\ Image(b).keys \in [Key -> Row]
         /\ \A k \in Key : Image(b).keys[k] = Skeletal(b.keys[k])
         /\ \A k \in Key : Image(b).keys[k].ts = b.keys[k].ts
         /\ Image(b) \in [keys : [Key -> Row], gone : [Key -> Nat]]
<1>1. \A k \in Key : Skeletal(b.keys[k]) \in Row /\ Skeletal(b.keys[k]).ts = b.keys[k].ts
  BY SkeletalRow DEF Bucket
<1> QED
  BY <1>1 DEF Image, Bucket

\* An image is its own image.
LEMMA ImageOfImage ==
  ASSUME NEW b \in Bucket
  PROVE  Image(Image(b)) = Image(b)
<1>1. \A k \in Key : Skeletal(Image(b).keys[k]) = Skeletal(b.keys[k])
  BY ImageFields, SkeletalRow DEF Bucket
<1> QED
  BY <1>1 DEF Image

\* Changing one row changes one row of the image.
LEMMA ImageOfOne ==
  ASSUME NEW b \in Bucket, NEW c \in Bucket, NEW k \in Key, NEW row \in Row,
         c.keys = [b.keys EXCEPT ![k] = row]
  PROVE  Image(c).keys = [Image(b).keys EXCEPT ![k] = Skeletal(row)]
<1>1. Image(c).keys = [j \in Key |-> Skeletal(c.keys[j])]
  BY DEF Image
<1>2. Image(b).keys = [j \in Key |-> Skeletal(b.keys[j])]
  BY DEF Image
<1>3. \A j \in Key : c.keys[j] = IF j = k THEN row ELSE b.keys[j]
  BY DEF Bucket
<1>4. [Image(b).keys EXCEPT ![k] = Skeletal(row)]
        = [j \in Key |-> IF j = k THEN Skeletal(row) ELSE Skeletal(b.keys[j])]
  BY <1>2
<1>5. [j \in Key |-> Skeletal(c.keys[j])]
        = [j \in Key |-> IF j = k THEN Skeletal(row) ELSE Skeletal(b.keys[j])]
  BY <1>3
<1> QED
  BY <1>1, <1>4, <1>5

\* Buckets with the same rows and tombstones have the same image.
LEMMA ImageOfSame ==
  ASSUME NEW b, NEW c, c.keys = b.keys, c.gone = b.gone
  PROVE  Image(c) = Image(b)
  BY DEF Image

-----------------------------------------------------------------------------
(* One-key effects outside a rebuild, field by field.                      *)

\* A put outside a rebuild, field by field.
LEMMA PutFields ==
  ASSUME NEW b \in Bucket, b.rebuild = 0, NEW k \in Key, NEW row \in Row
  PROVE  LET c == ApplyPut(b, k, row)
         IN  /\ c \in Bucket /\ c.rebuild = 0 /\ c.gone = b.gone
             /\ \A j \in Key : c.fence[j] \in {0, b.fence[j]}
             /\ PutLoses(b, k, row.ts) => c.keys = b.keys
             /\ ~PutLoses(b, k, row.ts) => c.keys = [b.keys EXCEPT ![k] = row]
<1> DEFINE c == ApplyPut(b, k, row)
<1>0. ~FirstRebuildMutation(b, k)
  BY DEF FirstRebuildMutation
<1>1. CASE PutLoses(b, k, row.ts)
  <2>1. c = [b EXCEPT !.exists = TRUE]
    BY <1>0, <1>1 DEF ApplyPut
  <2> QED
    BY <1>1, <2>1 DEF Bucket
<1>2. CASE ~PutLoses(b, k, row.ts)
  <2>1. c = [b EXCEPT !.exists = TRUE, !.keys = [b.keys EXCEPT ![k] = row],
                      !.gone = [b.gone EXCEPT ![k] = b.gone[k]],
                      !.fence = [b.fence EXCEPT ![k] = 0], !.touched = Touch(b, k)]
    BY <1>0, <1>2 DEF ApplyPut, Bucket
  <2>2. [b.gone EXCEPT ![k] = b.gone[k]] = b.gone
    BY DEF Bucket
  <2> HIDE DEF c
  <2>3. c \in Bucket
    BY <2>1, <2>2 DEF Bucket, Touch
  <2>4. c.keys = [b.keys EXCEPT ![k] = row] /\ c.gone = b.gone /\ c.rebuild = b.rebuild
    BY <2>1, <2>2 DEF Bucket
  <2>5. \A j \in Key : c.fence[j] \in {0, b.fence[j]}
    BY <2>1 DEF Bucket
  <2> QED
    BY <1>2, <2>3, <2>4, <2>5 DEF c
<1> QED
  BY <1>1, <1>2

\* A delete that sweeps nothing, outside a rebuild, field by field.
LEMMA DelFields ==
  ASSUME NEW b \in Bucket, b.rebuild = 0, NEW k \in Key, NEW ts \in Nat
  PROVE  LET c == ApplyDel(b, k, ts, {})
             loses == b.keys[k].ts > ts \/ b.gone[k] > ts
         IN  /\ c \in Bucket /\ c.rebuild = 0
             /\ c.gone = [b.gone EXCEPT ![k] = MaxOf(b.gone[k], ts)]
             /\ \A j \in Key : c.fence[j] \in {0, b.fence[j]}
             /\ loses => c.keys = b.keys
             /\ ~loses => c.keys = [b.keys EXCEPT ![k] = NoRow]
<1> DEFINE c == ApplyDel(b, k, ts, {})
           kept == [j \in Key |-> IF j \in {} THEN 0 ELSE b.gone[j]]
           gone == [b.gone EXCEPT ![k] = MaxOf(b.gone[k], ts)]
           loses == b.keys[k].ts > ts \/ b.gone[k] > ts
<1>0. ~FirstRebuildMutation(b, k) /\ kept = b.gone /\ gone \in [Key -> Nat]
  BY DEF FirstRebuildMutation, Bucket, MaxOf
<1>1. CASE loses
  <2>1. c = [b EXCEPT !.exists = TRUE, !.gone = gone]
    BY <1>0, <1>1 DEF ApplyDel
  <2> HIDE DEF gone, c
  <2> QED
    BY <1>0, <1>1, <2>1 DEF Bucket, gone, c
<1>2. CASE ~loses
  <2>1. c = [b EXCEPT !.exists = TRUE, !.gone = gone, !.keys = [b.keys EXCEPT ![k] = NoRow],
                      !.fence = [b.fence EXCEPT ![k] = 0], !.touched = Touch(b, k)]
    BY <1>0, <1>2 DEF ApplyDel, Bucket
  <2> HIDE DEF gone, c
  <2>2. c \in Bucket
    BY <1>0, <2>1, SkeletalNoRow DEF Bucket, Touch
  <2>3. c.keys = [b.keys EXCEPT ![k] = NoRow] /\ c.gone = gone /\ c.rebuild = b.rebuild
    BY <2>1 DEF Bucket
  <2>4. \A j \in Key : c.fence[j] \in {0, b.fence[j]}
    BY <2>1 DEF Bucket
  <2> QED
    BY <1>2, <2>2, <2>3, <2>4 DEF gone, c
<1> QED
  BY <1>1, <1>2

\* A definitive put or delete leaves a clean index clean.
LEMMA PutClean ==
  ASSUME NEW b \in Bucket, Clean(b), NEW k \in Key, NEW row \in Row
  PROVE  Clean(ApplyPut(b, k, row))
<1> DEFINE c == ApplyPut(b, k, row)
<1>1. c.rebuild = 0 /\ \A j \in Key : c.fence[j] \in {0, b.fence[j]}
  BY PutFields DEF Clean
<1> HIDE DEF c
<1>2. Clean(c)
  BY <1>1 DEF Clean
<1> QED
  BY <1>2 DEF c

\* So does a delete.
LEMMA DelClean ==
  ASSUME NEW b \in Bucket, Clean(b), NEW k \in Key, NEW ts \in Nat
  PROVE  Clean(ApplyDel(b, k, ts, {}))
<1> DEFINE c == ApplyDel(b, k, ts, {})
<1>1. c.rebuild = 0 /\ \A j \in Key : c.fence[j] \in {0, b.fence[j]}
  BY DelFields DEF Clean
<1> HIDE DEF c
<1>2. Clean(c)
  BY <1>1 DEF Clean
<1> QED
  BY <1>2 DEF c

-----------------------------------------------------------------------------
(* Replay and the donor's effects.                                         *)

\* Replaying a delta reads and writes nothing but the transferable fields.
LEMMA ReplayOnImage ==
  ASSUME NEW b \in Bucket, b.rebuild = 0, NEW delta \in Delta
  PROVE  /\ Replay(b, delta) \in Bucket /\ Replay(b, delta).rebuild = 0
         /\ Image(Replay(b, delta)) = ReplayImage(Image(b), delta)
<1> DEFINE k == delta.key
           ts == delta.row.ts
           im == Image(b)
<1>0. /\ im.gone = b.gone /\ im.keys \in [Key -> Row] /\ im = [keys |-> im.keys, gone |-> im.gone]
      /\ \A j \in Key : im.keys[j].ts = b.keys[j].ts
  BY ImageFields DEF Image
<1>1. CASE delta.kind = "put"
  <2>1. k \in Key /\ delta.row \in Row
    BY <1>1, SMTT(20) DEF Delta, Noop
  <2> DEFINE c == ApplyPut(b, k, delta.row)
  <2>2. Replay(b, delta) = c
    BY <1>1 DEF Replay
  <2>3. PutLoses(b, k, ts) <=> im.gone[k] >= ts \/ im.keys[k].ts > ts
    BY <1>0, <2>1 DEF PutLoses
  <2>4. /\ c \in Bucket /\ c.rebuild = 0 /\ c.gone = b.gone
        /\ PutLoses(b, k, ts) => c.keys = b.keys
        /\ ~PutLoses(b, k, ts) => c.keys = [b.keys EXCEPT ![k] = delta.row]
    BY <2>1, PutFields, SMTT(20)
  <2> HIDE DEF c
  <2>5. CASE PutLoses(b, k, ts)
    <3>1. Image(c) = im
      BY <2>4, <2>5, ImageOfSame
    <3>2. ReplayImage(im, delta) = im
      BY <1>1, <2>3, <2>5 DEF ReplayImage
    <3> QED
      BY <2>2, <2>4, <3>1, <3>2
  <2>6. CASE ~PutLoses(b, k, ts)
    <3>1. Image(c).keys = [im.keys EXCEPT ![k] = Skeletal(delta.row)]
      BY <2>1, <2>4, <2>6, ImageOfOne, SMTT(20)
    <3>2. Image(c) = [keys |-> [im.keys EXCEPT ![k] = Skeletal(delta.row)], gone |-> im.gone]
      BY <1>0, <2>4, <3>1 DEF Image
    <3>3. ReplayImage(im, delta)
            = [im EXCEPT !.keys = [im.keys EXCEPT ![k] = Skeletal(delta.row)]]
      BY <1>1, <2>3, <2>6 DEF ReplayImage
    <3> HIDE DEF im
    <3> QED
      BY <1>0, <2>2, <2>4, <3>2, <3>3 DEF im
  <2> QED
    BY <2>5, <2>6
<1>2. CASE delta.kind = "del"
  <2>1. k \in Key /\ delta.row \in Row /\ ts \in Nat
    BY <1>2, SMTT(20) DEF Delta, Noop, Row
  <2> DEFINE c == ApplyDel(b, k, ts, {})
             loses == b.keys[k].ts > ts \/ b.gone[k] > ts
  <2>2. Replay(b, delta) = c
    BY <1>2 DEF Replay
  <2>3. loses <=> im.keys[k].ts > ts \/ im.gone[k] > ts
    BY <1>0, <2>1
  <2>4. /\ c \in Bucket /\ c.rebuild = 0
        /\ c.gone = [b.gone EXCEPT ![k] = MaxOf(b.gone[k], ts)]
        /\ loses => c.keys = b.keys
        /\ ~loses => c.keys = [b.keys EXCEPT ![k] = NoRow]
    BY <2>1, DelFields, SMTT(20)
  <2> HIDE DEF c, loses
  <2>5. Image(c).keys = IF loses THEN im.keys ELSE [im.keys EXCEPT ![k] = NoRow]
    <3>1. CASE loses
      BY <2>4, <3>1 DEF Image
    <3>2. CASE ~loses
      BY <2>1, <2>4, <3>2, ImageOfOne, SkeletalNoRow, SMTT(20)
    <3> QED
      BY <3>1, <3>2
  <2>6. Image(c) = [keys |-> Image(c).keys, gone |-> c.gone]
    BY DEF Image
  <2>7. ReplayImage(im, delta) = [keys |-> IF loses THEN im.keys ELSE [im.keys EXCEPT ![k] = NoRow],
                                  gone |-> [im.gone EXCEPT ![k] = MaxOf(im.gone[k], ts)]]
    BY <1>2, <2>3 DEF ReplayImage
  <2> QED
    BY <1>0, <2>2, <2>4, <2>5, <2>6, <2>7
<1>3. CASE delta.kind \notin {"put", "del"}
  BY <1>3 DEF Replay, ReplayImage
<1> QED
  BY <1>1, <1>2, <1>3

\* Journaling one row replays to that row, when neither the row before nor the
\* tombstone outranks it.
LEMMA PutOnImage ==
  ASSUME NEW b \in Bucket, NEW k \in Key, NEW row \in Row, ~PutLoses(b, k, row.ts),
         NEW c \in Bucket, c.keys = [b.keys EXCEPT ![k] = row], c.gone = b.gone
  PROVE  /\ Put(k, row) \in Delta
         /\ Image(c) = ReplayImage(Image(b), Put(k, row))
<1> DEFINE d == Put(k, row)
           im == Image(b)
           keys == [im.keys EXCEPT ![k] = Skeletal(row)]
<1>1. d \in Delta /\ d.kind = "put" /\ d.key = k /\ d.row = Skeletal(row) /\ d.row.ts = row.ts
  BY SkeletalRow DEF Put, Delta
<1>2. ~(im.gone[k] >= row.ts \/ im.keys[k].ts > row.ts)
  BY ImageFields DEF PutLoses
<1> HIDE DEF d
<1>3. ReplayImage(im, d) = [im EXCEPT !.keys = [im.keys EXCEPT ![k] = Skeletal(d.row)]]
  BY <1>1, <1>2 DEF ReplayImage
<1>4. Skeletal(d.row) = Skeletal(row)
  BY <1>1, SkeletalRow
<1>5. Image(c).keys = keys
  BY ImageOfOne, SMTT(20)
<1>6. im = [keys |-> im.keys, gone |-> b.gone] /\ Image(c) = [keys |-> Image(c).keys, gone |-> b.gone]
  BY DEF Image
<1> HIDE DEF im
<1> QED
  BY <1>1, <1>3, <1>4, <1>5, <1>6, SMTT(20) DEF d, im

\* A journaled put replays to what the put left.
LEMMA PutReplays ==
  ASSUME NEW b \in Bucket, b.rebuild = 0, NEW k \in Key, NEW row \in Row
  PROVE  /\ PutEffect(b, k, row) \in Delta
         /\ Image(ApplyPut(b, k, row)) = ReplayImage(Image(b), PutEffect(b, k, row))
<1> DEFINE c == ApplyPut(b, k, row)
<1>0. /\ c \in Bucket /\ c.gone = b.gone
      /\ PutLoses(b, k, row.ts) => c.keys = b.keys
      /\ ~PutLoses(b, k, row.ts) => c.keys = [b.keys EXCEPT ![k] = row]
  BY PutFields, SMTT(20)
<1> HIDE DEF c
<1>1. CASE PutLoses(b, k, row.ts)
  <2>1. PutEffect(b, k, row) = Noop
    BY <1>1 DEF PutEffect
  <2>2. Image(c) = Image(b)
    BY <1>0, <1>1, ImageOfSame
  <2> QED
    BY <2>1, <2>2, SMTT(20) DEF Delta, Noop, ReplayImage, c
<1>2. CASE ~PutLoses(b, k, row.ts)
  BY <1>0, <1>2, PutOnImage DEF PutEffect, c
<1> QED
  BY <1>1, <1>2

\* A journaled delete replays to what the delete left.
LEMMA DelReplays ==
  ASSUME NEW b \in Bucket, b.rebuild = 0, NoRowUnderTombstone(b), NEW k \in Key, NEW ts \in Nat
  PROVE  /\ DelEffect(b, k, ts) \in Delta
         /\ Image(ApplyDel(b, k, ts, {})) = ReplayImage(Image(b), DelEffect(b, k, ts))
<1> DEFINE c == ApplyDel(b, k, ts, {})
           loses == b.keys[k].ts > ts \/ b.gone[k] > ts
           dead == MaxOf(b.gone[k], ts)
           d == Delete(k, dead)
<1>0. /\ c \in Bucket
      /\ c.gone = [b.gone EXCEPT ![k] = dead]
      /\ loses => c.keys = b.keys
      /\ ~loses => c.keys = [b.keys EXCEPT ![k] = NoRow]
  BY DelFields, SMTT(20)
<1>1. /\ b.gone \in [Key -> Nat] /\ b.keys \in [Key -> Row] /\ b.gone[k] \in Nat /\ b.keys[k].ts \in Nat
      /\ dead \in Nat /\ dead = IF b.gone[k] < ts THEN ts ELSE b.gone[k]
  BY DEF Bucket, Row, MaxOf
<1>2. d \in Delta /\ d.kind = "del" /\ d.key = k /\ d.row.ts = dead
  BY <1>1 DEF Delete, Delta, Row, NoRow
<1>3. c.gone[k] = dead
  BY <1>0, <1>1
<1>4. DelEffect(b, k, ts) = IF dead # b.gone[k] \/ c.keys[k] # b.keys[k] THEN d ELSE Noop
  BY <1>3 DEF DelEffect
<1> HIDE DEF c, dead, d
<1>5. CASE dead # b.gone[k] \/ c.keys[k] # b.keys[k]
  <2>1. loses <=> (Image(b).keys[k].ts > dead \/ Image(b).gone[k] > dead)
    <3>1. b.keys[k].ts > 0 => b.gone[k] < b.keys[k].ts
      BY DEF NoRowUnderTombstone
    <3>2. CASE loses
      <4>1. dead # b.gone[k]
        BY <1>0, <1>5, <3>2
      <4>2. dead = ts /\ b.gone[k] < ts
        BY <1>1, <4>1
      <4> QED
        BY <3>2, <4>2, ImageFields
    <3>3. CASE ~loses
      <4>1. dead = ts
        BY <1>1, <3>3, SMTT(20)
      <4> QED
        BY <3>3, <4>1, ImageFields
    <3> QED
      BY <3>2, <3>3
  <2>2. MaxOf(Image(b).gone[k], dead) = dead
    BY <1>1, ImageFields DEF MaxOf
  <2>3. ReplayImage(Image(b), d)
          = [keys |-> IF loses THEN Image(b).keys ELSE [Image(b).keys EXCEPT ![k] = NoRow],
             gone |-> [Image(b).gone EXCEPT ![k] = dead]]
    BY <1>2, <2>1, <2>2 DEF ReplayImage
  <2>4. Image(c).keys = IF loses THEN Image(b).keys ELSE [Image(b).keys EXCEPT ![k] = NoRow]
    <3>1. CASE loses
      BY <1>0, <3>1 DEF Image
    <3>2. CASE ~loses
      BY <1>0, <3>2, ImageOfOne, SkeletalNoRow, SMTT(20)
    <3> QED
      BY <3>1, <3>2
  <2>5. Image(c) = [keys |-> Image(c).keys, gone |-> [Image(b).gone EXCEPT ![k] = dead]]
    BY <1>0 DEF Image
  <2> HIDE DEF loses
  <2> QED
    BY <1>2, <1>4, <1>5, <2>3, <2>4, <2>5 DEF c
<1>6. CASE ~(dead # b.gone[k] \/ c.keys[k] # b.keys[k])
  <2>1. c.gone = b.gone
    BY <1>0, <1>1, <1>6
  <2>2. c.keys = b.keys
    <3>1. CASE loses
      BY <1>0, <3>1
    <3>2. CASE ~loses
      <4>1. c.keys[k] = NoRow
        BY <1>0, <1>1, <3>2
      <4> QED
        BY <1>0, <1>1, <1>6, <3>2, <4>1, SMTT(20)
    <3> QED
      BY <3>1, <3>2
  <2>3. Image(c) = Image(b)
    BY <2>1, <2>2, ImageOfSame
  <2> QED
    BY <1>4, <1>6, <2>3, SMTT(20) DEF Delta, Noop, ReplayImage, c
<1> QED
  BY <1>5, <1>6

\* A journaled observation or completion replays to what it left.
LEMMA ObservedReplays ==
  ASSUME NEW b \in Bucket, NEW k \in Key, NEW row \in Row,
         ~(PutLoses(b, k, row.ts) \/ k \in b.touched)
  PROVE  /\ Put(k, row) \in Delta
         /\ Image(ApplyObservedPut(b, k, row)) = ReplayImage(Image(b), Put(k, row))
<1> DEFINE c == ApplyObservedPut(b, k, row)
<1>1. c = [b EXCEPT !.exists = TRUE, !.keys = [b.keys EXCEPT ![k] = row]]
  BY DEF ApplyObservedPut, Bucket
<1> HIDE DEF c
<1>2. c \in Bucket /\ c.keys = [b.keys EXCEPT ![k] = row] /\ c.gone = b.gone
  BY <1>1 DEF Bucket
<1> QED
  BY <1>2, PutOnImage, SMTT(20) DEF c

\* So does a completion, which keeps the time of its row.
LEMMA CompletedReplays ==
  ASSUME NEW b \in Bucket, NoRowUnderTombstone(b), NEW k \in Key, NEW v \in Nat,
         CompleteEntry(b, k, v) # b
  PROVE  LET row == CompleteEntry(b, k, v).keys[k]
         IN  /\ Put(k, row) \in Delta
             /\ Image(CompleteEntry(b, k, v)) = ReplayImage(Image(b), Put(k, row))
<1> DEFINE c == CompleteEntry(b, k, v)
           r == b.keys[k]
           n == [ts |-> r.ts, size |-> Fill(r.size, v),
                 etag |-> Fill(r.etag, v), meta |-> Fill(r.meta, v)]
<1>1. Indexed(b, k) /\ c = [b EXCEPT !.keys = [b.keys EXCEPT ![k] = n]]
  BY DEF CompleteEntry, Bucket
<1>2. n \in Row /\ n.ts = r.ts /\ r.ts \in Nat
  BY DEF Bucket, Row, Fill
<1> HIDE DEF c, n
<1>3. c \in Bucket /\ c.keys = [b.keys EXCEPT ![k] = n] /\ c.gone = b.gone /\ c.keys[k] = n
  BY <1>1, <1>2 DEF Bucket
<1>4. ~PutLoses(b, k, n.ts)
  BY <1>1, <1>2, SMTT(20) DEF PutLoses, Indexed, NoRowUnderTombstone, Bucket
<1> QED
  BY <1>2, <1>3, <1>4, PutOnImage, SMTT(20) DEF c

-----------------------------------------------------------------------------
(* The stage and the install are sound.                                    *)

\* A sound index has a sound image.
LEMMA ImageSound ==
  ASSUME NEW b, Sound(b)
  PROVE  NoRowUnderTombstone(Image(b))
  BY ImageFields DEF Sound, NoRowUnderTombstone

\* decode: the stage starts as the donor's image, sound and clean.
LEMMA DecodedSound ==
  ASSUME NEW im \in [keys : [Key -> Row], gone : [Key -> Nat]], NoRowUnderTombstone(im)
  PROVE  Sound(Decoded(im)) /\ Decoded(im).rebuild = 0
<1> DEFINE c == Decoded(im)
<1>1. c = [NoBucket EXCEPT !.exists = TRUE, !.synced = TRUE, !.keys = im.keys, !.gone = im.gone]
  BY DEF Decoded
<1>2. NoBucket \in Bucket /\ FencesOwned(NoBucket) /\ NoBucket.rebuild = 0
  BY NoBucketSound DEF Sound, NoBucket
<1> HIDE DEF c
<1>3. c \in Bucket /\ c.keys = im.keys /\ c.gone = im.gone /\ c.fence = NoBucket.fence
        /\ c.epoch = NoBucket.epoch /\ c.rebuild = 0
  BY <1>1, <1>2 DEF Bucket
<1>4. NoRowUnderTombstone(c) /\ FencesOwned(c)
  BY <1>2, <1>3 DEF NoRowUnderTombstone, FencesOwned
<1> QED
  BY <1>3, <1>4 DEF Sound, c

\* Replaying an entry keeps the stage sound.
LEMMA ReplaySound ==
  ASSUME NEW b, Sound(b), NEW delta \in Delta
  PROVE  Sound(Replay(b, delta))
<1>1. CASE delta.kind = "put"
  <2>1. delta.key \in Key /\ delta.row \in Row
    BY <1>1, SMTT(20) DEF Delta, Noop
  <2> QED
    BY <1>1, <2>1, ApplyPutSound DEF Replay
<1>2. CASE delta.kind = "del"
  <2>1. delta.key \in Key /\ delta.row.ts \in Nat /\ {} \in SUBSET Key
    BY <1>2, SMTT(20) DEF Delta, Noop, Row
  <2> QED
    BY <1>2, <2>1, ApplyDelSound DEF Replay
<1>3. CASE delta.kind \notin {"put", "del"}
  BY <1>3 DEF Replay
<1> QED
  BY <1>1, <1>2, <1>3

\* Installing a compatible candidate leaves a sound index: a carried row is
\* above both tombstones, a carried delete takes the candidate's row with it.
LEMMA InstalledSound ==
  ASSUME NEW live, Sound(live), NEW cand, Sound(cand), Compatible(live, cand)
  PROVE  Sound(Installed(live, cand))
<1> DEFINE rows == UncoveredRows(live, cand)
           dels == UncoveredDeletes(live, cand)
           keys == [k \in Key |-> IF k \in rows THEN live.keys[k]
                                  ELSE IF k \in dels THEN NoRow ELSE cand.keys[k]]
           gone == [k \in Key |-> IF k \in dels THEN MaxOf(cand.gone[k], live.gone[k])
                                  ELSE cand.gone[k]]
           c == Installed(live, cand)
<1>1. c = [cand EXCEPT !.gen = live.gen + 1, !.epoch = live.epoch, !.fence = live.fence,
                       !.keys = keys, !.gone = gone]
  BY DEF Installed
<1>2. /\ live \in Bucket /\ cand \in Bucket /\ live.gen + 1 \in Nat
      /\ live.epoch \in Nat /\ live.fence \in [Key -> Nat]
  BY SMTT(20) DEF Sound, Bucket
<1>3. keys \in [Key -> Row]
  BY <1>2, SkeletalNoRow DEF Bucket
<1>4. gone \in [Key -> Nat]
  BY <1>2 DEF Bucket, MaxOf
<1>5. \A k \in Key : keys[k].ts > 0 => gone[k] < keys[k].ts
  <2> SUFFICES ASSUME NEW k \in Key, keys[k].ts > 0
               PROVE  gone[k] < keys[k].ts
    OBVIOUS
  <2>1. /\ live.keys[k].ts \in Nat /\ live.gone[k] \in Nat
        /\ cand.keys[k].ts \in Nat /\ cand.gone[k] \in Nat
    BY <1>2 DEF Bucket, Row
  <2>2. CASE k \in rows
    <3>1. keys[k] = live.keys[k] /\ live.keys[k].ts > 0
      BY <2>2
    <3>2. live.gone[k] < live.keys[k].ts
      BY <3>1 DEF Sound, NoRowUnderTombstone
    <3>3. cand.gone[k] < live.keys[k].ts
      BY <2>1, <2>2, <3>1, SMTT(20) DEF Compatible, RowConflicts
    <3>4. gone[k] \in {cand.gone[k], live.gone[k]}
      BY DEF MaxOf
    <3> HIDE DEF keys, gone
    <3> QED
      BY <3>1, <3>2, <3>3, <3>4
  <2>3. CASE k \notin rows /\ k \in dels
    BY <2>3, SMTT(20) DEF NoRow
  <2>4. CASE k \notin rows /\ k \notin dels
    <3>1. keys[k] = cand.keys[k] /\ gone[k] = cand.gone[k]
      BY <2>4
    <3> HIDE DEF keys, gone
    <3> QED
      BY <3>1 DEF Sound, NoRowUnderTombstone
  <2> QED
    BY <2>2, <2>3, <2>4
<1> HIDE DEF c, keys, gone
<1>6. c \in Bucket
  BY <1>1, <1>2, <1>3, <1>4 DEF Bucket
<1>7. c.keys = keys /\ c.gone = gone /\ c.fence = live.fence /\ c.epoch = live.epoch
  BY <1>1, <1>2 DEF Bucket
<1>8. NoRowUnderTombstone(c)
  BY <1>5, <1>7 DEF NoRowUnderTombstone
<1>9. FencesOwned(c)
  BY <1>7 DEF Sound, FencesOwned
<1> QED
  BY <1>6, <1>8, <1>9 DEF Sound, c

-----------------------------------------------------------------------------
(* What a critical section tells its capture, and the invariant.           *)

\* An event of a kind that concerns a key names one, and a renewed life
\* begins at its position 0.
Named(e) ==
  /\ e.kind \in {"put", "del", "unknown"} => e.key \in Key
  /\ e.kind = "renewed" => e.at.seq = 0

NamedEvent == {e \in Happened : Named(e)}

EnvOK ==
  /\ setting \in Setting
  /\ origin \in [Key -> [ver : Nat, mtime : Nat]]
  /\ now \in Nat /\ written \in Nat
  /\ op \in [Writer -> [pc : {"idle", "landed", "unknown"}, key : Key \cup {0},
                        kind : {"put", "del"}, ver : Nat]]
  /\ \A w \in Writer : op[w].pc # "idle" => op[w].key \in Key
  /\ head \in Cuts
  /\ feed \in [Node -> [Writer -> Seq(NamedEvent)]]

NodeType == [b : Bucket, cuts : Cuts, members : [Writer -> Nat]]

NodesOK == node \in [Node -> NodeType] /\ \A n \in Node : Sound(node[n].b)

\* A journal's entries lead from each position of its trail to the next.
CaptureOK(c) ==
  /\ Len(c.deltas) <= MaxEvents
  /\ Len(c.trail) = Len(c.deltas) + 1
  /\ NoRowUnderTombstone(c.image) /\ Image(c.image) = c.image
  /\ c.trail[1].image = c.image
  /\ \A i \in 1..Len(c.deltas) :
       c.trail[i + 1].image = ReplayImage(c.trail[i].image, c.deltas[i])

CapsOK ==
  /\ caps \in Seq(CaptureType)
  /\ attached \in 0..Len(caps)
  /\ \A s \in DOMAIN caps : CaptureOK(caps[s])

\* JournalIsCurrent, and the donor's index can be imaged.
CaptureIsCurrent(c) ==
  /\ c.cuts = node[Donor].cuts
  /\ c.trail[Len(c.trail)] = Snapshot(node[Donor].b, node[Donor].cuts)
  /\ Clean(node[Donor].b)

Current ==
  \A s \in DOMAIN caps : caps[s].active => attached = s /\ CaptureIsCurrent(caps[s])

\* StageIsDonors, with what it takes to go on replaying.
StageOK ==
  /\ stage \in [phase : {"none", "reserved", "stored", "ready"}, serial : 0..Len(caps),
                b : Bucket, pos : Nat]
  /\ stage.phase # "none" => stage.serial \in DOMAIN caps
  /\ stage.phase \in {"reserved", "stored"} => stage.pos = 0
  /\ stage.phase = "ready" =>
       /\ Sound(stage.b) /\ stage.b.rebuild = 0
       /\ stage.pos <= Len(caps[stage.serial].deltas)
       /\ Image(stage.b) = caps[stage.serial].trail[stage.pos + 1].image

BarrierOK ==
  /\ barrier \in [serial : Nat, pos : Nat, cuts : Cuts, members : [Writer -> Nat]]
  /\ barrier.serial # 0 =>
       /\ barrier.serial \in DOMAIN caps
       /\ barrier.pos <= Len(caps[barrier.serial].deltas)
       /\ barrier.cuts = caps[barrier.serial].trail[barrier.pos + 1].cuts

Copies == NodesOK /\ CapsOK /\ Current /\ StageOK /\ BarrierOK

FInv == EnvOK /\ Copies

-----------------------------------------------------------------------------
(* Sequences.                                                              *)

\* Replacing an element of a sequence.
LEMMA SeqReplace ==
  ASSUME NEW S, NEW s \in Seq(S), NEW i \in 1..Len(s), NEW e \in S
  PROVE  [s EXCEPT ![i] = e] \in Seq(S) /\ Len([s EXCEPT ![i] = e]) = Len(s)
BY SMTT(20)

\* Dropping the first elements of a sequence.
LEMMA SeqDrop ==
  ASSUME NEW S, NEW s \in Seq(S), NEW i \in 1..Len(s)
  PROVE  SubSeq(s, i + 1, Len(s)) \in Seq(S)
BY SMTT(20)

-----------------------------------------------------------------------------
(* A journal only grows, so what the follower took of it stays true.       *)

Grows(c, e) ==
  /\ e.image = c.image /\ Len(c.deltas) <= Len(e.deltas)
  /\ \A i \in 1..(Len(c.deltas) + 1) : e.trail[i] = c.trail[i]

\* What the follower took of a journal stays in it while the journal grows.
LEMMA StageKept ==
  ASSUME CapsOK, StageOK, BarrierOK, CapsOK', UNCHANGED <<stage, barrier>>,
         Len(caps) <= Len(caps'),
         \A s \in DOMAIN caps : Grows(caps[s], caps'[s])
  PROVE  StageOK' /\ BarrierOK'
<1>1. /\ caps \in Seq(CaptureType) /\ caps' \in Seq(CaptureType)
      /\ Len(caps) \in Nat /\ Len(caps') \in Nat
      /\ DOMAIN caps = 1..Len(caps) /\ DOMAIN caps' = 1..Len(caps')
      /\ \A s \in DOMAIN caps : s \in DOMAIN caps' /\ Len(caps[s].deltas) \in Nat
                                  /\ Len(caps'[s].deltas) \in Nat
  <2>1. /\ caps \in Seq(CaptureType) /\ caps' \in Seq(CaptureType)
        /\ Len(caps) \in Nat /\ Len(caps') \in Nat
        /\ DOMAIN caps = 1..Len(caps) /\ DOMAIN caps' = 1..Len(caps')
    BY SMTT(20) DEF CapsOK
  <2>2. \A c \in CaptureType : Len(c.deltas) \in Nat
    BY SMTT(20) DEF CaptureType
  <2>3. ASSUME NEW s \in DOMAIN caps PROVE s \in DOMAIN caps'
    BY <2>1, SMTT(20)
  <2>4. /\ \A s \in DOMAIN caps : caps[s] \in CaptureType
        /\ \A s \in DOMAIN caps' : caps'[s] \in CaptureType
    BY <2>1, SMTT(20)
  <2> QED
    BY <2>1, <2>2, <2>3, <2>4
<1>a. ASSUME NEW s \in DOMAIN caps, NEW p \in Nat, p <= Len(caps[s].deltas)
      PROVE  /\ s \in DOMAIN caps' /\ p <= Len(caps'[s].deltas)
             /\ caps'[s].trail[p + 1] = caps[s].trail[p + 1]
  <2>1. p + 1 \in 1..(Len(caps[s].deltas) + 1)
    BY <1>1, <1>a, SMTT(20)
  <2>2. Grows(caps[s], caps'[s])
    OBVIOUS
  <2> QED
    BY <1>1, <1>a, <2>1, <2>2, SMTT(20) DEF Grows
<1>2. StageOK'
  <2>1. stage \in [phase : {"none", "reserved", "stored", "ready"}, serial : 0..Len(caps'),
                   b : Bucket, pos : Nat]
    BY <1>1, SMTT(20) DEF StageOK
  <2>2. ASSUME stage.phase # "none" PROVE stage.serial \in DOMAIN caps'
    BY <1>1, <2>2 DEF StageOK
  <2>3. ASSUME stage.phase = "ready"
        PROVE  /\ stage.pos <= Len(caps'[stage.serial].deltas)
               /\ caps'[stage.serial].trail[stage.pos + 1] = caps[stage.serial].trail[stage.pos + 1]
    <3>1. /\ stage.serial \in DOMAIN caps /\ stage.pos \in Nat
          /\ stage.pos <= Len(caps[stage.serial].deltas)
      BY <2>3 DEF StageOK
    <3> QED
      BY <1>a, <3>1
  <2> QED
    BY <2>1, <2>2, <2>3 DEF StageOK
<1>3. BarrierOK'
  <2>1. ASSUME barrier.serial # 0
        PROVE  /\ barrier.serial \in DOMAIN caps'
               /\ barrier.pos <= Len(caps'[barrier.serial].deltas)
               /\ caps'[barrier.serial].trail[barrier.pos + 1]
                    = caps[barrier.serial].trail[barrier.pos + 1]
    <3>1. /\ barrier.serial \in DOMAIN caps /\ barrier.pos \in Nat
          /\ barrier.pos <= Len(caps[barrier.serial].deltas)
      BY <2>1 DEF BarrierOK
    <3> QED
      BY <1>a, <3>1
  <2> QED
    BY <2>1 DEF BarrierOK
<1> QED
  BY <1>2, <1>3

-----------------------------------------------------------------------------
(* A critical section of one node's index.                                 *)

\* The entry says what the section did to the rows and cuts of an index that
\* is being captured, or withdraws the capture.
Faithful(n, b, cuts, entry) ==
  Captured(n) /\ Clean(node[n].b) =>
    \/ entry.say = "withdraw"
    \/ /\ entry.say = "nothing" /\ Clean(b)
       /\ Image(b) = Image(node[n].b) /\ cuts = node[n].cuts
    \/ /\ entry.say \in {"local", "native"} /\ entry.delta \in Delta /\ Clean(b)
       /\ Image(b) = ReplayImage(Image(node[n].b), entry.delta)
       /\ cuts = IF entry.say = "native"
                 THEN [node[n].cuts EXCEPT ![entry.writer] = entry.at] ELSE node[n].cuts

\* A snapshot is well typed.
LEMMA SnapshotTyped ==
  ASSUME NEW b \in Bucket, NEW cuts \in Cuts
  PROVE  Snapshot(b, cuts) \in [image : Rows, cuts : Cuts]
  BY ImageFields DEF Snapshot, Rows

\* The entry leads from what the node held to what it holds, or withdraws.
Leads(was, b, cuts, entry) ==
  \/ entry.say = "withdraw"
  \/ /\ entry.say = "nothing"
     /\ Image(b) = Image(was.b) /\ cuts = was.cuts
  \/ /\ entry.say \in {"local", "native"} /\ entry.delta \in Delta
     /\ Image(b) = ReplayImage(Image(was.b), entry.delta)
     /\ cuts = IF entry.say = "native"
               THEN [was.cuts EXCEPT ![entry.writer] = entry.at] ELSE was.cuts

\* An entry that tells what happened extends a good journal to a good one
\* that ends at the new snapshot; otherwise the journal is withdrawn.
LEMMA JournaledKeeps ==
  ASSUME NEW c \in CaptureType, CaptureOK(c), NEW b \in Bucket, NEW cuts \in Cuts,
         NEW was \in NodeType, NEW entry,
         c.active => /\ c.cuts = was.cuts
                     /\ c.trail[Len(c.trail)] = Snapshot(was.b, was.cuts)
                     /\ Leads(was, b, cuts, entry)
  PROVE  LET e == Journaled(c, entry, Snapshot(b, cuts))
         IN  /\ e \in CaptureType /\ CaptureOK(e) /\ Grows(c, e)
             /\ e.active => /\ c.active /\ entry.say # "withdraw"
                            /\ e.cuts = cuts /\ e.trail[Len(e.trail)] = Snapshot(b, cuts)
<1> DEFINE snap == Snapshot(b, cuts)
           e == Journaled(c, entry, snap)
<1>0. /\ c.deltas \in Seq(Delta) /\ c.trail \in Seq([image : Rows, cuts : Cuts])
      /\ Len(c.deltas) \in Nat /\ Len(c.trail) \in Nat /\ c.cuts \in Cuts
      /\ snap \in [image : Rows, cuts : Cuts] /\ snap.image = Image(b) /\ snap.cuts = cuts
  BY SnapshotTyped, SMTT(20) DEF CaptureType, Snapshot
<1> HIDE DEF snap
<1>1. CASE ~c.active
  <2>1. e = c
    BY <1>1 DEF Journaled
  <2> QED
    BY <1>1, <2>1, SMTT(20) DEF Grows, snap
<1>2. CASE c.active /\ entry.say = "nothing"
  <2>1. e = c
    BY <1>2 DEF Journaled
  <2>2. Snapshot(was.b, was.cuts) = Snapshot(b, cuts) /\ cuts = was.cuts
    BY <1>2 DEF Snapshot, Leads
  <2> QED
    BY <1>2, <2>1, <2>2, SMTT(20) DEF Grows, snap
<1>3. CASE c.active /\ entry.say # "nothing" /\ (entry.say = "withdraw" \/ Len(c.deltas) = MaxEvents)
  <2>1. e = [c EXCEPT !.active = FALSE]
    BY <1>3 DEF Journaled
  <2>2. e \in CaptureType /\ ~e.active /\ e.deltas = c.deltas /\ e.trail = c.trail
          /\ e.image = c.image
    BY <2>1 DEF CaptureType
  <2> HIDE DEF e
  <2> QED
    BY <1>0, <2>2, SMTT(20) DEF Grows, CaptureOK, snap, e
<1>4. CASE c.active /\ entry.say # "nothing" /\ ~(entry.say = "withdraw" \/ Len(c.deltas) = MaxEvents)
  <2>1. /\ entry.say \in {"local", "native"} /\ entry.delta \in Delta
        /\ Image(b) = ReplayImage(Image(was.b), entry.delta)
        /\ cuts = IF entry.say = "native"
                  THEN [was.cuts EXCEPT ![entry.writer] = entry.at] ELSE was.cuts
    BY <1>4 DEF Leads
  <2> DEFINE ds == Append(c.deltas, entry.delta)
             tr == Append(c.trail, snap)
             L  == Len(c.deltas)
  <2>2. e = [c EXCEPT !.deltas = ds, !.cuts = cuts, !.trail = tr]
    <3>1. cuts = IF entry.say = "native"
                 THEN [c.cuts EXCEPT ![entry.writer] = entry.at] ELSE c.cuts
      BY <1>4, <2>1
    <3> QED
      BY <1>4, <3>1 DEF Journaled, CaptureType
  <2>3. /\ ds \in Seq(Delta) /\ Len(ds) = L + 1 /\ ds[L + 1] = entry.delta
        /\ \A i \in 1..L : ds[i] = c.deltas[i]
    BY <1>0, <2>1, SMTT(20)
  <2>4. /\ tr \in Seq([image : Rows, cuts : Cuts]) /\ Len(tr) = L + 2 /\ tr[L + 2] = snap
        /\ \A i \in 1..(L + 1) : tr[i] = c.trail[i]
    <3>1. Len(c.trail) = L + 1
      BY DEF CaptureOK
    <3> HIDE DEF L
    <3>2. Len(tr) = Len(c.trail) + 1 /\ tr[Len(c.trail) + 1] = snap
      BY <1>0, SMTT(20)
    <3>3. tr \in Seq([image : Rows, cuts : Cuts]) /\ \A i \in 1..Len(c.trail) : tr[i] = c.trail[i]
      BY <1>0, SMTT(20)
    <3>4. L + 1 + 1 = L + 2
      BY <1>0, SMTT(20) DEF L
    <3> QED
      BY <3>1, <3>2, <3>3, <3>4
  <2>5. c.trail[L + 1].image = Image(was.b)
    <3>1. c.trail[Len(c.trail)] = Snapshot(was.b, was.cuts) /\ Len(c.trail) = L + 1
      BY <1>4 DEF CaptureOK
    <3> QED
      BY <3>1, SMTT(20) DEF Snapshot
  <2> HIDE DEF ds, tr, e
  <2>6. e \in CaptureType /\ e.deltas = ds /\ e.trail = tr /\ e.cuts = cuts /\ e.image = c.image
    BY <2>2, <2>3, <2>4 DEF CaptureType
  <2>7. \A i \in 1..(L + 1) : tr[i + 1].image = ReplayImage(tr[i].image, ds[i])
    <3> SUFFICES ASSUME NEW i \in 1..(L + 1)
                 PROVE  tr[i + 1].image = ReplayImage(tr[i].image, ds[i])
      OBVIOUS
    <3>1. CASE i = L + 1
      BY <1>0, <2>1, <2>3, <2>4, <2>5, <3>1, SMTT(20)
    <3>2. CASE i # L + 1
      <4>1. i \in 1..L /\ i + 1 \in 1..(L + 1)
        BY <1>0, <3>2, SMTT(20)
      <4> QED
        BY <2>3, <2>4, <4>1 DEF CaptureOK
    <3> QED
      BY <3>1, <3>2
  <2>8. CaptureOK(e)
    <3>1. Len(ds) <= MaxEvents
      BY <1>0, <1>4, <2>3, FleetImageAssumption, SMTT(20) DEF CaptureOK
    <3>2. tr[1] = c.trail[1]
      BY <1>0, <2>4, SMTT(20)
    <3> QED
      BY <1>0, <2>3, <2>4, <2>6, <2>7, <3>1, <3>2, SMTT(20) DEF CaptureOK
  <2>9. Grows(c, e)
    BY <1>0, <2>3, <2>4, <2>6, SMTT(20) DEF Grows
  <2> QED
    BY <1>0, <1>4, <2>4, <2>6, <2>8, <2>9 DEF snap, e
<1> QED
  BY <1>1, <1>2, <1>3, <1>4

\* A critical section that tells its capture faithfully keeps every copy.
LEMMA PublishKeeps ==
  ASSUME Copies, NEW n \in Node, NEW b, Sound(b), NEW cuts \in Cuts,
         NEW members \in [Writer -> Nat], NEW entry, Faithful(n, b, cuts, entry),
         PublishSeeing(n, b, cuts, members, entry), UNCHANGED <<attached, stage, barrier>>
  PROVE  Copies'
<1> DEFINE new == [b |-> b, cuts |-> cuts, members |-> members]
<1>0. /\ node \in [Node -> NodeType] /\ b \in Bucket /\ new \in NodeType
      /\ caps \in Seq(CaptureType) /\ attached \in 0..Len(caps) /\ Len(caps) \in Nat
      /\ DOMAIN caps = 1..Len(caps) /\ Donor \in Node
  BY SMTT(20) DEF Copies, NodesOK, CapsOK, NodeType, Sound, Node
<1>1. node' = [node EXCEPT ![n] = new]
  BY DEF PublishSeeing
<1>2. NodesOK'
  <2>1. node' \in [Node -> NodeType]
    BY <1>0, <1>1
  <2>2. ASSUME NEW m \in Node PROVE Sound(node'[m].b)
    <3>1. CASE m = n
      BY <1>0, <1>1, <3>1
    <3>2. CASE m # n
      BY <1>0, <1>1, <3>2 DEF Copies, NodesOK
    <3> QED
      BY <3>1, <3>2
  <2> QED
    BY <2>1, <2>2 DEF NodesOK
<1>3. CASE ~Captured(n)
  <2>1. caps' = caps
    BY <1>3 DEF PublishSeeing
  <2>2. CapsOK'
    BY <2>1 DEF Copies, CapsOK
  <2>3. Current'
    <3>1. CASE n = Donor
      <4>1. attached = 0
        BY <1>3, <3>1 DEF Captured
      <4>2. \A s \in DOMAIN caps : ~caps[s].active
        BY <1>0, <4>1, SMTT(20) DEF Copies, Current
      <4> QED
        BY <2>1, <4>2 DEF Current
    <3>2. CASE n # Donor
      <4>1. node'[Donor] = node[Donor]
        BY <1>0, <1>1, <3>2
      <4> QED
        BY <2>1, <4>1 DEF Copies, Current, CaptureIsCurrent
    <3> QED
      BY <3>1, <3>2
  <2>4. StageOK' /\ BarrierOK'
    BY <2>1 DEF Copies, StageOK, BarrierOK
  <2> QED
    BY <1>2, <2>2, <2>3, <2>4 DEF Copies
<1>4. CASE Captured(n)
  <2> DEFINE a == attached
             c == caps[a]
             was == node[Donor]
             e == Journaled(c, entry, Snapshot(b, cuts))
  <2>1. n = Donor /\ a \in DOMAIN caps /\ c \in CaptureType /\ CaptureOK(c) /\ was \in NodeType
    BY <1>0, <1>4, SMTT(20) DEF Captured, Copies, CapsOK
  <2>2. caps' = [caps EXCEPT ![a] = e]
    BY <1>4 DEF PublishSeeing
  <2>3. c.active => /\ CaptureIsCurrent(c) /\ Clean(was.b)
    BY <2>1, SMTT(20) DEF Copies, Current, CaptureIsCurrent
  <2>4. /\ e \in CaptureType /\ CaptureOK(e) /\ Grows(c, e)
        /\ e.active => /\ c.active /\ entry.say # "withdraw"
                       /\ e.cuts = cuts /\ e.trail[Len(e.trail)] = Snapshot(b, cuts)
    <3>1. c.active => /\ c.cuts = was.cuts
                      /\ c.trail[Len(c.trail)] = Snapshot(was.b, was.cuts)
      BY <2>3 DEF CaptureIsCurrent
    <3>2. c.active => Leads(was, b, cuts, entry)
      BY <1>4, <2>1, <2>3 DEF Faithful, Leads
    <3> HIDE DEF c, was
    <3> QED
      BY <1>0, <2>1, <3>1, <3>2, JournaledKeeps, SMTT(20)
  <2> HIDE DEF e
  <2>5. /\ caps' \in Seq(CaptureType) /\ Len(caps') = Len(caps) /\ DOMAIN caps' = DOMAIN caps
        /\ \A s \in DOMAIN caps : caps'[s] = IF s = a THEN e ELSE caps[s]
    <3>1. [caps EXCEPT ![a] = e] \in Seq(CaptureType) /\ Len([caps EXCEPT ![a] = e]) = Len(caps)
      BY <1>0, <2>1, <2>4, SeqReplace, SMTT(20)
    <3>2. DOMAIN [caps EXCEPT ![a] = e] = DOMAIN caps
      OBVIOUS
    <3>3. \A s \in DOMAIN caps : [caps EXCEPT ![a] = e][s] = IF s = a THEN e ELSE caps[s]
      OBVIOUS
    <3> QED
      BY <2>2, <3>1, <3>2, <3>3
  <2>6. CapsOK'
    BY <1>0, <2>4, <2>5 DEF Copies, CapsOK
  <2>7. Current'
    <3> SUFFICES ASSUME NEW s \in DOMAIN caps, caps'[s].active
                 PROVE  attached' = s /\ CaptureIsCurrent(caps[s])'
      BY <2>5 DEF Current
    <3>1. s = a
      BY <2>5 DEF Copies, Current
    <3>2. caps'[s] = e /\ e.active /\ c.active
      BY <2>4, <2>5, <3>1
    <3>3. node'[Donor] = new
      BY <1>0, <1>1, <2>1
    <3>4. Clean(b)
      BY <1>4, <2>1, <2>3, <2>4, <3>2 DEF Faithful
    <3> QED
      BY <2>4, <3>1, <3>2, <3>3, <3>4, SMTT(20) DEF CaptureIsCurrent
  <2>8. \A s \in DOMAIN caps : Grows(caps[s], caps'[s])
    <3>1. \A s \in DOMAIN caps : s # a => Grows(caps[s], caps'[s])
      <4>1. \A s \in DOMAIN caps : Len(caps[s].deltas) \in Nat
        BY <1>0, SMTT(20) DEF CaptureType
      <4> QED
        BY <2>5, <4>1, SMTT(20) DEF Grows
    <3> QED
      BY <2>4, <2>5, <3>1
  <2>9. StageOK' /\ BarrierOK'
    BY <1>0, <2>5, <2>6, <2>8, StageKept, SMTT(20) DEF Copies
  <2> QED
    BY <1>2, <2>6, <2>7, <2>9 DEF Copies
<1> QED
  BY <1>3, <1>4

\* note_native_cut, renew_native_writer and skip_native_gap keep cuts typed.
LEMMA CutsTyped ==
  ASSUME NEW cuts \in Cuts, NEW w \in Writer, NEW at \in Cut
  PROVE  /\ NoteCut(cuts, w, at) \in Cuts
         /\ RenewCut(cuts, w, at.epoch) \in Cuts
         /\ SkipGap(cuts, w, at) \in Cuts
<1>1. At(at.epoch, 0) \in Cut /\ at.epoch \in Nat
  BY DEF At, Cut
<1>2. \A x \in Cut : [cuts EXCEPT ![w] = x] \in Cuts
  BY DEF Cuts
<1> QED
  BY <1>1, <1>2 DEF NoteCut, RenewCut, SkipGap

\* A native effect is journaled with the cut it moves, or withdraws.
LEMMA NativeFaithful ==
  ASSUME NodesOK, NEW n \in Node, NEW b, NEW w \in Writer, NEW at \in Cut, NEW delta \in Delta,
         Captured(n) /\ Clean(node[n].b) =>
           Clean(b) /\ Image(b) = ReplayImage(Image(node[n].b), delta)
  PROVE  Faithful(n, b, NoteCut(node[n].cuts, w, at),
                  NativeEntry(node[n].cuts, w, at, delta))
<1> DEFINE cuts == node[n].cuts
           entry == NativeEntry(cuts, w, at, delta)
<1>1. CASE ~Follows(cuts, w, at)
  <2>1. entry.say = "withdraw"
    BY <1>1 DEF NativeEntry, Withdraw
  <2> QED
    BY <2>1 DEF Faithful
<1>2. CASE Follows(cuts, w, at)
  <2>1. /\ entry.say = "native" /\ entry.delta = delta /\ entry.writer = w /\ entry.at = at
    BY <1>2 DEF NativeEntry, Native
  <2>2. NoteCut(cuts, w, at) = [cuts EXCEPT ![w] = at]
    BY <1>2 DEF Follows, NoteCut
  <2> HIDE DEF entry
  <2>3. Faithful(n, b, NoteCut(cuts, w, at), entry)
    BY <2>1, <2>2 DEF Faithful
  <2> QED
    BY <2>3 DEF entry
<1> QED
  BY <1>1, <1>2

-----------------------------------------------------------------------------
(* Every critical section is faithful.                                     *)

\* What every section finds in its node.
LEMMA NodeTyped ==
  ASSUME NodesOK, NEW n \in Node
  PROVE  /\ Sound(node[n].b) /\ node[n].b \in Bucket /\ NoRowUnderTombstone(node[n].b)
         /\ node[n].cuts \in Cuts /\ node[n].members \in [Writer -> Nat]
  BY DEF NodesOK, NodeType, Sound

\* Withdrawing is always faithful.
LEMMA WithdrawnFaithful ==
  ASSUME NEW n, NEW b, NEW cuts
  PROVE  Faithful(n, b, cuts, Withdraw)
  BY DEF Faithful, Withdraw

\* What a well-named event holds.
LEMMA EventTyped ==
  ASSUME NEW e \in NamedEvent
  PROVE  /\ e \in Happened /\ e.at \in Cut /\ e.at.epoch \in Nat /\ e.row \in Row /\ e.row.ts \in Nat
         /\ e.kind \in {"put", "del", "unknown"} => e.key \in Key
         /\ e.kind = "renewed" => e.at.seq = 0
  BY DEF NamedEvent, Named, Happened, Row, Cut

\* A definitive or unknown event, or a seal, entering an index.
LEMMA ApplyNativeKeeps ==
  ASSUME Copies, NEW n \in Node, NEW w \in Writer, NEW e \in NamedEvent, ApplyNative(n, w, e),
         UNCHANGED <<attached, stage, barrier>>
  PROVE  Copies'
<1> DEFINE b == node[n].b
           cuts == NoteCut(node[n].cuts, w, e.at)
           Entry(delta) == NativeEntry(node[n].cuts, w, e.at, delta)
<1>0. /\ NodesOK /\ Sound(b) /\ b \in Bucket /\ NoRowUnderTombstone(b)
      /\ cuts \in Cuts /\ node[n].members \in [Writer -> Nat]
  BY NodeTyped, EventTyped, CutsTyped DEF Copies
<1>1. CASE e.kind = "put" /\ Publish(n, ApplyPut(b, e.key, e.row), cuts,
                                     Entry(PutEffect(b, e.key, e.row)))
  <2> DEFINE c == ApplyPut(b, e.key, e.row)
             delta == PutEffect(b, e.key, e.row)
  <2>1. e.key \in Key /\ e.row \in Row /\ e.at \in Cut
    BY <1>1, EventTyped
  <2>2. Sound(c)
    BY <1>0, <2>1, ApplyPutSound
  <2>3. Clean(b) => Clean(c) /\ Image(c) = ReplayImage(Image(b), delta)
    <3> HAVE Clean(b)
    <3>1. Clean(c)
      BY <1>0, <2>1, PutClean
    <3>2. b.rebuild = 0
      BY DEF Clean
    <3> QED
      BY <1>0, <2>1, <3>1, <3>2, PutReplays
  <2>4. delta \in Delta
    <3>1. Put(e.key, e.row) \in Delta
      BY <2>1, SkeletalRow DEF Put, Delta
    <3> QED
      BY <3>1 DEF PutEffect, Delta
  <2>5. PublishSeeing(n, c, cuts, node[n].members, Entry(delta))
    BY <1>1 DEF Publish
  <2> HIDE DEF c, delta
  <2>6. Faithful(n, c, cuts, Entry(delta))
    BY <1>0, <2>1, <2>3, <2>4, NativeFaithful, SMTT(20)
  <2> HIDE DEF cuts, Entry
  <2> QED
    BY <1>0, <2>2, <2>5, <2>6, PublishKeeps
<1>2. CASE e.kind = "del" /\ \E swept \in Sweepable(n, e.row.ts) :
                                Publish(n, ApplyDel(b, e.key, e.row.ts, swept), cuts,
                                        Entry(DelEffect(b, e.key, e.row.ts)))
  <2>0. PICK swept \in Sweepable(n, e.row.ts) :
               Publish(n, ApplyDel(b, e.key, e.row.ts, swept), cuts,
                       Entry(DelEffect(b, e.key, e.row.ts)))
    BY <1>2
  <2> DEFINE c == ApplyDel(b, e.key, e.row.ts, swept)
             delta == DelEffect(b, e.key, e.row.ts)
  <2>1. e.key \in Key /\ e.row.ts \in Nat /\ e.at \in Cut
    BY <1>2, EventTyped
  <2>2. Sound(c)
    <3>1. swept \in SUBSET Key
      BY DEF Sweepable, Expired
    <3> QED
      BY <1>0, <2>1, <3>1, ApplyDelSound
  <2>3. Captured(n) /\ Clean(b) =>
          Clean(c) /\ Image(c) = ReplayImage(Image(b), delta)
    <3> HAVE Captured(n) /\ Clean(b)
    <3>1. swept = {}
      BY DEF Sweepable
    <3>2. Image(c) = ReplayImage(Image(b), delta)
      BY <1>0, <2>1, <3>1, DelReplays DEF Clean
    <3>3. Clean(c)
      BY <1>0, <2>1, <3>1, DelClean, SMTT(20)
    <3> QED
      BY <3>2, <3>3
  <2>4. delta \in Delta
    <3> DEFINE after == ApplyDel(b, e.key, e.row.ts, {})
    <3>1. Sound(after)
      <4>1. {} \in SUBSET Key
        OBVIOUS
      <4> QED
        BY <1>0, <2>1, <4>1, ApplyDelSound
    <3> HIDE DEF after
    <3>2. after.gone[e.key] \in Nat
      BY <2>1, <3>1 DEF Sound, Bucket
    <3>3. Delete(e.key, after.gone[e.key]) \in Delta
      BY <2>1, <3>2 DEF Delete, Delta, NoRow, Row
    <3> QED
      BY <3>3 DEF DelEffect, Delta, after
  <2>5. PublishSeeing(n, c, cuts, node[n].members, Entry(delta))
    BY <2>0 DEF Publish
  <2> HIDE DEF c, delta
  <2>6. Faithful(n, c, cuts, Entry(delta))
    BY <1>0, <2>1, <2>3, <2>4, NativeFaithful
  <2> HIDE DEF cuts, Entry
  <2> QED
    BY <1>0, <2>2, <2>5, <2>6, PublishKeeps
<1>3. CASE e.kind = "unknown" /\ Publish(n, FenceKey(b, e.key), cuts, Withdraw)
  <2>1. Sound(FenceKey(b, e.key))
    BY <1>0, <1>3, EventTyped, FenceKeySound
  <2>2. PublishSeeing(n, FenceKey(b, e.key), cuts, node[n].members, Withdraw)
    BY <1>3 DEF Publish
  <2> HIDE DEF cuts
  <2> QED
    BY <1>0, <2>1, <2>2, WithdrawnFaithful, PublishKeeps
<1>4. CASE e.kind = "seal" /\ Publish(n, b, cuts, Entry(Noop))
  <2>1. Noop \in Delta /\ ReplayImage(Image(b), Noop) = Image(b)
    BY DEF Noop, Delta, ReplayImage
  <2>2. PublishSeeing(n, b, cuts, node[n].members, Entry(Noop))
    BY <1>4 DEF Publish
  <2>3. Faithful(n, b, cuts, Entry(Noop))
    BY <1>0, <2>1, EventTyped, NativeFaithful
  <2> HIDE DEF cuts, Entry
  <2> QED
    BY <1>0, <2>2, <2>3, PublishKeeps
<1> QED
  BY <1>1, <1>2, <1>3, <1>4 DEF ApplyNative

\* The members a node sees stay well typed.
LEMMA SeeingTyped ==
  ASSUME NodesOK, NEW n \in Node, NEW w \in Writer, NEW at \in Cut
  PROVE  Seeing(n, w, at) \in [Writer -> Nat]
  BY NodeTyped DEF Seeing, Cut

\* A gap discards the rows and withdraws.
LEMMA DiscardKeeps ==
  ASSUME Copies, NEW n \in Node, NEW w \in Writer, NEW at \in Cut, DiscardForGap(n, w, at),
         UNCHANGED <<attached, stage, barrier>>
  PROVE  Copies'
<1>1. /\ Sound(DiscardBuckets(node[n].b)) /\ SkipGap(node[n].cuts, w, at) \in Cuts
      /\ Seeing(n, w, at) \in [Writer -> Nat]
  BY NodeTyped, ResetSound, CutsTyped, SeeingTyped DEF Copies
<1>2. PublishSeeing(n, DiscardBuckets(node[n].b), SkipGap(node[n].cuts, w, at),
                    Seeing(n, w, at), Withdraw)
  BY DEF DiscardForGap
<1> QED
  BY <1>1, <1>2, WithdrawnFaithful, PublishKeeps

\* A renewal is journaled when the writer's sealed life was applied to its
\* end, and otherwise withdraws.
LEMMA RenewedKeeps ==
  ASSUME Copies, NEW n \in Node, NEW w \in Writer, NEW e \in NamedEvent, e.kind = "renewed",
         Renewed(n, w, e), UNCHANGED <<attached, stage, barrier>>
  PROVE  Copies'
<1> DEFINE b == node[n].b
           cuts == node[n].cuts
           new == RenewCut(cuts, w, e.at.epoch)
           entry == IF ~Renews(cuts, w, e.at.epoch) THEN Silent
                    ELSE IF cuts[w] = e.from THEN Native(w, e.at, Noop) ELSE Withdraw
<1>0. /\ Sound(b) /\ new \in Cuts /\ Seeing(n, w, e.at) \in [Writer -> Nat]
      /\ e.at = At(e.at.epoch, 0)
  <2>1. e.at \in Cut /\ e.at.seq = 0
    BY EventTyped
  <2> QED
    BY <2>1, NodeTyped, CutsTyped, SeeingTyped DEF Copies, Cut, At
<1>1. PublishSeeing(n, b, new, Seeing(n, w, e.at), entry)
  BY DEF Renewed
<1>2. Faithful(n, b, new, entry)
  <2>1. CASE ~Renews(cuts, w, e.at.epoch)
    <3>1. entry.say = "nothing" /\ new = cuts
      BY <2>1 DEF Silent, RenewCut
    <3> HIDE DEF entry
    <3> QED
      BY <3>1 DEF Faithful
  <2>2. CASE Renews(cuts, w, e.at.epoch) /\ cuts[w] = e.from
    <3>1. /\ entry.say = "native" /\ entry.delta = Noop /\ entry.writer = w /\ entry.at = e.at
      BY <2>2 DEF Native
    <3>2. new = [cuts EXCEPT ![w] = e.at]
      BY <1>0, <2>2 DEF RenewCut
    <3>3. Noop \in Delta /\ ReplayImage(Image(b), Noop) = Image(b)
      BY DEF Noop, Delta, ReplayImage
    <3> HIDE DEF entry, new
    <3> QED
      BY <3>1, <3>2, <3>3 DEF Faithful
  <2>3. CASE Renews(cuts, w, e.at.epoch) /\ cuts[w] # e.from
    <3>1. entry.say = "withdraw"
      BY <2>3 DEF Withdraw
    <3> HIDE DEF entry
    <3> QED
      BY <3>1 DEF Faithful
  <2> QED
    BY <2>1, <2>2, <2>3
<1> HIDE DEF b, new, entry
<1> QED
  BY <1>0, <1>1, <1>2, PublishKeeps

-----------------------------------------------------------------------------
(* The donor's captures.                                                   *)

SameJournal(c, e) ==
  e.image = c.image /\ e.deltas = c.deltas /\ e.trail = c.trail /\ e.cuts = c.cuts

\* What every step finds in the captures.
LEMMA CapsTyped ==
  ASSUME Copies
  PROVE  /\ CapsOK /\ caps \in Seq(CaptureType) /\ attached \in 0..Len(caps)
         /\ Len(caps) \in Nat /\ DOMAIN caps = 1..Len(caps)
         /\ \A s \in DOMAIN caps :
              /\ caps[s] \in CaptureType /\ caps[s].active \in BOOLEAN
              /\ caps[s].phase \in {"pending", "encoded", "offered", "dropped"}
              /\ Len(caps[s].deltas) \in Nat
              /\ caps[s].active => attached = s
<1>1. /\ CapsOK /\ caps \in Seq(CaptureType) /\ attached \in 0..Len(caps)
      /\ Len(caps) \in Nat /\ DOMAIN caps = 1..Len(caps)
  BY SMTT(20) DEF Copies, CapsOK
<1>2. \A c \in CaptureType : /\ c.active \in BOOLEAN /\ Len(c.deltas) \in Nat
                             /\ c.phase \in {"pending", "encoded", "offered", "dropped"}
  BY SMTT(20) DEF CaptureType
<1>3. \A s \in DOMAIN caps : caps[s] \in CaptureType
  BY <1>1, SMTT(20)
<1>4. \A s \in DOMAIN caps : caps[s].active => attached = s
  BY DEF Copies, Current
<1> QED
  BY <1>1, <1>2, <1>3, <1>4

\* Phases move and captures are withdrawn; no journal changes.
LEMMA PhaseKeeps ==
  ASSUME Copies, UNCHANGED <<node, stage, barrier>>,
         caps' \in Seq(CaptureType), Len(caps') = Len(caps), attached' \in 0..Len(caps),
         \A s \in DOMAIN caps : SameJournal(caps[s], caps'[s]),
         \A s \in DOMAIN caps : caps'[s].active => caps[s].active /\ attached' = s
  PROVE  Copies'
<1>0. DOMAIN caps' = DOMAIN caps
  BY SMTT(20) DEF Copies, CapsOK
<1>1. CapsOK'
  <2>1. \A s \in DOMAIN caps : CaptureOK(caps[s])
    BY DEF Copies, CapsOK
  <2>2. ASSUME NEW s \in DOMAIN caps PROVE CaptureOK(caps'[s])
    <3>1. CaptureOK(caps[s]) /\ SameJournal(caps[s], caps'[s])
      BY <2>1
    <3> QED
      BY <3>1 DEF CaptureOK, SameJournal
  <2> QED
    BY <1>0, <2>2 DEF CapsOK
<1>2. Current'
  BY <1>0 DEF Copies, Current, CaptureIsCurrent, SameJournal
<1>3. \A s \in DOMAIN caps : Grows(caps[s], caps'[s])
  <2>1. \A s \in DOMAIN caps : Len(caps[s].deltas) \in Nat
    BY SMTT(20) DEF Copies, CapsOK, CaptureType
  <2> QED
    BY <2>1, SMTT(20) DEF Grows, SameJournal
<1>4. Len(caps) \in Nat
  BY SMTT(20) DEF Copies, CapsOK
<1>5. StageOK' /\ BarrierOK'
  BY <1>1, <1>3, <1>4, StageKept, SMTT(20) DEF Copies
<1> QED
  BY <1>1, <1>2, <1>5 DEF Copies, NodesOK

\* One capture's phase and activity change.
Phased(new, s, ph, act) ==
  new = [caps EXCEPT ![s] = [caps[s] EXCEPT !.phase = ph, !.active = act]]

\* A change of phase leaves every journal as it is.
LEMMA OnePhase ==
  ASSUME CapsOK, NEW s \in DOMAIN caps, NEW ph \in {"pending", "encoded", "offered", "dropped"},
         NEW act \in BOOLEAN, NEW new, Phased(new, s, ph, act)
  PROVE  /\ new \in Seq(CaptureType) /\ Len(new) = Len(caps)
         /\ \A t \in DOMAIN caps : SameJournal(caps[t], new[t])
         /\ \A t \in DOMAIN caps : new[t].active = IF t = s THEN act ELSE caps[t].active
<1> DEFINE e == [caps[s] EXCEPT !.phase = ph, !.active = act]
<1>1. caps \in Seq(CaptureType) /\ s \in 1..Len(caps) /\ caps[s] \in CaptureType
  BY SMTT(20) DEF CapsOK
<1>2. e \in CaptureType /\ SameJournal(caps[s], e) /\ e.active = act
  BY <1>1 DEF CaptureType, SameJournal
<1>3. new = [caps EXCEPT ![s] = e]
  BY DEF Phased
<1> HIDE DEF e
<1>4. new \in Seq(CaptureType) /\ Len(new) = Len(caps)
  BY <1>1, <1>2, <1>3, SeqReplace, SMTT(20)
<1>5. \A t \in DOMAIN caps : new[t] = IF t = s THEN e ELSE caps[t]
  BY <1>3
<1>6. \A t \in DOMAIN caps : SameJournal(caps[t], caps[t])
  BY DEF SameJournal
<1> QED
  BY <1>2, <1>4, <1>5, <1>6

\* Encoding, offering, dropping and retiring captures touch no journal.
LEMMA CaptureEndsKeep ==
  ASSUME FInv,
         \/ RetireService
         \/ \E s \in DOMAIN caps : Encode(s) \/ Finish(s) \/ Drop(s)
  PROVE  Copies'
<1>0. /\ Copies /\ CapsOK /\ caps \in Seq(CaptureType) /\ attached \in 0..Len(caps)
      /\ Len(caps) \in Nat /\ DOMAIN caps = 1..Len(caps)
      /\ \A s \in DOMAIN caps : caps[s] \in CaptureType /\ caps[s].active \in BOOLEAN
                                  /\ (caps[s].active => attached = s)
  BY CapsTyped DEF FInv
<1>1. ASSUME NEW s \in DOMAIN caps, Encode(s) \/ Finish(s)
      PROVE  Copies'
  <2>1. PICK ph \in {"encoded", "offered"} : caps' = [caps EXCEPT ![s].phase = ph]
    BY <1>1 DEF Encode, Finish
  <2>2. Phased(caps', s, ph, caps[s].active)
    BY <1>0, <2>1 DEF CaptureType, Phased
  <2>3. UNCHANGED <<node, attached, stage, barrier>>
    BY <1>1 DEF Encode, Finish
  <2>4. /\ caps' \in Seq(CaptureType) /\ Len(caps') = Len(caps)
        /\ \A t \in DOMAIN caps : SameJournal(caps[t], caps'[t])
        /\ \A t \in DOMAIN caps : caps'[t].active = caps[t].active
    BY <1>0, <2>2, OnePhase, SMTT(20)
  <2> QED
    BY <1>0, <2>3, <2>4, PhaseKeeps
<1>2. ASSUME NEW s \in DOMAIN caps, Drop(s)
      PROVE  Copies'
  <2> DEFINE act == IF attached = s THEN FALSE ELSE caps[s].active
  <2>1. Phased(caps', s, "dropped", act)
    BY <1>0, <1>2 DEF Drop, CaptureType, Phased
  <2>2. UNCHANGED <<node, stage, barrier>> /\ attached' = IF attached = s THEN 0 ELSE attached
    BY <1>2 DEF Drop
  <2>3. act \in BOOLEAN
    BY <1>0
  <2> HIDE DEF act
  <2>4. /\ caps' \in Seq(CaptureType) /\ Len(caps') = Len(caps)
        /\ \A t \in DOMAIN caps : SameJournal(caps[t], caps'[t])
        /\ \A t \in DOMAIN caps : caps'[t].active = IF t = s THEN act ELSE caps[t].active
    BY <1>0, <2>1, <2>3, OnePhase, SMTT(20)
  <2>5. \A t \in DOMAIN caps : caps'[t].active => caps[t].active /\ attached' = t
    BY <1>0, <2>2, <2>4 DEF act
  <2>6. attached' \in 0..Len(caps)
    BY <1>0, <2>2, SMTT(20)
  <2> QED
    BY <1>0, <2>2, <2>4, <2>5, <2>6, PhaseKeeps
<1>3. CASE RetireService
  <2> DEFINE s == attached
             act == FALSE
  <2>1. s \in DOMAIN caps
    BY <1>0, <1>3, SMTT(20) DEF RetireService
  <2>2. Phased(caps', s, caps[s].phase, act)
    BY <1>0, <1>3, <2>1 DEF RetireService, Withdrawn, CaptureType, Phased
  <2>3. caps[s].phase \in {"pending", "encoded", "offered", "dropped"} /\ act \in BOOLEAN
    BY <1>0, <2>1 DEF CaptureType
  <2> HIDE DEF act, s
  <2>4. /\ caps' \in Seq(CaptureType) /\ Len(caps') = Len(caps)
        /\ \A t \in DOMAIN caps : SameJournal(caps[t], caps'[t])
        /\ \A t \in DOMAIN caps : caps'[t].active = IF t = s THEN act ELSE caps[t].active
    BY <1>0, <2>1, <2>2, <2>3, OnePhase, SMTT(20)
  <2>5. \A t \in DOMAIN caps : ~caps'[t].active
    BY <1>0, <2>4 DEF act, s
  <2>6. UNCHANGED <<node, stage, barrier>> /\ attached' \in 0..Len(caps)
    BY <1>0, <1>3, SMTT(20) DEF RetireService
  <2> QED
    BY <1>0, <2>4, <2>5, <2>6, PhaseKeeps
<1> QED
  BY <1>1, <1>2, <1>3

\* A new capture starts from the donor's index as it is, under its lock.
LEMMA CaptureKeeps ==
  ASSUME FInv, Capture
  PROVE  Copies'
<1> DEFINE d == node[Donor]
           old == BeginOver(attached)
           snap == Snapshot(d.b, d.cuts)
           new == [phase |-> "pending", active |-> TRUE, image |-> Image(d.b),
                   cuts |-> d.cuts, members |-> d.members, deltas |-> <<>>, trail |-> <<snap>>]
           L == Len(caps)
<1>0. /\ Copies /\ CapsOK /\ caps \in Seq(CaptureType) /\ attached \in 0..L
      /\ L \in Nat /\ DOMAIN caps = 1..L
      /\ \A s \in DOMAIN caps : caps[s] \in CaptureType /\ caps[s].active \in BOOLEAN
                                  /\ (caps[s].active => attached = s)
  BY CapsTyped DEF FInv
<1>1. /\ Sound(d.b) /\ d.b \in Bucket /\ d.cuts \in Cuts /\ d.members \in [Writer -> Nat]
  BY NodeTyped DEF FInv, Copies, Node
<1>2. /\ caps' = Append(old, new) /\ attached' = L + 1 /\ UNCHANGED <<node, stage, barrier>>
      /\ Capturable(d.b)
  BY DEF Capture
<1>3. /\ old \in Seq(CaptureType) /\ Len(old) = L
      /\ \A t \in DOMAIN caps : SameJournal(caps[t], old[t]) /\ ~old[t].active
  <2>1. CASE attached = 0
    BY <1>0, <2>1, SMTT(20) DEF BeginOver, SameJournal
  <2>2. CASE attached # 0
    <3> DEFINE s == attached
               act == FALSE
    <3>1. /\ s \in DOMAIN caps /\ act \in BOOLEAN
          /\ caps[s].phase \in {"pending", "encoded", "offered", "dropped"}
      BY <1>0, <2>2, CapsTyped, SMTT(20)
    <3>2. Phased(old, s, caps[s].phase, act)
      BY <1>0, <2>2, <3>1 DEF BeginOver, Withdrawn, CaptureType, Phased
    <3> HIDE DEF old, act, s
    <3>3. /\ old \in Seq(CaptureType) /\ Len(old) = Len(caps)
          /\ \A t \in DOMAIN caps : SameJournal(caps[t], old[t])
          /\ \A t \in DOMAIN caps : old[t].active = IF t = s THEN act ELSE caps[t].active
      BY <1>0, <3>1, <3>2, OnePhase, SMTT(20)
    <3> QED
      BY <1>0, <3>3 DEF act, s
  <2> QED
    BY <2>1, <2>2
<1>4. /\ snap \in [image : Rows, cuts : Cuts] /\ snap.image = Image(d.b) /\ Image(d.b) \in Rows
      /\ snap.cuts = d.cuts
  BY <1>1, SnapshotTyped DEF Snapshot
<1> HIDE DEF old, snap
<1>5. new \in CaptureType
  <2>1. <<snap>> \in Seq([image : Rows, cuts : Cuts]) /\ <<>> \in Seq(Delta)
    BY <1>4, SMTT(20)
  <2> QED
    BY <1>1, <1>4, <2>1 DEF CaptureType
<1>6. /\ new.deltas = <<>> /\ new.trail = <<snap>> /\ new.image = Image(d.b) /\ new.cuts = d.cuts
      /\ new.active /\ Len(new.deltas) = 0 /\ Len(new.trail) = 1 /\ new.trail[1] = snap
  OBVIOUS
<1>7. CaptureOK(new)
  <2>1. NoRowUnderTombstone(Image(d.b))
    BY <1>1, ImageSound
  <2> HIDE DEF new
  <2> QED
    BY <1>1, <1>4, <1>6, <2>1, ImageOfImage, FleetImageAssumption, SMTT(20) DEF CaptureOK
<1>8. CaptureIsCurrent(new)
  <2>1. Clean(d.b)
    BY <1>2 DEF Capturable, Clean
  <2> HIDE DEF new
  <2> QED
    BY <1>6, <2>1 DEF CaptureIsCurrent, snap
<1> HIDE DEF new
<1>9. /\ caps' \in Seq(CaptureType) /\ Len(caps') = L + 1 /\ DOMAIN caps' = 1..(L + 1)
      /\ caps'[L + 1] = new
      /\ \A t \in DOMAIN caps : caps'[t] = old[t]
  BY <1>0, <1>2, <1>3, <1>5, SMTT(20)
<1>10. CapsOK'
  <2>1. ASSUME NEW s \in DOMAIN caps' PROVE CaptureOK(caps'[s])
    <3>1. CASE s = L + 1
      BY <1>7, <1>9, <3>1
    <3>2. CASE s # L + 1
      <4>1. s \in DOMAIN caps
        BY <1>0, <1>9, <3>2, SMTT(20)
      <4>2. CaptureOK(caps[s]) /\ SameJournal(caps[s], caps'[s])
        BY <1>0, <1>3, <1>9, <4>1 DEF CapsOK
      <4> QED
        BY <4>2 DEF CaptureOK, SameJournal
    <3> QED
      BY <3>1, <3>2
  <2> QED
    BY <1>0, <1>2, <1>9, <2>1, SMTT(20) DEF CapsOK
<1>11. Current'
  <2> SUFFICES ASSUME NEW s \in DOMAIN caps', caps'[s].active
               PROVE  attached' = s /\ CaptureIsCurrent(caps[s])'
    BY DEF Current
  <2>1. s = L + 1
    BY <1>0, <1>3, <1>9, SMTT(20)
  <2>2. caps'[s] = new
    BY <1>9, <2>1
  <2> QED
    BY <1>2, <1>8, <2>1, <2>2 DEF CaptureIsCurrent
<1>12. \A t \in DOMAIN caps : Grows(caps[t], caps'[t])
  <2>1. \A t \in DOMAIN caps : Len(caps[t].deltas) \in Nat
    BY <1>0, SMTT(20) DEF CaptureType
  <2> QED
    BY <1>3, <1>9, <2>1, SMTT(20) DEF Grows, SameJournal
<1>13. StageOK' /\ BarrierOK'
  BY <1>0, <1>2, <1>9, <1>10, <1>12, StageKept, SMTT(20) DEF Copies
<1> QED
  BY <1>0, <1>2, <1>10, <1>11, <1>13 DEF Copies, NodesOK

-----------------------------------------------------------------------------
(* The follower's stage.                                                   *)

\* A step of the stage or the barrier alone keeps the rest.
LEMMA OnlyStageMoves ==
  ASSUME Copies, StageOK', BarrierOK', UNCHANGED <<node, caps, attached>>
  PROVE  Copies'
  BY DEF Copies, NodesOK, CapsOK, Current, CaptureIsCurrent

StageType(phases) ==
  [phase : phases, serial : 0..Len(caps), b : Bucket, pos : Nat]

\* Each step of the stage replays one more entry, or none, on what it holds.
LEMMA StageStepKeeps ==
  ASSUME FInv, StageStep
  PROVE  Copies'
<1> DEFINE ser == stage.serial
           c == caps[ser]
<1>0. /\ Copies /\ StageOK /\ BarrierOK /\ Current /\ CapsOK
      /\ stage \in StageType({"none", "reserved", "stored", "ready"})
      /\ stage.pos \in Nat /\ Len(caps) \in Nat /\ DOMAIN caps = 1..Len(caps)
      /\ NoBucket \in Bucket
  BY CapsTyped, NoBucketSound DEF FInv, Copies, StageOK, StageType, Sound
<1>1. ASSUME stage.phase # "none"
      PROVE  /\ ser \in DOMAIN caps /\ c \in CaptureType /\ CaptureOK(c)
             /\ c.deltas \in Seq(Delta) /\ Len(c.deltas) \in Nat /\ c.image \in Rows
  <2>1. ser \in DOMAIN caps
    BY <1>0, <1>1 DEF StageOK
  <2>2. c \in CaptureType /\ CaptureOK(c)
    BY <1>0, <2>1, CapsTyped DEF CapsOK
  <2>3. \A x \in CaptureType : x.deltas \in Seq(Delta) /\ Len(x.deltas) \in Nat /\ x.image \in Rows
    BY SMTT(20) DEF CaptureType
  <2> QED
    BY <2>1, <2>2, <2>3
<1>2. ASSUME NEW s \in DOMAIN caps, Reserve(s) PROVE Copies'
  <2>1. stage' = [phase |-> "reserved", serial |-> s, b |-> NoBucket, pos |-> 0]
    BY <1>2 DEF Reserve, NoStage
  <2>2. UNCHANGED <<node, caps, attached, barrier>>
    BY <1>2 DEF Reserve
  <2>3. StageOK'
    <3>1. /\ stage'.phase = "reserved" /\ stage'.serial = s /\ stage'.b = NoBucket
          /\ stage'.pos = 0 /\ s \in 0..Len(caps)
      BY <1>0, <2>1, SMTT(20)
    <3>2. stage' \in [phase : {"none", "reserved", "stored", "ready"}, serial : 0..Len(caps'),
                      b : Bucket, pos : Nat]
      BY <1>0, <2>1, <2>2, <3>1, SMTT(20)
    <3> QED
      BY <2>2, <3>1, <3>2, SMTT(20) DEF StageOK
  <2>4. BarrierOK'
    BY <1>0, <2>2 DEF BarrierOK
  <2> QED
    BY <1>0, <2>2, <2>3, <2>4, OnlyStageMoves
<1>3. CASE StoreChunks
  <2>1. stage' = [stage EXCEPT !.phase = "stored"] /\ stage.phase = "reserved"
    BY <1>3 DEF StoreChunks
  <2>2. UNCHANGED <<node, caps, attached, barrier>>
    BY <1>3 DEF StoreChunks
  <2>3. /\ stage' \in StageType({"stored"}) /\ stage'.phase = "stored"
        /\ stage'.serial = ser /\ stage'.pos = stage.pos
    BY <1>0, <2>1 DEF StageType
  <2>4. StageOK' /\ BarrierOK'
    BY <1>0, <1>1, <2>1, <2>2, <2>3 DEF StageOK, BarrierOK, StageType
  <2> QED
    BY <1>0, <2>2, <2>4, OnlyStageMoves
<1>4. CASE Verify
  <2> DEFINE d == Decoded(c.image)
  <2>1. stage' = [stage EXCEPT !.phase = "ready", !.b = d] /\ stage.phase = "stored"
    BY <1>4 DEF Verify
  <2>2. UNCHANGED <<node, caps, attached, barrier>>
    BY <1>4 DEF Verify
  <2>3. Sound(d) /\ d.rebuild = 0 /\ d \in Bucket
    BY <1>1, <2>1, DecodedSound DEF CaptureOK, Rows, Sound
  <2>4. Image(d) = c.trail[1].image
    <3>1. c.trail[1].image = c.image
      BY <1>1, <2>1 DEF CaptureOK
    <3>2. d.keys = c.image.keys /\ d.gone = c.image.gone
      BY DEF Decoded, NoBucket
    <3>3. Image(d) = Image(c.image)
      BY <3>2, ImageOfSame
    <3> QED
      BY <1>1, <2>1, <3>1, <3>3 DEF CaptureOK
  <2> HIDE DEF d
  <2>5. /\ stage' \in StageType({"ready"}) /\ stage'.phase = "ready" /\ stage'.b = d
        /\ stage'.serial = ser /\ stage'.pos = stage.pos /\ stage.pos = 0
    BY <1>0, <2>1, <2>3 DEF StageType, StageOK
  <2>6. StageOK' /\ BarrierOK'
    BY <1>0, <1>1, <2>1, <2>2, <2>3, <2>4, <2>5, SMTT(20) DEF StageOK, BarrierOK, StageType
  <2> QED
    BY <1>0, <2>2, <2>6, OnlyStageMoves
<1>5. CASE StageDelta
  <2> DEFINE delta == c.deltas[stage.pos + 1]
             r == Replay(stage.b, delta)
  <2>1. /\ stage' = [stage EXCEPT !.b = r, !.pos = stage.pos + 1] /\ stage.phase = "ready"
        /\ stage.pos < Len(c.deltas)
    BY <1>5 DEF StageDelta
  <2>2. UNCHANGED <<node, caps, attached, barrier>>
    BY <1>5 DEF StageDelta
  <2>3. /\ Sound(stage.b) /\ stage.b \in Bucket /\ stage.b.rebuild = 0
        /\ Image(stage.b) = c.trail[stage.pos + 1].image
    BY <1>0, <2>1 DEF StageOK, Sound
  <2>4. delta \in Delta /\ stage.pos + 1 \in 1..Len(c.deltas)
    BY <1>0, <1>1, <2>1, SMTT(20)
  <2>5. Sound(r) /\ r \in Bucket /\ r.rebuild = 0 /\ Image(r) = ReplayImage(Image(stage.b), delta)
    BY <2>3, <2>4, ReplaySound, ReplayOnImage
  <2>6. c.trail[stage.pos + 1 + 1].image = ReplayImage(c.trail[stage.pos + 1].image, delta)
    BY <1>1, <2>1, <2>4 DEF CaptureOK
  <2> HIDE DEF r, delta
  <2>7. /\ stage' \in StageType({"ready"}) /\ stage'.phase = "ready" /\ stage'.b = r
        /\ stage'.serial = ser /\ stage'.pos = stage.pos + 1
    <3> DEFINE p == stage.pos + 1
    <3>1. p \in Nat /\ stage' = [stage EXCEPT !.b = r, !.pos = p] /\ stage.phase = "ready"
      BY <1>0, <2>1, SMTT(20)
    <3> HIDE DEF p
    <3>2. /\ stage' \in StageType({"ready"}) /\ stage'.phase = "ready" /\ stage'.b = r
          /\ stage'.serial = ser /\ stage'.pos = p
      BY <1>0, <2>5, <3>1 DEF StageType
    <3> QED
      BY <3>2 DEF p
  <2>8. Image(r) = c.trail[stage.pos + 1 + 1].image
    BY <2>3, <2>5, <2>6
  <2>9. StageOK' /\ BarrierOK'
    <3>1. stage.pos + 1 <= Len(c.deltas) /\ ser \in DOMAIN caps
      BY <1>0, <1>1, <2>1, SMTT(20)
    <3>2. /\ stage' \in StageType({"none", "reserved", "stored", "ready"})'
          /\ stage'.phase = "ready"
      BY <2>2, <2>7 DEF StageType
    <3>3. /\ stage'.serial \in DOMAIN caps' /\ caps'[stage'.serial] = c
          /\ Sound(stage'.b) /\ stage'.b.rebuild = 0
          /\ stage'.pos <= Len(c.deltas) /\ Image(stage'.b) = c.trail[stage'.pos + 1].image
      BY <2>2, <2>5, <2>7, <2>8, <3>1
    <3> HIDE DEF c
    <3>4. StageOK'
      BY <3>2, <3>3, SMTT(20) DEF StageOK, StageType
    <3>5. BarrierOK'
      BY <1>0, <2>2 DEF BarrierOK
    <3> QED
      BY <3>4, <3>5
  <2> QED
    BY <1>0, <2>2, <2>9, OnlyStageMoves
<1>6. CASE Barrier
  <2>1. /\ barrier' = [serial |-> ser, pos |-> Len(c.deltas),
                       cuts |-> c.cuts, members |-> node[Donor].members]
        /\ stage.phase = "ready" /\ c.active /\ UNCHANGED <<node, caps, attached, stage>>
    BY <1>6, SMTT(20) DEF Barrier, Serving
  <2>2. c.cuts = node[Donor].cuts /\ c.trail[Len(c.trail)].cuts = node[Donor].cuts
    <3>1. CaptureIsCurrent(c)
      BY <1>0, <1>1, <2>1 DEF Current
    <3> HIDE DEF c
    <3> QED
      BY <3>1, SMTT(20) DEF CaptureIsCurrent, Snapshot
  <2>3. Len(c.trail) = Len(c.deltas) + 1
    BY <1>1, <2>1 DEF CaptureOK
  <2>4. node[Donor].cuts \in Cuts /\ node[Donor].members \in [Writer -> Nat]
    BY <1>0, NodeTyped DEF Copies, Node
  <2>5. ser \in Nat
    BY <1>0, <1>1, <2>1, SMTT(20)
  <2>6. BarrierOK'
    <3> DEFINE last == Len(c.deltas)
    <3>1. /\ last \in Nat /\ ser \in DOMAIN caps' /\ caps'[ser] = c
          /\ c.cuts = c.trail[last + 1].cuts
      BY <1>1, <2>1, <2>2, <2>3
    <3>2. /\ barrier' \in [serial : Nat, pos : Nat, cuts : Cuts, members : [Writer -> Nat]]
          /\ barrier'.serial = ser /\ barrier'.pos = last /\ barrier'.cuts = c.cuts
      BY <2>1, <2>2, <2>4, <2>5, <3>1
    <3>3. last <= last
      BY <3>1, SMTT(20)
    <3> HIDE DEF last, c, ser
    <3> QED
      BY <3>1, <3>2, <3>3 DEF BarrierOK, last
  <2>7. StageOK'
    BY <1>0, <2>1 DEF StageOK
  <2> QED
    BY <1>0, <2>1, <2>6, <2>7, OnlyStageMoves
<1>7. (stage' = NoStage /\ barrier' = NoBarrier /\ UNCHANGED caps) => StageOK' /\ BarrierOK'
  <2> HAVE stage' = NoStage /\ barrier' = NoBarrier /\ UNCHANGED caps
  <2>1. StageOK'
    BY <1>0, SMTT(20) DEF StageOK, NoStage
  <2>2. NoBarrier \in [serial : Nat, pos : Nat, cuts : Cuts, members : [Writer -> Nat]]
          /\ NoBarrier.serial = 0
    BY DEF NoBarrier, Cuts, Cut, NoCut
  <2> QED
    BY <2>1, <2>2 DEF BarrierOK
<1>8. CASE Install
  <2> DEFINE f == node[Follower]
             new == Installed(f.b, stage.b)
  <2>1. /\ node' = [node EXCEPT ![Follower] = [f EXCEPT !.b = new]]
        /\ stage.phase = "ready" /\ Compatible(f.b, stage.b)
        /\ stage' = NoStage /\ barrier' = NoBarrier /\ UNCHANGED <<caps, attached>>
    BY <1>8 DEF Install, MayInstall
  <2>2. /\ Donor \in Node /\ Follower \in Node /\ Donor # Follower
        /\ node \in [Node -> NodeType] /\ f \in NodeType /\ Sound(f.b)
    BY <1>0, FleetImageAssumption DEF Node, Copies, NodesOK
  <2>3. Sound(new) /\ new \in Bucket
    BY <1>0, <2>1, <2>2, InstalledSound DEF StageOK, Sound
  <2> HIDE DEF new
  <2>4. [f EXCEPT !.b = new] \in NodeType /\ [f EXCEPT !.b = new].b = new
    BY <2>2, <2>3 DEF NodeType
  <2>5. NodesOK' /\ node'[Donor] = node[Donor]
    BY <1>0, <2>1, <2>2, <2>3, <2>4 DEF Copies, NodesOK
  <2>6. CapsOK' /\ Current'
    BY <1>0, <2>1, <2>5 DEF CapsOK, Current, CaptureIsCurrent
  <2> QED
    BY <1>7, <2>1, <2>5, <2>6 DEF Copies
<1>9. CASE DiscardStage
  <2>1. stage' = NoStage /\ barrier' = NoBarrier /\ UNCHANGED <<node, caps, attached>>
    BY <1>9 DEF DiscardStage
  <2> QED
    BY <1>0, <1>7, <2>1, OnlyStageMoves
<1> QED
  BY <1>2, <1>3, <1>4, <1>5, <1>6, <1>8, <1>9, SMTT(20) DEF StageStep

-----------------------------------------------------------------------------
(* What a node learns from the origin.                                     *)

\* Rounding to whole seconds gives a time.
LEMMA OriginTimeTyped == \A t \in Nat : OriginTime(t) \in Nat
<1> SUFFICES ASSUME NEW t \in Nat PROVE OriginTime(t) \in Nat
  OBVIOUS
<1>1. WholeSeconds(t) \in Nat
  BY FleetRowsAssumption, SMTT(20) DEF WholeSeconds
<1>2. \A x \in Nat : x * Second \in Nat
  BY FleetRowsAssumption, SMTT(20)
<1> QED
  BY <1>1, <1>2 DEF OriginTime

\* What the origin answers is a row.
LEMMA OriginRowTyped ==
  ASSUME EnvOK, NEW k \in Key, NEW meta \in Nat
  PROVE  OriginRow(origin[k], meta) \in Row /\ origin[k].ver \in Nat
<1>1. origin[k].ver \in Nat /\ origin[k].mtime \in Nat
  BY DEF EnvOK
<1>2. OriginTime(origin[k].mtime) \in Nat
  BY <1>1, OriginTimeTyped
<1> QED
  BY <1>1, <1>2, SkeletalNoRow DEF OriginRow, Row

\* An observation adds or completes at most the row it journals.
LEMMA ObserveKeeps ==
  ASSUME FInv, NEW n \in Node, NEW k \in Key, Observe(n, k)
  PROVE  Copies'
<1> DEFINE b == node[n].b
           v == origin[k].ver
           row == OriginRow(origin[k], v)
           filled == CompleteEntry(b, k, v)
           cuts == node[n].cuts
<1>0. /\ Copies /\ Sound(b) /\ b \in Bucket /\ NoRowUnderTombstone(b)
      /\ cuts \in Cuts /\ node[n].members \in [Writer -> Nat]
      /\ row \in Row /\ v \in Nat /\ UNCHANGED <<attached, stage, barrier>>
  BY NodeTyped, OriginRowTyped DEF FInv, Copies, Observe
<1>1. CASE Indexed(b, k)
  <2> DEFINE entry == IF filled = b THEN Silent ELSE Local(Put(k, filled.keys[k]))
  <2>1. PublishSeeing(n, filled, cuts, node[n].members, entry)
    BY <1>1 DEF Observe, Publish
  <2>2. Sound(filled)
    BY <1>0, CompleteEntrySound
  <2>3. Faithful(n, filled, cuts, entry)
    <3>1. CASE filled = b
      <4>1. entry.say = "nothing"
        BY <3>1 DEF Silent
      <4> HIDE DEF entry, filled
      <4> QED
        BY <3>1, <4>1 DEF Faithful
    <3>2. CASE filled # b
      <4>1. entry.say = "local" /\ entry.delta = Put(k, filled.keys[k])
        BY <3>2 DEF Local
      <4>2. Put(k, filled.keys[k]) \in Delta
              /\ Image(filled) = ReplayImage(Image(b), Put(k, filled.keys[k]))
        BY <1>0, <3>2, CompletedReplays
      <4>3. Clean(b) => Clean(filled)
        <5>1. filled.rebuild = b.rebuild /\ filled.fence = b.fence
          BY <1>0 DEF CompleteEntry, Bucket
        <5> QED
          BY <5>1 DEF Clean
      <4> HIDE DEF entry, filled
      <4> QED
        BY <4>1, <4>2, <4>3 DEF Faithful
    <3> QED
      BY <3>1, <3>2
  <2> HIDE DEF entry, filled, cuts
  <2> QED
    BY <1>0, <2>1, <2>2, <2>3, PublishKeeps
<1>2. CASE ~Indexed(b, k)
  <2> DEFINE loses == PutLoses(b, k, row.ts) \/ k \in b.touched
             c == ApplyObservedPut(b, k, row)
             entry == IF loses THEN Silent ELSE Local(Put(k, row))
  <2>1. PublishSeeing(n, c, cuts, node[n].members, entry)
    BY <1>2 DEF Observe, Publish
  <2>2. Sound(c)
    BY <1>0, ApplyObservedPutSound
  <2>3. c.rebuild = b.rebuild /\ c.fence = b.fence
    BY <1>0 DEF ApplyObservedPut, Bucket
  <2>4. Clean(b) => Clean(c)
    BY <2>3 DEF Clean
  <2>5. Faithful(n, c, cuts, entry)
    <3>1. CASE loses
      <4>1. entry.say = "nothing"
        BY <3>1 DEF Silent
      <4>2. Image(c) = Image(b)
        BY <1>0, <3>1 DEF ApplyObservedPut, Image, Bucket
      <4> HIDE DEF entry, c
      <4> QED
        BY <2>4, <4>1, <4>2 DEF Faithful
    <3>2. CASE ~loses
      <4>1. entry.say = "local" /\ entry.delta = Put(k, row)
        BY <3>2 DEF Local
      <4>2. Put(k, row) \in Delta /\ Image(c) = ReplayImage(Image(b), Put(k, row))
        BY <1>0, <3>2, ObservedReplays
      <4> HIDE DEF entry, c
      <4> QED
        BY <2>4, <4>1, <4>2 DEF Faithful
    <3> QED
      BY <3>1, <3>2
  <2> HIDE DEF entry, c, cuts
  <2> QED
    BY <1>0, <2>1, <2>2, <2>5, PublishKeeps
<1> QED
  BY <1>1, <1>2

\* No key of a captured index is fenced, so a reconciliation has no effect to
\* journal.
LEMMA ResolveKeeps ==
  ASSUME FInv, NEW n \in Node, NEW k \in Key, Resolve(n, k)
  PROVE  Copies'
<1> DEFINE b == node[n].b
           row == OriginRow(origin[k], origin[k].ver)
           c == ResolveUncertainKey(b, k, b.fence[k], row, now)
<1>0. /\ Copies /\ Sound(b) /\ node[n].cuts \in Cuts /\ node[n].members \in [Writer -> Nat]
      /\ row \in Row /\ now \in Nat /\ UNCHANGED <<attached, stage, barrier>>
  BY NodeTyped, OriginRowTyped DEF FInv, Copies, EnvOK, Resolve
<1>1. Sound(c)
  BY <1>0, ResolveSound
<1>2. PublishSeeing(n, c, node[n].cuts, node[n].members, Silent)
  BY DEF Resolve, Publish
<1>3. ~Clean(b)
  BY DEF Resolve, Clean
<1>4. Faithful(n, c, node[n].cuts, Silent)
  BY <1>3 DEF Faithful
<1> HIDE DEF c
<1> QED
  BY <1>0, <1>1, <1>2, <1>4, PublishKeeps

\* A rebuild's start and end withdraw.
LEMMA ScanKeeps ==
  ASSUME FInv, NEW n \in Node, ScanBegin(n) \/ ScanEnd(n)
  PROVE  Copies'
<1> DEFINE b == node[n].b
           c == FinishBucketSync(SyncListing(b, b.rebuild, Listing), b.rebuild)
<1>0. /\ Copies /\ Sound(b) /\ node[n].cuts \in Cuts /\ node[n].members \in [Writer -> Nat]
      /\ UNCHANGED <<attached, stage, barrier>>
  BY NodeTyped DEF FInv, Copies, ScanBegin, ScanEnd
<1>1. CASE ScanBegin(n)
  <2>1. Sound(BeginBucketResync(b))
    BY <1>0, ResetSound
  <2>2. PublishSeeing(n, BeginBucketResync(b), node[n].cuts, node[n].members, Withdraw)
    BY <1>1 DEF ScanBegin, Publish
  <2> QED
    BY <1>0, <2>1, <2>2, WithdrawnFaithful, PublishKeeps
<1>2. CASE ScanEnd(n)
  <2>1. Listing \in [Key -> Row]
    BY OriginRowTyped DEF FInv, Listing
  <2>2. Sound(c)
    BY <1>0, <2>1, SyncListingSound, FinishSound
  <2>3. PublishSeeing(n, c, node[n].cuts, node[n].members, Withdraw)
    BY <1>2 DEF ScanEnd, Publish
  <2> HIDE DEF c
  <2> QED
    BY <1>0, <2>2, <2>3, WithdrawnFaithful, PublishKeeps
<1> QED
  BY <1>1, <1>2

-----------------------------------------------------------------------------
(* Writes, feeds and clocks.                                               *)

\* A feed of well-named events is well typed.
LEMMA NamedIsHappened == Seq(NamedEvent) \subseteq Seq(Happened)
<1>1. NamedEvent \subseteq Happened
  BY DEF NamedEvent
<1> QED
  BY <1>1, SMTT(20)

\* The next position of a feed, and the first of the next life.
LEMMA NextAtTyped ==
  ASSUME EnvOK, NEW w \in Writer
  PROVE  NextAt(w) \in Cut /\ At(head[w].epoch + 1, 0) \in Cut
  BY SMTT(20) DEF EnvOK, Cuts, Cut, NextAt, At

\* A feed goes on with well-named events.
LEMMA EmitTyped ==
  ASSUME EnvOK, NEW w \in Writer, NEW events \in Seq(NamedEvent), Emit(w, events)
  PROVE  feed' \in [Node -> [Writer -> Seq(NamedEvent)]]
<1>0. feed \in [Node -> [Writer -> Seq(NamedEvent)]]
  BY DEF EnvOK
<1>1. ASSUME NEW n \in Node
      PROVE  [feed[n] EXCEPT ![w] = feed[n][w] \o events] \in [Writer -> Seq(NamedEvent)]
  <2>1. feed[n] \in [Writer -> Seq(NamedEvent)] /\ feed[n][w] \in Seq(NamedEvent)
    BY <1>0
  <2>2. feed[n][w] \o events \in Seq(NamedEvent)
    BY <2>1, SMTT(20)
  <2> QED
    BY <2>1, <2>2
<1> QED
  BY <1>0, <1>1 DEF Emit

\* An event built for a key, a seal or a renewal is well named.
LEMMA HappeningNamed ==
  ASSUME NEW kind \in {"put", "del", "unknown", "seal", "crash", "renewed"}, NEW at \in Cut,
         NEW k \in Key \cup {0}, NEW row \in Row,
         kind \in {"put", "del", "unknown"} => k \in Key, kind = "renewed" => at.seq = 0
  PROVE  Happening(kind, at, k, row) \in NamedEvent
  BY DEF Happening, NamedEvent, Named, Happened, NoCut, Cut

\* An announced event is well named, in the index and on the feeds.
LEMMA AnnounceKeeps ==
  ASSUME FInv, NEW w \in Writer, NEW own \in NamedEvent, NEW sent \in NamedEvent,
         Announce(w, own, sent), now' \in Nat,
         UNCHANGED <<setting, origin, written, attached, stage, barrier>>
  PROVE  FInv'
<1>1. Copies'
  <2>1. CASE w \in Node
    <3>1. ApplyNative(w, w, own)
      BY <2>1 DEF Announce
    <3> QED
      BY <2>1, <3>1, ApplyNativeKeeps DEF FInv
  <2>2. CASE w \notin Node
    <3>1. UNCHANGED <<node, caps>>
      BY <2>2 DEF Announce
    <3>2. StageOK' /\ BarrierOK'
      BY <3>1 DEF FInv, Copies, StageOK, BarrierOK
    <3> QED
      BY <3>1, <3>2, OnlyStageMoves DEF FInv
  <2> QED
    BY <2>1, <2>2
<1>2. /\ head' = [head EXCEPT ![w] = NextAt(w)] /\ op' = [op EXCEPT ![w] = Idle]
      /\ Emit(w, <<sent>>)
  BY DEF Announce
<1>3. EnvOK /\ NextAt(w) \in Cut /\ <<sent>> \in Seq(NamedEvent)
  BY NextAtTyped, SMTT(20) DEF FInv
<1>4. feed' \in [Node -> [Writer -> Seq(NamedEvent)]]
  BY <1>2, <1>3, EmitTyped
<1>5. head' \in Cuts
  BY <1>2, <1>3 DEF EnvOK, Cuts
<1>6. /\ op' \in [Writer -> [pc : {"idle", "landed", "unknown"}, key : Key \cup {0},
                             kind : {"put", "del"}, ver : Nat]]
      /\ \A x \in Writer : op'[x].pc # "idle" => op'[x].key \in Key
  BY <1>2, <1>3 DEF EnvOK, Idle
<1>7. EnvOK'
  BY <1>3, <1>4, <1>5, <1>6 DEF EnvOK
<1> QED
  BY <1>1, <1>7 DEF FInv

\* A step that leaves indexes, captures and stage alone keeps them.
LEMMA CopiesUntouched ==
  ASSUME Copies, UNCHANGED <<node, caps, attached, stage, barrier>>
  PROVE  Copies'
<1>1. StageOK' /\ BarrierOK'
  BY DEF Copies, StageOK, BarrierOK
<1> QED
  BY <1>1, OnlyStageMoves

OpType == [pc : {"idle", "landed", "unknown"}, key : Key \cup {0}, kind : {"put", "del"}, ver : Nat]

\* A client write moves only the origin and its own operation.
LEMMA WriteKeeps ==
  ASSUME FInv, NEW w \in Writer, NEW k \in Key, NEW kind \in {"put", "del"},
         NEW outcome \in {"landed", "lost", "refused"}, Write(w, k, kind, outcome)
  PROVE  FInv'
<1> DEFINE v == written + 1
           o == IF kind = "put" THEN [ver |-> v, mtime |-> now] ELSE Absent
           p == [pc |-> IF outcome = "landed" THEN "landed" ELSE "unknown",
                 key |-> k, kind |-> kind, ver |-> v]
<1>0. EnvOK /\ written \in Nat /\ now \in Nat /\ v \in Nat
  BY SMTT(20) DEF FInv, EnvOK
<1>1. /\ written' = v /\ op' = [op EXCEPT ![w] = p]
      /\ origin' = IF outcome = "refused" THEN origin ELSE [origin EXCEPT ![k] = o]
      /\ UNCHANGED <<setting, now, head, feed, node, caps, attached, stage, barrier>>
  BY DEF Write
<1> HIDE DEF v
<1>2. o \in [ver : Nat, mtime : Nat] /\ p \in OpType /\ p.key = k
  BY <1>0 DEF Absent, OpType
<1> HIDE DEF o, p
<1>3. origin' \in [Key -> [ver : Nat, mtime : Nat]]
  BY <1>0, <1>1, <1>2 DEF EnvOK
<1>4. op' \in [Writer -> OpType] /\ \A x \in Writer : op'[x].pc # "idle" => op'[x].key \in Key
  BY <1>0, <1>1, <1>2 DEF EnvOK, OpType
<1>5. EnvOK'
  BY <1>0, <1>1, <1>3, <1>4 DEF EnvOK, OpType
<1> QED
  BY <1>1, <1>5, CopiesUntouched DEF FInv

\* A finished write is published under the key it was made for.
LEMMA RecordKeeps ==
  ASSUME FInv, NEW w \in Writer, NEW t \in Ticks, Record(w, t)
  PROVE  FInv'
<1> DEFINE row(meta) == IF op[w].kind = "del" THEN [NoRow EXCEPT !.ts = t]
                        ELSE [ts |-> t, size |-> op[w].ver, etag |-> op[w].ver, meta |-> meta]
           is(meta) == Happening(op[w].kind, NextAt(w), op[w].key, row(meta))
<1>0. /\ EnvOK /\ op[w].kind \in {"put", "del"} /\ op[w].ver \in Nat /\ op[w].key \in Key
      /\ NextAt(w) \in Cut
  BY NextAtTyped DEF FInv, EnvOK, Record
<1>1. t \in Nat
  BY TTLAssumption, SMTT(20) DEF FInv, EnvOK, Ticks
<1>2. ASSUME NEW meta \in Nat PROVE is(meta) \in NamedEvent
  <2>1. row(meta) \in Row
    BY <1>0, <1>1 DEF Row, NoRow
  <2> QED
    BY <1>0, <2>1, HappeningNamed
<1>3. Announce(w, is(op[w].ver), is(0)) /\ now' = t
  BY DEF Record
<1>4. UNCHANGED <<setting, origin, written, attached, stage, barrier>>
  BY DEF Record
<1>5. is(op[w].ver) \in NamedEvent /\ is(0) \in NamedEvent
  BY <1>0, <1>2
<1> HIDE DEF is, row
<1> QED
  BY <1>1, <1>3, <1>4, <1>5, AnnounceKeeps

\* A write with a lost answer is published under its key.
LEMMA RecordUnknownKeeps ==
  ASSUME FInv, NEW w \in Writer, RecordUnknown(w)
  PROVE  FInv'
<1> DEFINE e == Happening("unknown", NextAt(w), op[w].key, NoRow)
<1>0. op[w].key \in Key /\ NextAt(w) \in Cut /\ now \in Nat
  BY NextAtTyped DEF FInv, EnvOK, RecordUnknown
<1>1. e \in NamedEvent
  BY <1>0, SkeletalNoRow, HappeningNamed
<1>2. /\ Announce(w, e, e) /\ now' = now
      /\ UNCHANGED <<setting, origin, written, attached, stage, barrier>>
  BY DEF RecordUnknown
<1> HIDE DEF e
<1> QED
  BY <1>0, <1>1, <1>2, AnnounceKeeps

\* A restart publishes a gap, or a seal and a renewal at position 0.
LEMMA RestartKeeps ==
  ASSUME FInv, NEW w \in Writer, NEW kind \in {"seal", "crash"}, Restart(w, kind)
  PROVE  FInv'
<1> DEFINE next == At(head[w].epoch + 1, 0)
           mark == [Happening(kind, next, 0, NoRow) EXCEPT !.from = NextAt(w)]
           renewed == [mark EXCEPT !.kind = "renewed"]
           seal == Happening("seal", NextAt(w), 0, NoRow)
           events == IF kind = "crash" THEN <<mark>> ELSE <<seal, renewed>>
<1>0. EnvOK /\ NextAt(w) \in Cut /\ next \in Cut /\ next.seq = 0
  BY NextAtTyped DEF FInv, At
<1>1. Happening(kind, next, 0, NoRow) \in Happened /\ seal \in NamedEvent
  BY <1>0, SkeletalNoRow, HappeningNamed DEF NamedEvent
<1>2. mark \in NamedEvent /\ renewed \in NamedEvent
  <2> HIDE DEF next
  <2>1. mark \in Happened /\ mark.kind = kind /\ mark.at = next
    BY <1>0, <1>1 DEF Happening, Happened
  <2> HIDE DEF mark
  <2>2. renewed \in Happened /\ renewed.kind = "renewed" /\ renewed.at = next
    BY <2>1 DEF Happened
  <2> QED
    BY <1>0, <2>1, <2>2 DEF NamedEvent, Named
<1> HIDE DEF mark, renewed, seal
<1>3. events \in Seq(NamedEvent)
  BY <1>1, <1>2, SMTT(20)
<1>4. /\ Emit(w, events) /\ head' = [head EXCEPT ![w] = next] /\ op' = [op EXCEPT ![w] = Idle]
      /\ UNCHANGED <<setting, origin, now, written, node, caps, attached, stage, barrier>>
  BY DEF Restart, mark, renewed, seal
<1> HIDE DEF events, next
<1>5. feed' \in [Node -> [Writer -> Seq(NamedEvent)]]
  BY <1>0, <1>3, <1>4, EmitTyped
<1>6. head' \in Cuts
  BY <1>0, <1>4 DEF EnvOK, Cuts
<1>7. op' \in [Writer -> OpType] /\ \A x \in Writer : op'[x].pc # "idle" => op'[x].key \in Key
  BY <1>0, <1>4 DEF EnvOK, Idle, OpType
<1>8. EnvOK'
  BY <1>0, <1>4, <1>5, <1>6, <1>7 DEF EnvOK, OpType
<1> QED
  BY <1>4, <1>8, CopiesUntouched DEF FInv

\* What a feed loses at its head stays well named.
LEMMA FeedTyped ==
  ASSUME EnvOK, NEW n \in Node, NEW w \in Writer, NEW rest \in Seq(NamedEvent),
         feed' = [feed EXCEPT ![n][w] = rest],
         UNCHANGED <<setting, origin, now, written, op, head>>
  PROVE  EnvOK'
<1>1. feed' \in [Node -> [Writer -> Seq(NamedEvent)]]
  BY DEF EnvOK
<1> QED
  BY <1>1 DEF EnvOK

\* The apply loop keeps the invariant.
LEMMA DeliverKeeps ==
  ASSUME FInv, NEW n \in Node, NEW w \in Writer, Deliver(n, w)
  PROVE  FInv'
<1> DEFINE q == feed[n][w]
           e == Head(q)
<1>0. EnvOK /\ Copies /\ q \in Seq(NamedEvent) /\ q # <<>>
  BY DEF FInv, EnvOK, Deliver
<1>1. e \in NamedEvent /\ Tail(q) \in Seq(NamedEvent)
  BY <1>0, SMTT(20)
<1>2. /\ feed' = [feed EXCEPT ![n][w] = Tail(q)]
      /\ UNCHANGED <<setting, origin, now, written, op, head, attached, stage, barrier>>
  BY DEF Deliver
<1>3. EnvOK'
  BY <1>0, <1>1, <1>2, FeedTyped
<1>4. Copies'
  <2>1. CASE e.kind = "renewed" /\ Renewed(n, w, e)
    BY <1>0, <1>1, <1>2, <2>1, RenewedKeeps
  <2>2. CASE e.kind = "crash" /\ DiscardForGap(n, w, e.at)
    BY <1>0, <1>1, <1>2, <2>2, EventTyped, DiscardKeeps
  <2>3. CASE ApplyNative(n, w, e)
    BY <1>0, <1>1, <1>2, <2>3, ApplyNativeKeeps
  <2>4. CASE UNCHANGED <<node, caps>>
    BY <1>0, <1>2, <2>4, CopiesUntouched
  <2> QED
    BY <2>1, <2>2, <2>3, <2>4 DEF Deliver
<1> QED
  BY <1>3, <1>4, SMTT(20) DEF FInv

\* An overrun feed keeps the invariant.
LEMMA GapKeeps ==
  ASSUME FInv, NEW n \in Node, NEW w \in Writer, NEW i \in DOMAIN feed[n][w], Gap(n, w, i)
  PROVE  FInv'
<1> DEFINE q == feed[n][w]
<1>0. /\ EnvOK /\ Copies /\ q \in Seq(NamedEvent) /\ Len(q) \in Nat /\ i \in 1..Len(q)
      /\ q[i] \in NamedEvent
  BY SMTT(20) DEF FInv, EnvOK
<1>1. SubSeq(q, i + 1, Len(q)) \in Seq(NamedEvent)
  BY <1>0, SeqDrop
<1>2. /\ feed' = [feed EXCEPT ![n][w] = SubSeq(q, i + 1, Len(q))]
      /\ DiscardForGap(n, w, q[i].at)
      /\ UNCHANGED <<setting, origin, now, written, op, head, attached, stage, barrier>>
  BY DEF Gap
<1>3. EnvOK'
  BY <1>0, <1>1, <1>2, FeedTyped
<1>4. Copies'
  BY <1>0, <1>2, EventTyped, DiscardKeeps
<1> QED
  BY <1>3, <1>4 DEF FInv

-----------------------------------------------------------------------------
(* The invariant and the theorems.                                         *)

\* The invariant holds at the start.
LEMMA InitHolds == Init => FInv
<1> HAVE Init
<1> DEFINE d == [Decoded([keys |-> Listing, gone |-> NoBucket.gone]) EXCEPT !.gen = 1]
<1>0. /\ setting \in Setting /\ now = Second /\ Second \in Nat /\ now \in Nat
      /\ origin \in [Key -> [ver : Nat, mtime : Nat]]
  BY FleetImageAssumption, FleetRowsAssumption, SMTT(20) DEF Init, Absent
<1>1. head \in Cuts /\ \A w \in Writer : head[w] \in Cut
  BY DEF Init, Cuts, Cut, At
<1>2. EnvOK
  <2>1. op \in [Writer -> OpType] /\ \A w \in Writer : op[w].pc = "idle"
    BY DEF Init, Idle, OpType
  <2>2. feed \in [Node -> [Writer -> Seq(NamedEvent)]]
    BY SMTT(20) DEF Init
  <2> QED
    BY <1>0, <1>1, <2>1, <2>2 DEF Init, EnvOK, OpType
<1>3. Listing \in [Key -> Row]
  BY <1>2, OriginRowTyped DEF Listing
<1>4. Sound(d)
  <2> DEFINE im == [keys |-> Listing, gone |-> NoBucket.gone]
             c == Decoded(im)
  <2>1. im \in [keys : [Key -> Row], gone : [Key -> Nat]] /\ NoRowUnderTombstone(im)
    BY <1>3 DEF NoBucket, NoRowUnderTombstone, Row
  <2>2. Sound(c)
    BY <2>1, DecodedSound
  <2> HIDE DEF c
  <2>3. Sound([c EXCEPT !.gen = 1])
    BY <2>2 DEF Sound, Bucket, NoRowUnderTombstone, FencesOwned
  <2> QED
    BY <2>3 DEF c
<1>5. NodesOK
  <2>1. Node \subseteq Writer /\ FirstLives \in [Writer -> Nat] /\ NoCut \in Cut
    BY FleetImageAssumption DEF FirstLives, NoCut, Cut
  <2>2. ASSUME NEW n \in Node
        PROVE  node[n] \in NodeType /\ Sound(node[n].b)
    <3> HIDE DEF d
    <3>1. CASE n = Donor
      <4> DEFINE cuts == [w \in Writer |-> IF w = Donor \/ w \in setting.prior
                                           THEN head[w] ELSE NoCut]
      <4>1. node[n] = [b |-> d, cuts |-> cuts, members |-> FirstLives]
        BY <3>1 DEF Init, d
      <4>2. cuts \in Cuts
        BY <1>1, <2>1 DEF Cuts
      <4> HIDE DEF cuts
      <4> QED
        BY <1>4, <2>1, <4>1, <4>2, SMTT(20) DEF NodeType, Sound
    <3>2. CASE n # Donor
      <4> DEFINE cuts == [w \in Writer |-> IF w = Follower THEN head[w] ELSE NoCut]
      <4>1. node[n] = [b |-> NoBucket, cuts |-> cuts, members |-> FirstLives]
        BY <3>2 DEF Init
      <4>2. cuts \in Cuts
        BY <1>1, <2>1 DEF Cuts
      <4> HIDE DEF cuts
      <4> QED
        BY <2>1, <4>1, <4>2, NoBucketSound, SMTT(20) DEF NodeType, Sound
    <3> QED
      BY <3>1, <3>2
  <2>3. DOMAIN node = Node /\ node = [n \in Node |-> node[n]]
    BY DEF Init
  <2> QED
    BY <2>2, <2>3 DEF NodesOK
<1>6. caps = <<>> /\ attached = 0 /\ stage = NoStage /\ barrier = NoBarrier
  BY DEF Init
<1>7. CapsOK /\ Current
  BY <1>6, SMTT(20) DEF CapsOK, Current
<1>8. StageOK
  BY <1>6, NoBucketSound, SMTT(20) DEF StageOK, NoStage, Sound
<1>9. BarrierOK
  <2>1. NoBarrier \in [serial : Nat, pos : Nat, cuts : Cuts, members : [Writer -> Nat]]
          /\ NoBarrier.serial = 0
    BY DEF NoBarrier, Cuts, Cut, NoCut
  <2> QED
    BY <1>6, <2>1 DEF BarrierOK
<1> QED
  BY <1>2, <1>5, <1>7, <1>8, <1>9 DEF FInv, Copies

\* A step that leaves origin, writers and feeds alone keeps them.
LEMMA EnvUntouched ==
  ASSUME EnvOK, UNCHANGED <<setting, origin, now, written, op, head, feed>>
  PROVE  EnvOK'
  BY DEF EnvOK

\* Every step keeps the invariant, one case per action.
LEMMA NextKeeps == FInv /\ [Next]_vars => FInv'
<1> SUFFICES ASSUME FInv, [Next]_vars PROVE FInv'
  OBVIOUS
<1>1. ASSUME NEW w \in Writer, WriterStep(w) PROVE FInv'
  <2>1. ASSUME NEW k \in Key, NEW kind \in {"put", "del"},
               NEW outcome \in {"landed", "lost", "refused"}, Write(w, k, kind, outcome)
        PROVE  FInv'
    BY <2>1, WriteKeeps
  <2>2. ASSUME NEW t \in Ticks, Record(w, t) PROVE FInv'
    BY <2>2, RecordKeeps
  <2>3. CASE RecordUnknown(w)
    BY <2>3, RecordUnknownKeeps
  <2>4. ASSUME NEW kind \in {"seal", "crash"}, Restart(w, kind) PROVE FInv'
    BY <2>4, RestartKeeps
  <2> QED
    BY <1>1, <2>1, <2>2, <2>3, <2>4 DEF WriterStep
<1>2. ASSUME NEW n \in Node, NodeStep(n) PROVE FInv'
  <2>1. ASSUME NEW w \in Writer, Deliver(n, w) PROVE FInv'
    BY <2>1, DeliverKeeps
  <2>2. ASSUME NEW w \in Writer, NEW i \in DOMAIN feed[n][w], Gap(n, w, i) PROVE FInv'
    BY <2>2, GapKeeps
  <2>3. ASSUME NEW k \in Key, Observe(n, k) PROVE FInv'
    <3>1. UNCHANGED <<setting, origin, now, written, op, head, feed>>
      BY <2>3 DEF Observe
    <3> QED
      BY <2>3, <3>1, ObserveKeeps, EnvUntouched DEF FInv
  <2>4. ASSUME NEW k \in Key, Resolve(n, k) PROVE FInv'
    <3>1. UNCHANGED <<setting, origin, now, written, op, head, feed>>
      BY <2>4 DEF Resolve
    <3> QED
      BY <2>4, <3>1, ResolveKeeps, EnvUntouched DEF FInv
  <2>5. CASE ScanBegin(n) \/ ScanEnd(n)
    <3>1. UNCHANGED <<setting, origin, now, written, op, head, feed>>
      BY <2>5 DEF ScanBegin, ScanEnd
    <3> QED
      BY <2>5, <3>1, ScanKeeps, EnvUntouched DEF FInv
  <2> QED
    BY <1>2, <2>1, <2>2, <2>3, <2>4, <2>5 DEF NodeStep
<1>3. CASE CaptureStep
  <2>1. UNCHANGED <<setting, origin, now, written, op, head, feed>>
    BY <1>3 DEF CaptureStep, Capture, RetireService, Encode, Finish, Drop
  <2>2. Copies'
    BY <1>3, CaptureKeeps, CaptureEndsKeep DEF CaptureStep
  <2> QED
    BY <2>1, <2>2, EnvUntouched DEF FInv
<1>4. CASE StageStep
  <2>1. UNCHANGED <<setting, origin, now, written, op, head, feed>>
    BY <1>4 DEF StageStep, Reserve, StoreChunks, Verify, StageDelta, Barrier, Install,
                DiscardStage
  <2> QED
    BY <1>4, <2>1, StageStepKeeps, EnvUntouched DEF FInv
<1>5. CASE UNCHANGED vars
  <2>1. UNCHANGED <<setting, origin, now, written, op, head, feed>>
    BY <1>5 DEF vars
  <2>2. UNCHANGED <<node, caps, attached, stage, barrier>>
    BY <1>5 DEF vars
  <2> QED
    BY <2>1, <2>2, EnvUntouched, CopiesUntouched DEF FInv
<1> QED
  BY <1>1, <1>2, <1>3, <1>4, <1>5 DEF Next

\* The invariant gives the three properties.
LEMMA InvImplies == FInv => TypeOK /\ JournalIsCurrent /\ StageIsDonors
<1> HAVE FInv
<1>1. TypeOK
  <2>1. feed \in [Node -> [Writer -> Seq(Happened)]]
    <3>1. feed \in [Node -> [Writer -> Seq(NamedEvent)]]
      BY DEF FInv, EnvOK
    <3> QED
      BY <3>1, NamedIsHappened
  <2>2. \A s \in DOMAIN caps : Len(caps[s].deltas) <= MaxEvents
    BY DEF FInv, Copies, CapsOK, CaptureOK
  <2> QED
    BY <2>1, <2>2 DEF TypeOK, FInv, EnvOK, Copies, NodesOK, NodeType, CapsOK, StageOK, BarrierOK
<1>2. JournalIsCurrent
  BY DEF FInv, Copies, Current, CaptureIsCurrent, JournalIsCurrent
<1>3. StageIsDonors
  BY DEF FInv, Copies, StageOK, BarrierOK, StageIsDonors
<1> QED
  BY <1>1, <1>2, <1>3

\* The inductive invariant holds throughout: sound indexes, faithful journals
\* and a stage that is a replayed prefix of the journal it reads.
THEOREM InvHolds == Spec => []FInv
  BY InitHolds, NextKeeps, PTL DEF Spec

\* Type correctness of the fleet bootstrap; in particular a donor's journal
\* never outgrows JOURNAL_CONFIG.max_events.
THEOREM FleetTyped == Spec => []TypeOK
  BY InvHolds, InvImplies, PTL

\* Whatever reaches a donor's index while it is captured (writes, deletes and
\* their sweeps, observations, fences, reconciliations, rebuilds, gaps,
\* renewals), the active journal's end is the index as it is.
THEOREM JournalStaysCurrent == Spec => []JournalIsCurrent
  BY InvHolds, InvImplies, PTL

\* Replaying any prefix of the journal on the image gives the rows the donor
\* held there, and a barrier carries the cuts of its position.
THEOREM StageStaysDonors == Spec => []StageIsDonors
  BY InvHolds, InvImplies, PTL
=============================================================================
