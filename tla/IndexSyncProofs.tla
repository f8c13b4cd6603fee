--------------------------- MODULE IndexSyncProofs --------------------------
(***************************************************************************)
(* Machine-checked safety of IndexSync for every set of keys, writers,     *)
(* scans and readers, every overlap rule and every bound.                  *)
(*                                                                         *)
(* The inductive invariant Inv adds to the properties what they rest on: a *)
(* running operation or answer names a key, and only a bucket that exists  *)
(* is fenced (resolve_uncertain_key and the HEAD task's token check give   *)
(* up on a bucket that does not).                                          *)
(***************************************************************************)
EXTENDS IndexSync, KeyIndexProofs

KeysNamed ==
  /\ \A w \in Writer : op[w].pc # "idle" => op[w].key \in Key
  /\ \A r \in Reader : reader[r].pc # "idle" => reader[r].key \in Key

FencedExists == \A k \in Key : bucket.fence[k] # 0 => bucket.exists

Inv == TypeOK /\ KeysNamed /\ FencedExists /\ RowsOutliveTombstones /\ FencesHaveOwners

\* What a step must show about the bucket and the HEAD tasks, the types of the
\* other variables being kept.
Owners(b, hs) ==
  /\ \A h \in hs : h \in Reconcile
  /\ \A k \in Key : b.fence[k] # 0 =>
       b.exists /\ \E h \in hs : h.key = k /\ h.token = b.fence[k]

Rest ==
  /\ setting \in Setting
  /\ origin \in [Key -> OriginObject]
  /\ now \in Nat /\ written \in Nat
  /\ op \in [Writer -> Operation]
  /\ feed \in [Peer -> Seq(FeedEvent)]
  /\ scan \in [Scanner -> Scan]
  /\ reader \in [Reader -> Read]
  /\ KeysNamed

\* The invariant, in the parts the steps are proved by.
LEMMA InvParts == Inv <=> Sound(bucket) /\ Owners(bucket, heads) /\ Rest
  BY DEF Inv, Sound, Owners, Rest, TypeOK, RowsOutliveTombstones, FencesHaveOwners,
         FencedExists

\* The same split of the invariant after a step.
LEMMA InvPartsNext == Inv' <=> Sound(bucket') /\ Owners(bucket', heads') /\ Rest'
  BY DEF Inv, Sound, Owners, Rest, TypeOK, RowsOutliveTombstones, FencesHaveOwners,
         FencedExists

\* Origin times stay natural numbers when cut to whole seconds.
LEMMA OriginTimeNat == ASSUME NEW t \in Nat PROVE OriginTime(t) \in Nat
<1>1. t \div Second \in Nat
  BY IndexSyncAssumption
<1> QED
  BY <1>1, IndexSyncAssumption DEF OriginTime

\* LIST and HEAD describe an object by a well-formed row.
LEMMA OriginRows ==
  ASSUME NEW o \in OriginObject PROVE ListRow(o) \in Row /\ HeadRow(o) \in Row
<1>1. OriginTime(o.mtime) \in Nat /\ o.ver \in Nat
  BY OriginTimeNat DEF OriginObject
<1> QED
  BY <1>1 DEF ListRow, HeadRow, Row, NoRow

\* A finished write describes itself by a well-formed row.
LEMMA WriteRows ==
  ASSUME NEW w \in Writer, op[w] \in Operation, NEW row \in RowShapes(w)
  PROVE  row \in Row
  BY DEF RowShapes, WriteRow, Operation, Row, NoRow

\* The initial index, empty or just rebuilt, satisfies the invariant.
LEMMA InitInv == Init => Inv
<1> SUFFICES ASSUME Init PROVE Inv
  OBVIOUS
<1>1. Second \in Nat /\ Second # 0
  BY IndexSyncAssumption
<1>2. origin \in [Key -> OriginObject]
  BY <1>1 DEF Init, OriginObject, Absent
<1>3. \A k \in Key : ListRow(origin[k]) \in Row
  <2> TAKE k \in Key
  <2>1. origin[k] \in OriginObject
    BY <1>2
  <2> QED
    BY <2>1, OriginRows
<1>4. Sound(Rebuilt(origin)) /\ Owners(Rebuilt(origin), {})
  <2> DEFINE rows == [k \in Key |-> ListRow(origin[k])]
             c == Rebuilt(origin)
  <2>1. rows \in [Key -> Row]
    BY <1>3
  <2> HIDE DEF rows
  <2>2. /\ c \in Bucket /\ c.keys = rows
        /\ \A k \in Key : c.gone[k] = 0 /\ c.fence[k] = 0
    BY <2>1, Zenon DEF Rebuilt, NoBucket, Bucket, rows
  <2> HIDE DEF c
  <2>3. NoRowUnderTombstone(c) /\ FencesOwned(c)
    BY <2>1, <2>2 DEF Bucket, Row, NoRowUnderTombstone, FencesOwned
  <2> QED
    BY <2>2, <2>3 DEF Sound, Owners, c
<1>5. Sound(NoBucket) /\ Owners(NoBucket, {})
  BY NoBucketSound DEF NoBucket, Owners
<1>6. op \in [Writer -> Operation] /\ reader \in [Reader -> Read] /\ KeysNamed
  BY DEF Init, Idle, Operation, NoRead, Read, KeysNamed
<1>7. scan \in [Scanner -> Scan]
  BY DEF Init, NoScan, Scan, NoRange, KeyRange, Lower, NoPage, Row, NoRow
<1>8. feed \in [Peer -> Seq(FeedEvent)]
  BY DEF Init
<1>9. now \in Nat /\ written \in Nat /\ setting \in Setting
  BY <1>1, IndexSyncAssumption DEF Init
<1>10. Sound(bucket) /\ Owners(bucket, heads)
  BY <1>4, <1>5 DEF Init
<1> QED
  BY <1>2, <1>6, <1>7, <1>8, <1>9, <1>10, InvParts DEF Rest


-----------------------------------------------------------------------------
(* Steps of the index, by what they do to the bucket.                      *)

\* Marking fills stale only changes the flag.
LEMMA FenceFillsRead ==
  ASSUME Rest, NEW k, FenceFills(k)
  PROVE  /\ reader' \in [Reader -> Read]
         /\ \A r \in Reader : reader'[r].pc # "idle" => reader'[r].key \in Key
<1>1. \A r \in Reader : /\ [reader[r] EXCEPT !.stale = TRUE] \in Read
                         /\ [reader[r] EXCEPT !.stale = TRUE].key = reader[r].key
                         /\ [reader[r] EXCEPT !.stale = TRUE].pc = reader[r].pc
  BY Zenon DEF Rest, Read
<1>2. reader \in [Reader -> Read] /\ reader' = MarkStale(k)
  BY DEF Rest, FenceFills
<1>3. \A r \in Reader : /\ reader'[r] \in Read
                         /\ reader'[r].key = reader[r].key /\ reader'[r].pc = reader[r].pc
  BY <1>1, <1>2 DEF MarkStale
<1>4. reader' \in [Reader -> Read]
  BY <1>1, <1>2 DEF MarkStale
<1> QED
  BY <1>3, <1>4 DEF Rest, KeysNamed

\* An index operation that clears fences at most keeps every fence owned.
LEMMA OwnersKept ==
  ASSUME NEW b, NEW c, NEW hs, Owners(b, hs),
         c.exists = b.exists \/ c.exists,
         \A k \in Key : c.fence[k] \in {0, b.fence[k]}
  PROVE  Owners(c, hs)
  BY DEF Owners

\* Applying a definitive event keeps the index sound and its fences owned.
LEMMA ApplyEventInv ==
  ASSUME Inv, NEW e \in FeedEvent, ApplyEvent(e)
  PROVE  Sound(bucket') /\ Owners(bucket', heads)
<1>1. Sound(bucket) /\ Owners(bucket, heads) /\ bucket \in Bucket
  BY InvParts DEF Sound
<1>2. e.key \in Key /\ e.row \in Row /\ e.row.ts \in Nat
  BY DEF FeedEvent, Row
<1>3. CASE bucket' = ApplyPut(bucket, e.key, e.row)
  <2>1. Sound(bucket')
    BY <1>1, <1>2, <1>3, ApplyPutSound
  <2>2. bucket'.exists /\ \A k \in Key : bucket'.fence[k] \in {0, bucket.fence[k]}
    BY <1>1, <1>2, <1>3 DEF ApplyPut, Bucket
  <2> QED
    BY <1>1, <2>1, <2>2, OwnersKept
<1>4. ASSUME NEW swept \in SUBSET Expired(bucket, e.row.ts),
             bucket' = ApplyDel(bucket, e.key, e.row.ts, swept)
      PROVE  Sound(bucket') /\ Owners(bucket', heads)
  <2>1. swept \in SUBSET Key
    BY DEF Expired
  <2>2. Sound(bucket')
    BY <1>1, <1>2, <1>4, <2>1, ApplyDelSound
  <2>3. bucket'.exists /\ \A k \in Key : bucket'.fence[k] \in {0, bucket.fence[k]}
    BY <1>1, <1>2, <1>4 DEF ApplyDel, Bucket
  <2> QED
    BY <1>1, <2>2, <2>3, OwnersKept
<1> QED
  BY <1>3, <1>4 DEF ApplyEvent

\* Fencing a key registers the task that owns the new fence.
LEMMA FenceAndReconcileInv ==
  ASSUME Inv, NEW k \in Key, FenceAndReconcile(k)
  PROVE  Sound(bucket') /\ Owners(bucket', heads')
<1>1. Sound(bucket) /\ Owners(bucket, heads) /\ bucket \in Bucket
  BY InvParts DEF Sound
<1> DEFINE h == [key |-> k, token |-> bucket.epoch + 1, answered |-> FALSE, row |-> NoRow]
<1>2. bucket' = FenceKey(bucket, k) /\ heads' = heads \cup {h}
  BY DEF FenceAndReconcile
<1>3. Sound(bucket')
  BY <1>1, <1>2, FenceKeySound
<1>4. h \in Reconcile
  BY <1>1 DEF Reconcile, Bucket, Row, NoRow
<1>5. bucket'.exists /\ bucket'.fence = [bucket.fence EXCEPT ![k] = bucket.epoch + 1]
  BY <1>1, <1>2 DEF FenceKey, Bucket
<1>6. \A j \in Key : bucket'.fence[j] # 0 =>
        \E g \in heads' : g.key = j /\ g.token = bucket'.fence[j]
  <2> TAKE j \in Key
  <2> HAVE bucket'.fence[j] # 0
  <2>1. CASE j = k
    <3>1. bucket'.fence[j] = h.token /\ h.key = j /\ h \in heads'
      BY <1>1, <1>2, <1>5, <2>1 DEF Bucket
    <3> QED
      BY <3>1
  <2>2. CASE j # k
    BY <1>1, <1>2, <1>5, <2>2 DEF Bucket, Owners
  <2> QED
    BY <2>1, <2>2
<1> QED
  BY <1>1, <1>2, <1>3, <1>4, <1>5, <1>6, Zenon DEF Owners

-----------------------------------------------------------------------------
(* One lemma per process.                                                  *)

\* One writer's operation changes, to another of a named key or to none.
LEMMA OpUpdate ==
  ASSUME Rest, NEW w \in Writer, NEW o \in Operation, o.pc # "idle" => o.key \in Key,
         op' = [op EXCEPT ![w] = o]
  PROVE  /\ op' \in [Writer -> Operation]
         /\ \A v \in Writer : op'[v].pc # "idle" => op'[v].key \in Key
  BY DEF Rest, KeysNamed

\* One reader's answer changes, to another of a named key or to none.
LEMMA ReaderUpdate ==
  ASSUME Rest, NEW r \in Reader, NEW a \in Read, a.pc # "idle" => a.key \in Key,
         reader' = [reader EXCEPT ![r] = a]
  PROVE  /\ reader' \in [Reader -> Read]
         /\ \A q \in Reader : reader'[q].pc # "idle" => reader'[q].key \in Key
  BY DEF Rest, KeysNamed

\* An idle slot is well typed.
LEMMA IdleTyped ==
  /\ Idle \in Operation /\ Idle.pc = "idle"
  /\ NoRead \in Read /\ NoRead.pc = "idle"
  /\ NoRange \in KeyRange /\ NoScan \in Scan
  BY DEF Idle, Operation, NoRead, Read, NoRange, KeyRange, NoScan, Scan, NoPage, Row, NoRow,
         Lower

\* One range of a scan moves on.
LEMMA RangeMoves ==
  ASSUME NEW sc \in [Scanner -> Scan], NEW s \in Scanner, NEW lo \in Lower,
         NEW r \in KeyRange
  PROVE  [sc EXCEPT ![s].range[lo] = r] \in [Scanner -> Scan]
  BY DEF Scan

\* A mutation's steps keep the invariant.
LEMMA WriterInv ==
  ASSUME Inv, NEW w \in Writer,
         WriterStep(w) \/ \E k \in Key, kind \in {"put", "del"} : Begin(w, k, kind)
  PROVE  Inv'
<1>1. Sound(bucket) /\ Owners(bucket, heads) /\ Rest
  BY InvParts
<1>2. op[w] \in Operation /\ (op[w].pc # "idle" => op[w].key \in Key)
  BY <1>1 DEF Rest, KeysNamed
<1>3. SUFFICES Sound(bucket') /\ Owners(bucket', heads') /\ Rest'
  BY InvPartsNext
<1>4. ASSUME NEW k \in Key, NEW kind \in {"put", "del"}, Begin(w, k, kind)
      PROVE  Sound(bucket') /\ Owners(bucket', heads') /\ Rest'
  <2> DEFINE o == [pc |-> "sent", key |-> k, kind |-> kind, ver |-> written + 1, ts |-> 0]
  <2>1. o \in Operation /\ written' \in Nat
    BY <1>1, <1>4, SMTT(30) DEF Operation, Rest, Begin
  <2>2. /\ op' \in [Writer -> Operation]
        /\ \A v \in Writer : op'[v].pc # "idle" => op'[v].key \in Key
    BY <1>1, <1>4, <2>1, OpUpdate, Zenon DEF Begin
  <2>3. /\ reader' \in [Reader -> Read]
        /\ \A r \in Reader : reader'[r].pc # "idle" => reader'[r].key \in Key
    BY <1>1, <1>4, FenceFillsRead DEF Begin, Rest, KeysNamed
  <2> QED
    BY <1>1, <1>4, <2>1, <2>2, <2>3, SMTT(20) DEF Begin, Rest, KeysNamed
<1>5. CASE Land(w)
  <2> DEFINE o == [op[w] EXCEPT !.pc = "landed"]
             x == IF op[w].kind = "put" THEN [ver |-> op[w].ver, mtime |-> now] ELSE Absent
  <2>1. o \in Operation /\ o.key \in Key /\ op' = [op EXCEPT ![w] = o]
    BY <1>1, <1>2, <1>5, Zenon DEF Operation, Land, Rest
  <2>2. x \in OriginObject
    BY <1>1, <1>2 DEF OriginObject, Absent, Operation, Rest
  <2>3. origin' = [origin EXCEPT ![op[w].key] = x]
    BY <1>5 DEF Land
  <2>4. origin' \in [Key -> OriginObject]
    BY <1>1, <2>2, <2>3, Zenon DEF Rest
  <2>5. /\ op' \in [Writer -> Operation]
        /\ \A v \in Writer : op'[v].pc # "idle" => op'[v].key \in Key
    BY <1>1, <2>1, OpUpdate, Zenon
  <2> QED
    BY <1>1, <1>5, <2>4, <2>5 DEF Land, Rest, KeysNamed
<1>6. CASE Refuse(w)
  <2>1. /\ op' \in [Writer -> Operation]
        /\ \A v \in Writer : op'[v].pc # "idle" => op'[v].key \in Key
    BY <1>1, <1>6, IdleTyped, OpUpdate, Zenon DEF Refuse
  <2> QED
    BY <1>1, <1>6, <2>1 DEF Refuse, Rest, KeysNamed
<1>7. CASE Lose(w)
  <2> DEFINE o == [op[w] EXCEPT !.pc = "unknown"]
  <2>1. o \in Operation /\ o.key \in Key /\ op' = [op EXCEPT ![w] = o]
    BY <1>1, <1>2, <1>7, Zenon DEF Operation, Lose, Rest
  <2>2. /\ op' \in [Writer -> Operation]
        /\ \A v \in Writer : op'[v].pc # "idle" => op'[v].key \in Key
    BY <1>1, <2>1, OpUpdate, Zenon
  <2> QED
    BY <1>1, <1>7, <2>2 DEF Lose, Rest, KeysNamed
<1>8. CASE Invalidate(w)
  <2> DEFINE o == [op[w] EXCEPT !.pc = "cleared"]
  <2>1. o \in Operation /\ o.key \in Key /\ op' = [op EXCEPT ![w] = o]
    BY <1>1, <1>2, <1>8, Zenon DEF Operation, Invalidate, Rest
  <2>2. /\ op' \in [Writer -> Operation]
        /\ \A v \in Writer : op'[v].pc # "idle" => op'[v].key \in Key
    BY <1>1, <2>1, OpUpdate, Zenon
  <2>3. /\ reader' \in [Reader -> Read]
        /\ \A r \in Reader : reader'[r].pc # "idle" => reader'[r].key \in Key
    BY <1>1, <1>8, FenceFillsRead DEF Invalidate
  <2> QED
    BY <1>1, <1>8, <2>2, <2>3 DEF Invalidate, Rest, KeysNamed
<1>9. ASSUME NEW t \in Ticks, Stamp(w, t)
      PROVE  Sound(bucket') /\ Owners(bucket', heads') /\ Rest'
  <2> DEFINE o == [op[w] EXCEPT !.pc = "stamped", !.ts = t]
  <2>1. op[w].key \in Key /\ t \in Nat
    BY <1>1, <1>2, <1>9, TTLAssumption DEF Stamp, Ticks, Rest
  <2>2. o \in Operation /\ o.key \in Key /\ op' = [op EXCEPT ![w] = o]
    BY <1>1, <1>2, <1>9, <2>1, Zenon DEF Operation, Stamp, Rest
  <2>3. /\ op' \in [Writer -> Operation]
        /\ \A v \in Writer : op'[v].pc # "idle" => op'[v].key \in Key
    BY <1>1, <2>2, OpUpdate, Zenon
  <2> QED
    BY <1>1, <1>9, <2>1, <2>3 DEF Stamp, Rest, KeysNamed
<1>10. CASE Record(w)
  <2>1. PICK row \in RowShapes(w) : ApplyEvent(Event(w, row))
    BY <1>10 DEF Record
  <2>2. Event(w, row) \in FeedEvent
    BY <1>2, <1>10, WriteRows DEF Event, FeedEvent, Operation, Record
  <2>3. Sound(bucket') /\ Owners(bucket', heads)
    BY <2>1, <2>2, ApplyEventInv
  <2>4. /\ op' \in [Writer -> Operation]
        /\ \A v \in Writer : op'[v].pc # "idle" => op'[v].key \in Key
    BY <1>1, <1>10, IdleTyped, OpUpdate, Zenon DEF Record
  <2> QED
    BY <1>1, <1>10, <2>3, <2>4 DEF Record, Rest, KeysNamed
<1>11. CASE Publish(w)
  <2>1. PICK row \in RowShapes(w) : feed' = [feed EXCEPT ![w] = Append(@, Event(w, row))]
    BY <1>11, Zenon DEF Publish
  <2>2. Event(w, row) \in FeedEvent
    BY <1>2, <1>11, WriteRows DEF Event, FeedEvent, Operation, Publish
  <2>3. feed' \in [Peer -> Seq(FeedEvent)]
    BY <1>1, <1>11, <2>1, <2>2 DEF Rest, Publish
  <2>4. /\ op' \in [Writer -> Operation]
        /\ \A v \in Writer : op'[v].pc # "idle" => op'[v].key \in Key
    BY <1>1, <1>11, IdleTyped, OpUpdate, Zenon DEF Publish
  <2> QED
    BY <1>1, <1>11, <2>3, <2>4 DEF Publish, Rest, KeysNamed
<1>12. CASE Announce(w)
  <2>1. op[w].key \in Key
    BY <1>2, <1>12 DEF Announce
  <2>2. Sound(bucket') /\ Owners(bucket', heads')
    BY <1>12, <2>1, FenceAndReconcileInv DEF Announce
  <2> DEFINE o == [op[w] EXCEPT !.pc = "announced"]
  <2>3. o \in Operation /\ o.key \in Key
    BY <1>2, <2>1 DEF Operation
  <2>4. op' = [op EXCEPT ![w] = o] \/ op' = [op EXCEPT ![w] = Idle]
    BY <1>1, <1>12 DEF Announce, Rest
  <2>5. /\ op' \in [Writer -> Operation]
        /\ \A v \in Writer : op'[v].pc # "idle" => op'[v].key \in Key
    BY <1>1, <2>3, <2>4, IdleTyped, OpUpdate, Zenon
  <2>6. /\ reader' \in [Reader -> Read]
        /\ \A r \in Reader : reader'[r].pc # "idle" => reader'[r].key \in Key
    BY <1>1, <1>12, FenceFillsRead DEF Announce, Rest, KeysNamed
  <2> QED
    BY <1>1, <1>12, <2>2, <2>5, <2>6 DEF Announce, Rest, KeysNamed
<1>13. CASE DropAnnounced(w)
  <2>1. /\ op' \in [Writer -> Operation]
        /\ \A v \in Writer : op'[v].pc # "idle" => op'[v].key \in Key
    BY <1>1, <1>13, IdleTyped, OpUpdate, Zenon DEF DropAnnounced
  <2>2. /\ reader' \in [Reader -> Read]
        /\ \A r \in Reader : reader'[r].pc # "idle" => reader'[r].key \in Key
    BY <1>1, <1>13, FenceFillsRead DEF DropAnnounced
  <2> QED
    BY <1>1, <1>13, <2>1, <2>2 DEF DropAnnounced, Rest, KeysNamed
<1>14. CASE PublishUnknown(w)
  <2>1. UnknownEvent(w) \in FeedEvent
    BY <1>1, <1>2, <1>14, Zenon DEF UnknownEvent, FeedEvent, Row, NoRow, Rest, PublishUnknown
  <2>2. feed' \in [Peer -> Seq(FeedEvent)]
    BY <1>1, <1>14, <2>1 DEF Rest, PublishUnknown
  <2>3. /\ op' \in [Writer -> Operation]
        /\ \A v \in Writer : op'[v].pc # "idle" => op'[v].key \in Key
    BY <1>1, <1>14, IdleTyped, OpUpdate, Zenon DEF PublishUnknown
  <2> QED
    BY <1>1, <1>14, <2>2, <2>3 DEF PublishUnknown, Rest, KeysNamed
<1> QED
  BY <1>4, <1>5, <1>6, <1>7, <1>8, <1>9, <1>10, <1>11, <1>12, <1>13, <1>14 DEF WriterStep

\* Delivering a feed event, or losing the feed, keeps the invariant.
LEMMA FeedInv ==
  ASSUME Inv, NEW p \in Peer, Deliver(p) \/ Gap(p)
  PROVE  Inv'
<1>1. Sound(bucket) /\ Owners(bucket, heads) /\ Rest
  BY InvParts
<1>2. SUFFICES Sound(bucket') /\ Owners(bucket', heads') /\ Rest'
  BY InvPartsNext
<1>3. CASE Deliver(p)
  <2> DEFINE e == Head(feed[p])
  <2>1. feed[p] \in Seq(FeedEvent) /\ feed[p] # <<>>
    BY <1>1, <1>3 DEF Deliver, Rest
  <2>2. e \in FeedEvent /\ Tail(feed[p]) \in Seq(FeedEvent)
    BY <2>1
  <2>3. feed' \in [Peer -> Seq(FeedEvent)]
    BY <1>1, <1>3, <2>2 DEF Deliver, Rest
  <2>4. /\ reader' \in [Reader -> Read]
        /\ \A r \in Reader : reader'[r].pc # "idle" => reader'[r].key \in Key
    BY <1>1, <1>3, FenceFillsRead DEF Deliver
  <2>5. Sound(bucket') /\ Owners(bucket', heads')
    <3> HIDE DEF e
    <3>1. e.key \in Key
      BY <2>2 DEF FeedEvent
    <3>2. CASE FenceAndReconcile(e.key)
      BY <3>1, <3>2, FenceAndReconcileInv
    <3>3. CASE ApplyEvent(e) /\ UNCHANGED heads
      BY <2>2, <3>3, ApplyEventInv
    <3> QED
      BY <1>3, <3>2, <3>3 DEF Deliver, e
  <2> QED
    BY <1>1, <1>3, <2>3, <2>4, <2>5 DEF Deliver, Rest, KeysNamed
<1>4. CASE Gap(p)
  <2>1. Sound(bucket')
    BY <1>1, <1>4, ResetSound DEF Gap
  <2>2. Owners(bucket', heads')
    BY <1>1, <1>4 DEF Gap, DiscardBuckets, Reset, NoBucket, Owners
  <2>3. feed' \in [Peer -> Seq(FeedEvent)]
    BY <1>1, <1>4 DEF Gap, Rest
  <2> QED
    BY <1>1, <1>4, <2>1, <2>2, <2>3 DEF Gap, Rest, KeysNamed
<1> QED
  BY <1>3, <1>4

\* A reconciliation that answers keeps its fence's owner; one that resolves
\* goes only when it clears the fence or never owned it.
LEMMA HeadInv ==
  ASSUME Inv, NEW h \in heads, HeadAnswer(h) \/ HeadResolve(h)
  PROVE  Inv'
<1>1. Sound(bucket) /\ Owners(bucket, heads) /\ Rest
  BY InvParts
<1>2. SUFFICES Sound(bucket') /\ Owners(bucket', heads') /\ Rest'
  BY InvPartsNext
<1>3. h \in Reconcile /\ h.key \in Key /\ h.row \in Row /\ bucket \in Bucket
  BY <1>1 DEF Owners, Reconcile, Sound
<1>4. CASE HeadAnswer(h)
  <2> DEFINE g == [h EXCEPT !.answered = TRUE, !.row = HeadRow(origin[h.key])]
             current == bucket.exists /\ bucket.fence[h.key] = h.token
  <2>1. g \in Reconcile /\ g.key = h.key /\ g.token = h.token
    <3>1. origin[h.key] \in OriginObject
      BY <1>1, <1>3 DEF Rest
    <3>2. HeadRow(origin[h.key]) \in Row
      BY <3>1, OriginRows
    <3> QED
      BY <1>3, <3>2, Zenon DEF Reconcile
  <2>2. heads' = (heads \ {h}) \cup IF current THEN {g} ELSE {}
    BY <1>4 DEF HeadAnswer
  <2> HIDE DEF g
  <2>3. \A i \in heads' : i \in Reconcile
    BY <1>1, <2>1, <2>2 DEF Owners
  <2>4. ASSUME NEW k \in Key, bucket.fence[k] # 0
        PROVE  bucket.exists /\ \E i \in heads' : i.key = k /\ i.token = bucket.fence[k]
    <3>1. PICK i \in heads : i.key = k /\ i.token = bucket.fence[k]
      BY <1>1, <2>4 DEF Owners
    <3>2. bucket.exists
      BY <1>1, <2>4 DEF Owners
    <3>3. CASE i = h
      BY <2>1, <2>2, <3>1, <3>2, <3>3
    <3>4. CASE i # h
      BY <2>2, <3>1, <3>2, <3>4
    <3> QED
      BY <3>3, <3>4
  <2>5. Owners(bucket, heads')
    BY <2>3, <2>4 DEF Owners
  <2> QED
    BY <1>1, <1>4, <2>5 DEF HeadAnswer, Rest, KeysNamed
<1>5. CASE HeadResolve(h)
  <2>1. now \in Nat
    BY <1>1 DEF Rest
  <2>2. Sound(bucket')
    BY <1>1, <1>3, <1>5, <2>1, ResolveSound DEF HeadResolve
  <2>3. /\ bucket'.exists = bucket.exists
        /\ \A k \in Key : bucket'.fence[k] \in {0, bucket.fence[k]}
        /\ bucket.exists /\ bucket.fence[h.key] = h.token => bucket'.fence[h.key] = 0
    BY <1>3, <1>5 DEF HeadResolve, ResolveUncertainKey, Reconciled, Bucket
  <2>4. \A i \in heads' : i \in Reconcile
    BY <1>1, <1>5 DEF Owners, HeadResolve
  <2>5. ASSUME NEW k \in Key, bucket'.fence[k] # 0
        PROVE  bucket'.exists /\ \E i \in heads' : i.key = k /\ i.token = bucket'.fence[k]
    <3>1. bucket'.fence[k] = bucket.fence[k] /\ bucket.fence[k] # 0 /\ bucket.exists
      BY <1>1, <2>3, <2>5 DEF Owners
    <3>2. PICK i \in heads : i.key = k /\ i.token = bucket.fence[k]
      BY <1>1, <3>1 DEF Owners
    <3>3. i # h
      BY <2>3, <2>5, <3>1, <3>2
    <3> QED
      BY <1>5, <2>3, <3>1, <3>2, <3>3 DEF HeadResolve
  <2>6. Owners(bucket', heads')
    BY <2>4, <2>5 DEF Owners
  <2> QED
    BY <1>1, <1>5, <2>2, <2>6 DEF HeadResolve, Rest, KeysNamed
<1> QED
  BY <1>4, <1>5

\* A scan's steps keep the invariant: it starts by a reset that keeps the
\* fences, and its pages never touch them.
LEMMA ScanInv ==
  ASSUME Inv, NEW s \in Scanner,
         Rebuild(s) \/ ScanStep(s) \/ \E lo \in Lower : ScanFail(s, lo)
  PROVE  Inv'
<1>1. Sound(bucket) /\ Owners(bucket, heads) /\ Rest
  BY InvParts
<1>2. SUFFICES Sound(bucket') /\ Owners(bucket', heads') /\ Rest'
  BY InvPartsNext
<1>3. scan[s] \in Scan /\ bucket \in Bucket /\ scan \in [Scanner -> Scan]
  BY <1>1 DEF Rest, Sound
<1>r. \A lo \in Lower : scan[s].range[lo] \in KeyRange
  BY <1>3 DEF Scan
<1>4. CASE Rebuild(s)
  <2>1. PICK boundaries \in SUBSET setting.splits : ScanBegin(s, boundaries)
    BY <1>4, SMTT(20) DEF Rebuild
  <2>2. Split(boundaries) \in [Lower -> KeyRange]
    <3>1. \A lo \in Lower : [NoRange EXCEPT !.pc = "fetch", !.cursor = lo] \in KeyRange
      BY IdleTyped, Zenon DEF KeyRange, Lower
    <3> QED
      BY <3>1, IdleTyped, Zenon DEF Split
  <2>3. bucket.gen + 1 \in Nat
    BY <1>3 DEF Bucket
  <2>4. scan' \in [Scanner -> Scan]
    BY <1>3, <2>1, <2>2, <2>3 DEF ScanBegin, Scan
  <2>5. Sound(bucket')
    BY <1>1, <2>1, ResetSound DEF ScanBegin
  <2>6. Owners(bucket', heads')
    BY <1>1, <2>1 DEF ScanBegin, BeginBucketResync, Reset, NoBucket, Owners
  <2> QED
    BY <1>1, <2>1, <2>4, <2>5, <2>6 DEF ScanBegin, Rest, KeysNamed
<1>5. CASE \E lo \in Lower : ScanFetch(s, lo)
  <2> PICK lo \in Lower : ScanFetch(s, lo)
    BY <1>5
  <2> DEFINE all  == PageAfter(scan[s].range[lo].cursor)
             mine == all \cap Within(s, lo)
             page == [k \in Key |-> IF k \in mine THEN ListRow(origin[k]) ELSE NoRow]
             last == all = Listed(scan[s].range[lo].cursor) \/ mine # all
             moved == [scan[s].range[lo] EXCEPT !.pc = "publish", !.page = page,
                                                !.last = last]
  <2>1. page \in [Key -> Row]
    <3>1. \A k \in Key : ListRow(origin[k]) \in Row
      <4> TAKE k \in Key
      <4>1. origin[k] \in OriginObject
        BY <1>1 DEF Rest
      <4> QED
        BY <4>1, OriginRows
    <3>2. NoRow \in Row
      BY DEF NoRow, Row
    <3> QED
      BY <3>1, <3>2
  <2>2. scan' = [scan EXCEPT ![s].range[lo] = moved]
    BY <1>3 DEF ScanFetch, Scan
  <2>3. last \in BOOLEAN
    OBVIOUS
  <2> HIDE DEF page, last
  <2>4. moved \in KeyRange
    BY <1>r, <2>1, <2>3, Zenon DEF KeyRange
  <2> HIDE DEF moved
  <2>5. scan' \in [Scanner -> Scan]
    BY <1>3, <2>2, <2>4, RangeMoves
  <2> QED
    BY <1>1, <2>5 DEF ScanFetch, Rest, KeysNamed
<1>6. CASE \E lo \in Lower : ScanPublish(s, lo)
  <2> PICK lo \in Lower : ScanPublish(s, lo)
    BY <1>6
  <2> DEFINE range == scan[s].range[lo]
             moved(next) == [NoRange EXCEPT !.pc = IF range.last THEN "done" ELSE "fetch",
                                            !.cursor = next]
  <2>1. PICK next \in IF range.last THEN {0} ELSE Highest(Keys(range.page)) :
          scan' = IF ~OwnsRebuild(bucket, scan[s].gen) THEN [scan EXCEPT ![s] = NoScan]
                  ELSE [scan EXCEPT ![s].range[lo] = moved(next)]
    BY Zenon DEF ScanPublish
  <2>2. next \in Key \cup {0}
    BY <2>1 DEF Highest, Keys
  <2>3. moved(next) \in KeyRange
    BY <2>2, IdleTyped, Zenon DEF KeyRange
  <2>4. scan' \in [Scanner -> Scan]
    <3>1. [scan EXCEPT ![s] = NoScan] \in [Scanner -> Scan]
      BY <1>3, IdleTyped
    <3> HIDE DEF moved
    <3>2. [scan EXCEPT ![s].range[lo] = moved(next)] \in [Scanner -> Scan]
      BY <1>3, <2>3, RangeMoves
    <3> QED
      BY <2>1, <3>1, <3>2
  <2>5. range.page \in [Key -> Row]
    BY <1>r DEF KeyRange
  <2>6. Sound(bucket')
    BY <1>1, <2>5, SyncListingSound DEF ScanPublish
  <2>7. /\ bucket'.exists = bucket.exists \/ bucket'.exists
        /\ \A k \in Key : bucket'.fence[k] \in {0, bucket.fence[k]}
    BY <1>3 DEF ScanPublish, SyncListing, Bucket
  <2>8. Owners(bucket', heads)
    BY <1>1, <2>7, OwnersKept, SMTT(20)
  <2> QED
    BY <1>1, <2>4, <2>6, <2>8 DEF ScanPublish, Rest, KeysNamed
<1>7. CASE ScanFinish(s)
  <2>1. Sound(bucket')
    BY <1>1, <1>7, FinishSound DEF ScanFinish
  <2>2. /\ bucket'.exists = bucket.exists \/ bucket'.exists
        /\ \A k \in Key : bucket'.fence[k] \in {0, bucket.fence[k]}
    BY <1>3, <1>7 DEF ScanFinish, FinishBucketSync, Bucket
  <2>3. Owners(bucket', heads)
    BY <1>1, <2>2, OwnersKept
  <2>4. scan' \in [Scanner -> Scan]
    BY <1>3, <1>7, IdleTyped, SMTT(20) DEF ScanFinish
  <2> QED
    BY <1>1, <1>7, <2>1, <2>3, <2>4, Zenon DEF ScanFinish, Rest, KeysNamed
<1>8. CASE \E lo \in Lower : ScanFail(s, lo)
  <2>1. scan' \in [Scanner -> Scan]
    BY <1>3, <1>8, IdleTyped DEF ScanFail
  <2> QED
    BY <1>1, <1>8, <2>1 DEF ScanFail, Rest, KeysNamed
<1> QED
  BY <1>4, <1>5, <1>6, <1>7, <1>8 DEF ScanStep

\* Origin answers are folded in without touching any fence.
LEMMA ReadInv ==
  ASSUME Inv, NEW r \in Reader,
         ReadStep(r) \/ \E k \in Key, range \in BOOLEAN : ReadBegin(r, k, range)
  PROVE  Inv'
<1>1. Sound(bucket) /\ Owners(bucket, heads) /\ Rest
  BY InvParts
<1>2. SUFFICES Sound(bucket') /\ Owners(bucket', heads') /\ Rest'
  BY InvPartsNext
<1>3. /\ bucket \in Bucket /\ reader[r] \in Read
      /\ reader[r].pc # "idle" => reader[r].key \in Key
  BY <1>1 DEF Rest, KeysNamed, Sound
<1>4. ASSUME NEW row \in Row, reader[r].pc # "idle"
      PROVE  LET c == ApplyObservedPut(bucket, reader[r].key, row)
             IN  Sound(c) /\ Owners(c, heads)
  <2> DEFINE c == ApplyObservedPut(bucket, reader[r].key, row)
  <2>1. Sound(c)
    BY <1>1, <1>3, <1>4, ApplyObservedPutSound
  <2>2. c.exists /\ \A k \in Key : c.fence[k] \in {0, bucket.fence[k]}
    BY <1>3, <1>4, SMTT(20) DEF ApplyObservedPut, Bucket
  <2>3. Owners(c, heads)
    BY <1>1, <2>2, OwnersKept, SMTT(20)
  <2> QED
    BY <2>1, <2>3
<1>5. reader[r].pc # "idle" =>
        Sound(ObserveAbsent(r)) /\ Owners(ObserveAbsent(r), heads)
  <2> DEFINE v == reader[r].ver
             row == [ts |-> OriginTime(reader[r].mtime), size |-> v, etag |-> v, meta |-> v]
  <2>1. row \in Row
    BY <1>3, OriginTimeNat, SMTT(20) DEF Read, Row
  <2> HIDE DEF row
  <2> QED
    BY <1>4, <2>1 DEF ObserveAbsent, row
<1>6. ASSUME NEW k \in Key, NEW range \in BOOLEAN, ReadBegin(r, k, range)
      PROVE  Sound(bucket') /\ Owners(bucket', heads') /\ Rest'
  <2> DEFINE a == [NoRead EXCEPT !.pc = "asked", !.key = k, !.range = range]
  <2>1. a \in Read /\ a.key \in Key
    BY Zenon DEF Read, NoRead
  <2>2. /\ reader' \in [Reader -> Read]
        /\ \A q \in Reader : reader'[q].pc # "idle" => reader'[q].key \in Key
    BY <1>1, <1>6, <2>1, ReaderUpdate, Zenon DEF ReadBegin
  <2> QED
    BY <1>1, <1>6, <2>2, Zenon DEF ReadBegin, Rest, KeysNamed
<1>7. CASE ReadAnswer(r)
  <2> DEFINE o == origin[reader[r].key]
             a == IF o.ver = 0 THEN NoRead
                  ELSE [reader[r] EXCEPT
                          !.pc = IF reader[r].range /\ o.ver \in Oversize
                                 THEN "oversize" ELSE "answered",
                          !.ver = o.ver, !.mtime = o.mtime, !.at = now]
  <2>1. reader[r].key \in Key /\ reader' = [reader EXCEPT ![r] = a]
    BY <1>1, <1>3, <1>7 DEF ReadAnswer, Rest
  <2>2. o.ver \in Nat /\ o.mtime \in Nat /\ now \in Nat
    BY <1>1, <2>1 DEF Rest, OriginObject
  <2>3. a \in Read /\ (a.pc # "idle" => a.key \in Key)
    BY <1>3, <2>1, <2>2, IdleTyped, Zenon DEF Read
  <2> HIDE DEF a
  <2>4. /\ reader' \in [Reader -> Read]
        /\ \A q \in Reader : reader'[q].pc # "idle" => reader'[q].key \in Key
    BY <1>1, <2>1, <2>3, ReaderUpdate, Zenon
  <2> QED
    BY <1>1, <1>7, <2>4 DEF ReadAnswer, Rest, KeysNamed
<1>8. CASE ReadFold(r)
  <2> DEFINE k == reader[r].key
             a == [reader[r] EXCEPT !.pc = "observe"]
  <2>1. k \in Key /\ reader[r].ver \in Nat /\ reader[r].pc # "idle"
    BY <1>3, <1>8 DEF ReadFold, Read
  <2>2. a \in Read /\ a.key \in Key
    BY <1>3, <2>1 DEF Read
  <2>3. reader' = [reader EXCEPT ![r] = a] \/ reader' = [reader EXCEPT ![r] = NoRead]
    BY <1>1, <1>8, Zenon DEF ReadFold, Rest
  <2>4. /\ reader' \in [Reader -> Read]
        /\ \A q \in Reader : reader'[q].pc # "idle" => reader'[q].key \in Key
    BY <1>1, <2>2, <2>3, IdleTyped, ReaderUpdate, Zenon
  <2>5. /\ Sound(CompleteEntry(bucket, k, reader[r].ver))
        /\ Owners(CompleteEntry(bucket, k, reader[r].ver), heads)
    <3> DEFINE c == CompleteEntry(bucket, k, reader[r].ver)
    <3>1. Sound(c)
      BY <1>1, <2>1, CompleteEntrySound
    <3>2. c.exists = bucket.exists /\ \A j \in Key : c.fence[j] \in {0, bucket.fence[j]}
      BY <1>3 DEF CompleteEntry, Bucket
    <3>3. Owners(c, heads)
      BY <1>1, <3>2, OwnersKept
    <3> QED
      BY <3>1, <3>3
  <2>6. bucket' \in {bucket, ObserveAbsent(r), CompleteEntry(bucket, k, reader[r].ver)}
    BY <1>8 DEF ReadFold
  <2>7. Sound(bucket') /\ Owners(bucket', heads)
    BY <1>1, <1>5, <2>1, <2>5, <2>6, SMTT(20)
  <2> QED
    BY <1>1, <1>8, <2>4, <2>7 DEF ReadFold, Rest, KeysNamed
<1>9. CASE ReadObserve(r)
  <2>1. /\ reader' \in [Reader -> Read]
        /\ \A q \in Reader : reader'[q].pc # "idle" => reader'[q].key \in Key
    BY <1>1, <1>9, IdleTyped, ReaderUpdate, Zenon DEF ReadObserve
  <2> QED
    BY <1>1, <1>5, <1>9, <2>1 DEF ReadObserve, Rest, KeysNamed
<1>10. ASSUME NEW t \in Ticks, RangeReject(r, t)
       PROVE  Sound(bucket') /\ Owners(bucket', heads') /\ Rest'
  <2>1. t \in Nat /\ reader[r].pc # "idle"
    BY <1>1, <1>10, TTLAssumption DEF RangeReject, Ticks, Rest
  <2>2. [NoRow EXCEPT !.ts = t, !.size = reader[r].ver] \in Row
    BY <1>3, <2>1, Zenon DEF NoRow, Row, Read
  <2>3. Sound(bucket') /\ Owners(bucket', heads)
    BY <1>4, <1>10, <2>1, <2>2 DEF RangeReject
  <2>4. /\ reader' \in [Reader -> Read]
        /\ \A q \in Reader : reader'[q].pc # "idle" => reader'[q].key \in Key
    BY <1>1, <1>10, IdleTyped, ReaderUpdate, Zenon DEF RangeReject
  <2> QED
    BY <1>1, <1>10, <2>1, <2>3, <2>4 DEF RangeReject, Rest, KeysNamed
<1> QED
  BY <1>6, <1>7, <1>8, <1>9, <1>10 DEF ReadStep

-----------------------------------------------------------------------------
\* The invariant is inductive.
LEMMA NextInv == Inv /\ [Next]_vars => Inv'
<1> SUFFICES ASSUME Inv, [Next]_vars PROVE Inv'
  OBVIOUS
<1>1. CASE \E w \in Writer :
             WriterStep(w) \/ \E k \in Key, kind \in {"put", "del"} : Begin(w, k, kind)
  BY <1>1, WriterInv
<1>2. CASE \E p \in Peer : Deliver(p) \/ Gap(p)
  BY <1>2, FeedInv
<1>3. CASE HeadStep
  BY <1>3, HeadInv DEF HeadStep
<1>4. CASE \E s \in Scanner :
             Rebuild(s) \/ ScanStep(s) \/ \E lo \in Lower : ScanFail(s, lo)
  BY <1>4, ScanInv
<1>5. CASE \E r \in Reader :
             ReadStep(r) \/ \E k \in Key, range \in BOOLEAN : ReadBegin(r, k, range)
  BY <1>5, ReadInv
<1>6. CASE DeleteBucket
  <2>1. Sound(bucket') /\ Owners(bucket', heads') /\ Rest'
    BY <1>6, InvParts, NoBucketSound, SMTT(20)
       DEF DeleteBucket, RemoveBucket, NoBucket, Owners, Rest, KeysNamed
  <2> QED
    BY <2>1, InvPartsNext, SMTT(20)
<1>7. CASE UNCHANGED vars
  BY <1>7, InvParts, InvPartsNext, Zenon DEF vars, Rest, KeysNamed
<1> QED
  BY <1>1, <1>2, <1>3, <1>4, <1>5, <1>6, <1>7 DEF Next

\* Types: rows, tombstones, tokens, feed events and answers are well formed in
\* every reachable state, for all constants.
THEOREM TypeCorrect == Spec => []TypeOK
<1>1. Inv => TypeOK
  BY DEF Inv
<1> QED
  BY <1>1, InitInv, NextInv, PTL DEF Spec

\* No interleaving of writes, feed events, scans, reconciliations and
\* observations leaves a live row at or below its own tombstone, so the index
\* always passes the fleet image codec's check and a delete is never undone by
\* something older.
THEOREM RowsOutlive == Spec => []RowsOutliveTombstones
<1>1. Inv => RowsOutliveTombstones
  BY DEF Inv
<1> QED
  BY <1>1, InitInv, NextInv, PTL DEF Spec

\* Every uncertain key is owned by exactly one token, and the reconciliation
\* task that can resolve it is still running: rebuilds, gaps and bucket removal
\* never orphan a fence.
THEOREM FencesOwnedAlways == Spec => []FencesHaveOwners
<1>1. Inv => FencesHaveOwners
  BY DEF Inv
<1> QED
  BY <1>1, InitInv, NextInv, PTL DEF Spec

=============================================================================
