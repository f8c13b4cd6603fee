------------------------------ MODULE ListIndex ------------------------------
(***************************************************************************)
(* ListObjectsV2 from the index (list_objects_v2_from_index in             *)
(* src/src/index.rs), the continuation tokens that page it                 *)
(* (src/src/list_token.rs) and the handler that routes each page to the    *)
(* index or to the origin (src/src/cache/service.rs).                      *)
(*                                                                         *)
(* Keys are numbers in their sort order.  A prefix is a block of adjacent  *)
(* keys, a delimiter rolls adjacent keys up into one common prefix, and    *)
(* cursor 0 stands before every key.  The index holds the rows of the      *)
(* origin's objects: other modules ask whether it does.                    *)
(***************************************************************************)
EXTENDS Naturals, Sequences, SequencesExt, FiniteSetsExt

CONSTANTS
  Key,        \* the key universe, an interval 1..n
  Block,      \* the keys that start with the prefix clients ask for
  Common,     \* key -> the common prefix it rolls up into, 0 for none
  MaxKeys,    \* the max-keys values clients send
  Mutation,   \* "put" and "delete": what other clients do during the walk
  MaxChange   \* bound: changes of the bucket during one walk

ASSUME ListAssumption ==
  /\ Key = 1..Cardinality(Key) /\ Block \subseteq Key
  /\ Common \in [Key -> Nat]
  /\ MaxKeys \subseteq Nat /\ MaxChange \in Nat

VARIABLES
  objects,    \* the keys in the bucket
  unsized,    \* the indexed keys whose size was never learned
  walk        \* the client's walk over the bucket

vars == <<objects, unsized, walk>>

Cursor == Key \cup {0}

\* The part of a request that a token binds, and its start-after.
Shape == [prefix : BOOLEAN, delimiter : BOOLEAN, after : Cursor]

\* Whose continuation token the client holds; NoToken before the first page.
Token == [route : {"absent", "local", "origin"}, cursor : Cursor]

NoToken == [route |-> "absent", cursor |-> 0]

\* listed and rolled are what the client has been sent, in order; kept and
\* ever are the keys in the bucket at every, and at some, moment of the walk,
\* and added the keys put during it.
Walk ==
  [stage : {"idle", "paging", "done"}, shape : Shape, token : Token,
   listed : Seq(Key), rolled : Seq(Nat), kept : SUBSET Key, ever : SUBSET Key,
   added : SUBSET Key, changes : Nat]

-----------------------------------------------------------------------------
(* The page built from the index.                                          *)

CommonPrefix(shape, k) == IF shape.delimiter THEN Common[k] ELSE 0

\* The keys past the exclusive cursor that start with the prefix: a seek to
\* the prefix, a walk to the end of its block.
RangeFrom(keys, shape, cursor) ==
  {k \in keys : k > cursor /\ (shape.prefix => k \in Block)}

EmptyPage ==
  [contents |-> <<>>, common |-> {}, truncated |-> FALSE, last |-> 0,
   known |-> TRUE]

\* Mutant: the limit is checked after the row is counted.
PageFullLate(page, max) == Len(page.contents) + Cardinality(page.common) > max

PageFull(page, max) == Len(page.contents) + Cardinality(page.common) >= max

\* Mutant: the cursor stays on the first key of a common prefix.
ScanKeyOnce(page, shape, k, max) ==
  LET cp == CommonPrefix(shape, k)
  IN  IF page.truncated \/ cp \in page.common THEN page
      ELSE IF PageFull(page, max) THEN [page EXCEPT !.truncated = TRUE]
      ELSE IF cp # 0
      THEN [page EXCEPT !.common = @ \cup {cp}, !.last = k]
      ELSE [page EXCEPT !.contents = Append(@, k), !.last = k,
                        !.known = @ /\ k \notin unsized]

\* Mutant: the key that did not fit moves the cursor.
ScanKeyFull(page, shape, k, max) ==
  LET cp == CommonPrefix(shape, k)
  IN  IF page.truncated THEN page
      ELSE IF cp \in page.common THEN [page EXCEPT !.last = k]
      ELSE IF PageFull(page, max)
      THEN [page EXCEPT !.truncated = TRUE, !.last = k]
      ELSE IF cp # 0
      THEN [page EXCEPT !.common = @ \cup {cp}, !.last = k]
      ELSE [page EXCEPT !.contents = Append(@, k), !.last = k,
                        !.known = @ /\ k \notin unsized]

\* One key of the scan.  A collapsed key is consumed even when its common
\* prefix was already emitted; a row of unknown size spoils the page.
ScanKey(page, shape, k, max) ==
  LET cp == CommonPrefix(shape, k)
  IN  IF page.truncated THEN page
      ELSE IF cp \in page.common THEN [page EXCEPT !.last = k]
      ELSE IF PageFull(page, max) THEN [page EXCEPT !.truncated = TRUE]
      ELSE IF cp # 0
      THEN [page EXCEPT !.common = @ \cup {cp}, !.last = k]
      ELSE [page EXCEPT !.contents = Append(@, k), !.last = k,
                        !.known = @ /\ k \notin unsized]

ListFromIndex(keys, shape, cursor, max) ==
  IF max = 0 THEN EmptyPage
  ELSE FoldLeft(LAMBDA page, k : ScanKey(page, shape, k, max), EmptyPage,
                SetToSortSeq(RangeFrom(keys, shape, cursor), <))

-----------------------------------------------------------------------------
(* The origin, as S3 documents it: at most max-keys keys and common        *)
(* prefixes in key order; a page that ends in a common prefix resumes past *)
(* all of it.                                                              *)

\* The keys that stand for themselves or are the first of their common prefix.
Leads(keys, shape, cursor) ==
  LET range == RangeFrom(keys, shape, cursor)
  IN  {k \in range : CommonPrefix(shape, k) = 0
         \/ \A j \in range : CommonPrefix(shape, j) = CommonPrefix(shape, k)
                               => j >= k}

OriginPage(keys, shape, cursor, max) ==
  LET leads == Leads(keys, shape, cursor)
      taken == {k \in leads : Cardinality({j \in leads : j < k}) < max}
      dirs  == {CommonPrefix(shape, k) : k \in taken} \ {0}
      end   == Max({0} \cup taken \cup {k \in Key : CommonPrefix(shape, k) \in dirs})
  IN  [contents |-> SetToSortSeq({k \in taken : CommonPrefix(shape, k) = 0}, <),
       common |-> dirs,
       truncated |-> max > 0 /\ taken # leads,
       last |-> end]

-----------------------------------------------------------------------------
(* The walk: a client pages through the bucket while others change it.     *)

Init ==
  /\ objects \in SUBSET Key
  /\ unsized \in {{}} \cup {{k} : k \in objects}
  /\ walk = [stage |-> "idle",
             shape |-> [prefix |-> FALSE, delimiter |-> FALSE, after |-> 0],
             token |-> NoToken, listed |-> <<>>, rolled |-> <<>>,
             kept |-> {}, ever |-> {}, added |-> {}, changes |-> 0]

Begin(shape) ==
  /\ walk.stage = "idle"
  /\ walk' = [walk EXCEPT !.stage = "paging", !.shape = shape,
                          !.kept = objects, !.ever = objects]
  /\ UNCHANGED <<objects, unsized>>

\* What the client sees of a page; its next token is of the route that
\* served the page.
Receive(page, route) ==
  walk' = [walk EXCEPT
             !.listed = @ \o page.contents,
             !.rolled = @ \o SetToSortSeq(page.common, <),
             !.stage = IF page.truncated THEN "paging" ELSE "done",
             !.token = IF page.truncated
                       THEN [route |-> route, cursor |-> page.last]
                       ELSE NoToken]

\* Mutant: a resumed page starts at the cursor's own key.
ResumeAtCursor ==
  IF walk.token.route = "absent" THEN walk.shape.after
  ELSE walk.token.cursor - 1

\* The exclusive cursor of the page: the token's, else start-after.  For the
\* origin an owned token is rewritten to a start-after; its own is opaque.
ResumeAfter ==
  IF walk.token.route = "absent" THEN walk.shape.after ELSE walk.token.cursor

\* The bucket is synced, no key of it is uncertain and the node may serve;
\* the index can answer the page.
ServeFromIndex(max) ==
  LET page == ListFromIndex(objects, walk.shape, ResumeAfter, max)
  IN  /\ walk.stage = "paging" /\ walk.token.route # "origin"
      /\ page.known
      /\ Receive(page, "local")
      /\ UNCHANGED <<objects, unsized>>

\* Any other page goes to the origin, and so does the rest of the walk.
PassThrough(max) ==
  /\ walk.stage = "paging"
  /\ Receive(OriginPage(objects, walk.shape, ResumeAfter, max), "origin")
  /\ UNCHANGED <<objects, unsized>>

Changing(kind) ==
  /\ kind \in Mutation /\ walk.stage = "paging" /\ walk.changes < MaxChange

\* Another client's put, its row with or without a size.
Put(k) ==
  /\ Changing("put") /\ k \notin objects
  /\ objects' = objects \cup {k}
  /\ unsized' \in {unsized, unsized \cup {k}}
  /\ walk' = [walk EXCEPT !.ever = @ \cup {k}, !.added = @ \cup {k}, !.changes = @ + 1]

Delete(k) ==
  /\ Changing("delete") /\ k \in objects
  /\ objects' = objects \ {k}
  /\ unsized' = unsized \ {k}
  /\ walk' = [walk EXCEPT !.kept = @ \ {k}, !.changes = @ + 1]

Next ==
  \/ \E shape \in Shape : Begin(shape)
  \/ \E max \in MaxKeys : ServeFromIndex(max) \/ PassThrough(max)
  \/ \E k \in Key : Put(k) \/ Delete(k)

Spec == Init /\ [][Next]_vars

-----------------------------------------------------------------------------
\* A page built from the index is the page the origin would send for the same
\* exclusive cursor, in every request shape: the same keys and common
\* prefixes, truncated alike ("Matches S3", index.rs).  Both cursors leave
\* the same keys for the next page.
PagesMatchOrigin ==
  walk.stage = "idle" =>
    \A shape \in Shape, max \in 0..Cardinality(Key) + 1 :
      LET mine == ListFromIndex(objects, shape, shape.after, max)
          s3   == OriginPage(objects, shape, shape.after, max)
      IN  /\ mine.contents = s3.contents
          /\ mine.common = s3.common
          /\ mine.truncated = s3.truncated
          /\ mine.truncated => RangeFrom(objects, shape, mine.last)
                               = RangeFrom(objects, shape, s3.last)

Seen(k) == \/ Contains(walk.listed, k)
           \/ CommonPrefix(walk.shape, k) # 0
                /\ Contains(walk.rolled, CommonPrefix(walk.shape, k))

\* A finished walk has listed every key that was in the bucket throughout, in
\* its own row or in its common prefix, whatever mix of index and origin pages
\* served it and whatever else changed.  (Of walks that ask for keys: a page
\* with max-keys 0 is empty and untruncated.)
WalkIsComplete ==
  walk.stage = "done" =>
    \A k \in RangeFrom(walk.kept, walk.shape, walk.shape.after) : Seen(k)

\* Nothing is listed twice.  Keys arrive in strictly increasing order, and each
\* was in the bucket at some moment of the walk.  A common prefix already
\* emitted does not reappear on a later page: "Keeping the cursor on the
\* underlying key is what prevents that prefix from reappearing on the next
\* page" (index.rs); only a key put into the prefix behind the cursor's back
\* brings it back.
NothingTwice ==
  /\ \A i, j \in DOMAIN walk.listed : i < j => walk.listed[i] < walk.listed[j]
  /\ Range(walk.listed) \subseteq walk.ever
  /\ \A i, j \in DOMAIN walk.rolled :
       i # j /\ walk.rolled[i] = walk.rolled[j] =>
         \E k \in walk.added : Common[k] = walk.rolled[i]

=============================================================================
