------------------------------- MODULE GoneRows -----------------------------
(***************************************************************************)
(* A bucket's delete tombstones and the incremental sweep that forgets the *)
(* expired ones (src/src/index/rows.rs, driven by the index operations of  *)
(* src/src/index.rs).  The sweep visits Step tombstones per delete, from a *)
(* cursor, and skips everything while a lower bound on the times held, the *)
(* floor, has not expired.  Key order is number order; 0 is `None`.        *)
(***************************************************************************)
EXTENDS Naturals, FiniteSets

CONSTANTS
  Key,       \* the object keys
  TTL,       \* TOMBSTONE_TTL
  Step,      \* SWEEP_STEP: tombstones one sweep visits
  PruneLen,  \* TOMBSTONE_PRUNE_LEN: no sweep while at most this many are held
  MaxTime    \* bound on deletion times

ASSUME GoneAssumption ==
  /\ Key \subseteq Nat \ {0}
  /\ TTL \in Nat /\ Step \in Nat \ {0} /\ PruneLen \in Nat /\ MaxTime \in Nat

VARIABLES
  gone,      \* the tombstones: per key its deletion time
  cursor,    \* the last key the current lap visited
  floor,     \* lower bound on every deletion time held
  lapFloor   \* lowest time the lap kept or saw inserted behind its cursor

vars == <<gone, cursor, floor, lapFloor>>

Time == 1..MaxTime
Held == {k \in Key : gone[k] # 0}

\* The lower of an optional bound and a time.
Lower(bound, at) == IF bound = 0 \/ at < bound THEN at ELSE bound

Init == /\ gone = [k \in Key |-> 0]
        /\ cursor = 0 /\ floor = 0 /\ lapFloor = 0

-----------------------------------------------------------------------------
\* The tombstones of g the next sweep step visits: the first Step behind c.
Visited(g, c) ==
  LET ahead == {k \in Key : g[k] # 0 /\ k > c}
  IN  {k \in ahead : Cardinality({j \in ahead : j < k}) < Step}

\* Mutant: the cursor moves one key past the last one visited.
LastAndOne(ks) == {k + 1 : k \in {i \in ks : \A j \in ks : j <= i}}

\* The greatest key and the least time of a set, each as a set.
Last(ks) == {k \in ks : \A j \in ks : j <= k}
Least(ts) == {t \in ts : \A u \in ts : t <= u}

\* Mutant: a tombstone expires at its TTL, not after it.
OldOrDue(k, cutoff) == gone[k] <= cutoff

Old(k, cutoff) == gone[k] < cutoff

\* The lap's floor after a step that kept these tombstones, as a set.
LapFloors(kept) ==
  LET seen == {gone[k] : k \in kept} \cup ({lapFloor} \ {0})
  IN  IF seen = {} THEN {0} ELSE Least(seen)

\* The states a sweep at a cutoff leaves, as a set.  A step that visits fewer
\* than Step tombstones ends the lap and its floor becomes the new one.
Swept(cutoff) ==
  LET visited == Visited(gone, cursor)
      expired == {k \in visited : Old(k, cutoff)}
      wraps == Cardinality(visited) < Step
  IN  {[gone |-> [k \in Key |-> IF k \in expired THEN 0 ELSE gone[k]],
        cursor |-> last,
        floor |-> IF wraps THEN lap ELSE floor,
        lapFloor |-> IF wraps THEN 0 ELSE lap]
       : last \in IF wraps THEN {0} ELSE Last(visited),
         lap \in LapFloors(visited \ expired)}

Unswept == [gone |-> gone, cursor |-> cursor, floor |-> floor, lapFloor |-> lapFloor]

\* sweep_expired, and the conditions under which a delete at ts runs it.
SweepExpired(ts) ==
  IF /\ Cardinality(Held) > PruneLen /\ ts > TTL
     /\ floor # 0 /\ floor < ts - TTL
  THEN Swept(ts - TTL) ELSE {Unswept}

\* Mutant: an insert behind the cursor does not lower the lap's floor.
InsertAhead(g, k, at) ==
  /\ gone' = [g.gone EXCEPT ![k] = at]
  /\ cursor' = g.cursor
  /\ floor' = Lower(g.floor, at)
  /\ lapFloor' = g.lapFloor

\* Mutant: only the first insert sets the floor.
InsertKeepsFloor(g, k, at) ==
  /\ gone' = [g.gone EXCEPT ![k] = at]
  /\ cursor' = g.cursor
  /\ floor' = IF g.floor = 0 THEN at ELSE g.floor
  /\ lapFloor' = IF g.cursor # 0 /\ k <= g.cursor THEN Lower(g.lapFloor, at) ELSE g.lapFloor

Insert(g, k, at) ==
  /\ gone' = [g.gone EXCEPT ![k] = at]
  /\ cursor' = g.cursor
  /\ floor' = Lower(g.floor, at)
  /\ lapFloor' = IF g.cursor # 0 /\ k <= g.cursor THEN Lower(g.lapFloor, at) ELSE g.lapFloor

Keep(g) ==
  gone' = g.gone /\ cursor' = g.cursor /\ floor' = g.floor /\ lapFloor' = g.lapFloor

Raise(g, k, at) ==
  \/ g.gone[k] < at /\ Insert(g, k, at)
  \/ g.gone[k] >= at /\ Keep(g)

\* apply_del: sweep, then record the delete; the first mutation of a key in a
\* rebuild replaces its tombstone, any other raises it.
Delete(k, ts, first) ==
  \E g \in SweepExpired(ts) : IF first THEN Insert(g, k, ts) ELSE Raise(g, k, ts)

\* A fenced key found absent: resolve_uncertain_key raises without sweeping.
FoundAbsent(k, at) == Raise(Unswept, k, at)

\* A put that opens a rebuild's history of k, or a fenced key found present.
Remove(k) ==
  /\ gone[k] # 0
  /\ gone' = [gone EXCEPT ![k] = 0]
  /\ UNCHANGED <<cursor, floor, lapFloor>>

\* A rebuild starts the bucket afresh.
Reset == gone' = [k \in Key |-> 0] /\ cursor' = 0 /\ floor' = 0 /\ lapFloor' = 0

Next ==
  \/ \E k \in Key, ts \in Time, first \in BOOLEAN : Delete(k, ts, first)
  \/ \E k \in Key, ts \in Time : FoundAbsent(k, ts)
  \/ \E k \in Key : Remove(k)
  \/ Reset

Spec == Init /\ [][Next]_vars

-----------------------------------------------------------------------------
\* Tombstones and bounds are times, the cursor is a key.
TypeOK ==
  /\ gone \in [Key -> Nat] /\ cursor \in Key \cup {0}
  /\ floor \in Nat /\ lapFloor \in Nat

\* The floor never passes a tombstone that is held: the sweep's early return
\* ("no held tombstone can be that old") never hides an expired one, however
\* deletes, removals and laps with different cutoffs interleave.
FloorBoundsAll == \A k \in Held : floor # 0 /\ floor <= gone[k]

\* A delete at ts forgets only other deletes more than TTL older than itself.
OnlyExpired ==
  \A j \in Held : gone'[j] = 0 =>
    \A k \in Key, ts \in Time, first \in BOOLEAN :
      Delete(k, ts, first) => gone[j] + TTL < ts
SweepsOnlyExpired == [][OnlyExpired]_vars

\* Once the only thing that happens is that some key is deleted, late, over and
\* over, in a bucket that holds too many tombstones, the sweep's laps come round
\* to every other tombstone that is expired by then: the floor, the lap floor
\* and the cursor strand none.
LateDelete(d) == Delete(d, MaxTime, FALSE)
NoneStranded ==
  \A d \in Key :
    (WF_vars(LateDelete(d)) /\ <>[][LateDelete(d)]_vars) =>
      \A k \in Key : <>[](\/ gone[k] = 0 \/ gone[k] + TTL >= MaxTime
                          \/ Cardinality(Held) <= PruneLen)

=============================================================================
