---------------------------- MODULE GoneRowsProofs --------------------------
(***************************************************************************)
(* The floor of GoneRows is a lower bound on every tombstone held, for any *)
(* set of keys, step, TTL and bound.  Inductively: what the current lap    *)
(* has passed is bounded by the lap floor, and finitely many tombstones    *)
(* are held, so a step that visits fewer than Step has reached the end.    *)
(***************************************************************************)
EXTENDS GoneRows, FiniteSetTheorems, WellFoundedInduction, TLAPS

Positive(b, t) == b # 0 /\ b <= t

LapBounds == \A k \in Held : k <= cursor => Positive(lapFloor, gone[k])

Inv == TypeOK /\ IsFiniteSet(Held) /\ FloorBoundsAll /\ LapBounds

\* The invariant of a state given by its parts.
HeldIn(g) == {k \in Key : g[k] # 0}
Good(g, c, f, l) ==
  /\ g \in [Key -> Nat] /\ c \in Key \cup {0} /\ f \in Nat /\ l \in Nat
  /\ IsFiniteSet(HeldIn(g))
  /\ \A k \in HeldIn(g) : Positive(f, g[k])
  /\ \A k \in HeldIn(g) : k <= c => Positive(l, g[k])

\* The invariant, as a predicate of the four variables.
LEMMA InvIsGood == Inv <=> Good(gone, cursor, floor, lapFloor)
  BY DEF Inv, Good, TypeOK, FloorBoundsAll, LapBounds, Held, HeldIn, Positive

\* The same after a step.
LEMMA InvIsGoodNext == Inv' <=> Good(gone', cursor', floor', lapFloor')
  BY DEF Inv, Good, TypeOK, FloorBoundsAll, LapBounds, Held, HeldIn, Positive

\* A nonempty set of natural numbers has a least element.
LEMMA LeastNat ==
  ASSUME NEW T \in SUBSET Nat, T # {}
  PROVE  \E x \in T : \A y \in T : x <= y
<1>1. PICK x \in T : \A y \in T : ~(<<y, x>> \in OpToRel(<, Nat))
  BY NatLessThanWellFounded, WFMin, Zenon
<1>2. \A y \in T : y < x => <<y, x>> \in OpToRel(<, Nat)
  BY DEF OpToRel
<1>3. \A y \in T : ~(y < x)
  BY <1>1, <1>2, Zenon
<1>4. \A y \in T : x <= y
  BY <1>3
<1> QED
  BY <1>4

\* A step that visits fewer than Step tombstones visits all that are ahead.
LEMMA ShortStepIsLast ==
  ASSUME NEW g, IsFiniteSet(HeldIn(g)), NEW c,
         Cardinality(Visited(g, c)) < Step
  PROVE  \A k \in HeldIn(g) : k > c => k \in Visited(g, c)
<1> DEFINE ahead == {k \in Key : g[k] # 0 /\ k > c}
           missed == {k \in ahead : k \notin Visited(g, c)}
<1>1. SUFFICES ASSUME missed # {} PROVE FALSE
  BY DEF HeldIn
<1>2. missed \in SUBSET Nat
  BY GoneAssumption, Zenon
<1>3. PICK m \in missed : \A y \in missed : m <= y
  BY <1>1, <1>2, LeastNat, Zenon
<1> DEFINE before == {j \in ahead : j < m}
<1>4. before \in SUBSET Visited(g, c)
  BY <1>2, <1>3, GoneAssumption
<1>5. Visited(g, c) \in SUBSET HeldIn(g)
  BY DEF Visited, HeldIn
<1>6. IsFiniteSet(Visited(g, c))
  BY <1>5, FS_Subset
<1>7. Cardinality(before) <= Cardinality(Visited(g, c))
  BY <1>4, <1>6, FS_Subset
<1>8. Cardinality(before) \in Nat /\ Cardinality(Visited(g, c)) \in Nat
  BY <1>4, <1>6, FS_Subset, FS_CardinalityType
<1>9. ~(Cardinality(before) < Step)
  BY <1>3 DEF Visited
<1> QED
  BY <1>7, <1>8, <1>9, GoneAssumption

\* A sweep leaves a good state: it keeps what its lap floor bounds, and takes
\* that floor over only when the lap is complete.
LEMMA SweptGood ==
  ASSUME Inv, NEW cutoff \in Nat, NEW g \in Swept(cutoff)
  PROVE  Good(g.gone, g.cursor, g.floor, g.lapFloor)
<1> DEFINE visited == Visited(gone, cursor)
           expired == {k \in visited : Old(k, cutoff)}
           wraps == Cardinality(visited) < Step
           seen == {gone[k] : k \in visited \ expired} \cup ({lapFloor} \ {0})
<1>1. PICK last \in IF wraps THEN {0} ELSE Last(visited), lap \in LapFloors(visited \ expired) :
        g = [gone |-> [k \in Key |-> IF k \in expired THEN 0 ELSE gone[k]],
             cursor |-> last,
             floor |-> IF wraps THEN lap ELSE floor,
             lapFloor |-> IF wraps THEN 0 ELSE lap]
  BY DEF Swept
<1>2. /\ gone \in [Key -> Nat] /\ cursor \in Key \cup {0} /\ floor \in Nat /\ lapFloor \in Nat
      /\ IsFiniteSet(HeldIn(gone))
      /\ \A k \in HeldIn(gone) : Positive(floor, gone[k])
      /\ \A k \in HeldIn(gone) : k <= cursor => Positive(lapFloor, gone[k])
  BY InvIsGood DEF Good
<1>3. visited \in SUBSET HeldIn(gone) /\ \A k \in visited : k > cursor
  BY DEF Visited, HeldIn
<1>4. lap \in Nat /\ (lapFloor # 0 => Positive(lap, lapFloor))
      /\ \A k \in visited \ expired : Positive(lap, gone[k])
  <2>1. seen \in SUBSET (Nat \ {0})
    BY <1>2, <1>3 DEF HeldIn
  <2>2. lap \in IF seen = {} THEN {0} ELSE Least(seen)
    BY Zenon DEF LapFloors
  <2> QED
    BY <1>2, <2>1, <2>2, Zenon DEF Least, Positive
<1>5. last \in Key \cup {0}
  BY <1>3 DEF Last, HeldIn
<1>6. HeldIn(g.gone) = HeldIn(gone) \ expired
  BY <1>1, <1>2 DEF HeldIn
<1>7. IsFiniteSet(HeldIn(g.gone)) /\ g.gone \in [Key -> Nat]
  <2>1. g.gone \in [Key -> Nat]
    BY <1>1, <1>2
  <2> HIDE DEF expired
  <2> QED
    BY <1>2, <1>6, <2>1, FS_Subset
<1>8. \A k \in HeldIn(g.gone) : g.gone[k] = gone[k] /\ k \in Key /\ k \notin expired
  BY <1>1, <1>6 DEF HeldIn
<1>9. ASSUME NEW k \in HeldIn(g.gone), k <= cursor \/ k \in visited
      PROVE  Positive(lap, gone[k])
  <2>1. CASE k \in visited
    BY <1>4, <1>8, <2>1
  <2>2. CASE k <= cursor
    <3>1. Positive(lapFloor, gone[k])
      BY <1>2, <1>6, <2>2
    <3> QED
      BY <1>2, <1>4, <1>8, <3>1 DEF Positive
  <2> QED
    BY <1>9, <2>1, <2>2
<1>10. CASE wraps
  <2>1. \A k \in HeldIn(gone) : k <= cursor \/ k \in visited
    BY <1>2, <1>10, ShortStepIsLast, GoneAssumption DEF HeldIn
  <2>2. \A k \in HeldIn(g.gone) : Positive(lap, g.gone[k])
    BY <1>6, <1>8, <1>9, <2>1
  <2>3. g.cursor = 0 /\ g.floor = lap /\ g.lapFloor = 0
    BY <1>1, <1>10
  <2>4. \A k \in HeldIn(g.gone) : ~(k <= g.cursor)
    <3>1. \A k \in Key : ~(k <= 0)
      BY GoneAssumption
    <3> QED
      BY <1>8, <2>3, <3>1, Zenon
  <2> HIDE DEF visited, expired
  <2> QED
    BY <1>4, <1>7, <2>2, <2>3, <2>4 DEF Good
<1>11. CASE ~wraps
  <2>1. last \in visited /\ \A j \in visited : j <= last
    BY <1>11 DEF Last
  <2>2. \A k \in HeldIn(gone) : k <= last => k <= cursor \/ k \in visited
    <3> SUFFICES ASSUME NEW k \in HeldIn(gone), k <= last, k > cursor PROVE k \in visited
      BY <1>2, GoneAssumption DEF HeldIn
    <3> DEFINE ahead == {j \in Key : gone[j] # 0 /\ j > cursor}
               B(x) == {j \in ahead : j < x}
    <3>1. Cardinality(B(last)) < Step
      BY <2>1 DEF Visited
    <3>2. B(k) \in SUBSET B(last) /\ B(last) \in SUBSET HeldIn(gone)
      <4>1. last \in Nat /\ k \in Nat /\ \A j \in Key : j \in Nat
        BY <1>5, GoneAssumption DEF HeldIn
      <4>2. \A j \in Key : j < k => j < last
        BY <4>1
      <4> QED
        BY <4>2, Zenon DEF HeldIn
    <3>3. /\ Cardinality(B(k)) <= Cardinality(B(last))
          /\ Cardinality(B(k)) \in Nat /\ Cardinality(B(last)) \in Nat
      <4>1. IsFiniteSet(B(last))
        BY <1>2, <3>2, FS_Subset
      <4> HIDE DEF B
      <4> QED
        BY <3>2, <4>1, FS_Subset, FS_CardinalityType
    <3>4. Cardinality(B(k)) < Step
      BY <3>1, <3>3, GoneAssumption
    <3>5. k \in ahead
      BY DEF HeldIn
    <3> QED
      BY <3>4, <3>5 DEF Visited
  <2>3. g.cursor = last /\ g.floor = floor /\ g.lapFloor = lap
    BY <1>1, <1>11
  <2>4. \A k \in HeldIn(g.gone) : k <= g.cursor => Positive(lap, g.gone[k])
    BY <1>6, <1>8, <1>9, <2>2, <2>3
  <2>5. \A k \in HeldIn(g.gone) : Positive(floor, g.gone[k])
    BY <1>2, <1>6, <1>8
  <2> HIDE DEF visited, expired
  <2> QED
    BY <1>2, <1>4, <1>5, <1>7, <2>3, <2>4, <2>5 DEF Good
<1> QED
  BY <1>10, <1>11


\* Inserting a tombstone into a good state leaves a good one: it lowers the
\* floor, and the lap floor when the lap will not come to it.
LEMMA InsertGood ==
  ASSUME NEW g, Good(g.gone, g.cursor, g.floor, g.lapFloor),
         NEW k \in Key, NEW at \in Nat \ {0}, Insert(g, k, at)
  PROVE  Inv'
<1>1. /\ gone' = [g.gone EXCEPT ![k] = at] /\ cursor' = g.cursor
      /\ floor' = Lower(g.floor, at)
      /\ lapFloor' = IF g.cursor # 0 /\ k <= g.cursor
                     THEN Lower(g.lapFloor, at) ELSE g.lapFloor
  BY DEF Insert
<1>2. /\ g.gone \in [Key -> Nat] /\ g.cursor \in Key \cup {0}
      /\ g.floor \in Nat /\ g.lapFloor \in Nat /\ IsFiniteSet(HeldIn(g.gone))
      /\ \A j \in HeldIn(g.gone) : Positive(g.floor, g.gone[j])
      /\ \A j \in HeldIn(g.gone) : j <= g.cursor => Positive(g.lapFloor, g.gone[j])
  BY DEF Good
<1>3. gone' \in [Key -> Nat] /\ HeldIn(gone') = HeldIn(g.gone) \cup {k}
  BY <1>1, <1>2 DEF HeldIn
<1>4. IsFiniteSet(HeldIn(gone'))
  BY <1>2, <1>3, FS_AddElement
<1>5. ASSUME NEW b \in Nat
      PROVE  /\ Lower(b, at) \in Nat /\ Positive(Lower(b, at), at)
             /\ \A t \in Nat : Positive(b, t) => Positive(Lower(b, at), t)
  BY DEF Lower, Positive
<1>6. \A j \in HeldIn(gone') : /\ j = k => gone'[j] = at
                               /\ j # k => j \in HeldIn(g.gone) /\ gone'[j] = g.gone[j]
                                           /\ g.gone[j] \in Nat
  BY <1>1, <1>2 DEF HeldIn
<1>7. \A j \in HeldIn(gone') : Positive(floor', gone'[j])
  BY <1>1, <1>2, <1>5, <1>6
<1>8. \A j \in HeldIn(gone') : j <= cursor' => Positive(lapFloor', gone'[j])
  <2> TAKE j \in HeldIn(gone')
  <2> HAVE j <= cursor'
  <2>1. CASE j = k
    <3>1. g.cursor # 0
      BY <1>1, <2>1, GoneAssumption
    <3> QED
      BY <1>1, <1>2, <1>5, <1>6, <2>1, <3>1
  <2>2. CASE j # k
    <3>1. Positive(g.lapFloor, g.gone[j]) /\ gone'[j] = g.gone[j] /\ g.gone[j] \in Nat
      BY <1>1, <1>2, <1>6, <2>2
    <3> QED
      BY <1>1, <1>2, <1>5, <3>1
  <2> QED
    BY <2>1, <2>2
<1>9. cursor' \in Key \cup {0} /\ floor' \in Nat /\ lapFloor' \in Nat
  BY <1>1, <1>2, <1>5
<1> QED
  BY <1>3, <1>4, <1>7, <1>8, <1>9, InvIsGoodNext DEF Good

\* Raising a tombstone inserts it or leaves the state as it is.
LEMMA RaiseGood ==
  ASSUME NEW g, Good(g.gone, g.cursor, g.floor, g.lapFloor),
         NEW k \in Key, NEW at \in Nat \ {0}, Raise(g, k, at)
  PROVE  Inv'
<1>1. CASE Insert(g, k, at)
  BY <1>1, InsertGood
<1>2. CASE Keep(g)
  BY <1>2, InvIsGoodNext DEF Keep
<1> QED
  BY <1>1, <1>2 DEF Raise

\* Every operation keeps the invariant.
LEMMA NextInv == Inv /\ [Next]_vars => Inv'
<1> SUFFICES ASSUME Inv, [Next]_vars PROVE Inv'
  OBVIOUS
<1> USE DEF Time
<1>1. Good(gone, cursor, floor, lapFloor)
  BY InvIsGood
<1>2. Good(Unswept.gone, Unswept.cursor, Unswept.floor, Unswept.lapFloor)
  BY <1>1 DEF Unswept
<1>3. Time \in SUBSET (Nat \ {0})
  BY GoneAssumption
<1>4. ASSUME NEW k \in Key, NEW ts \in Time, NEW first \in BOOLEAN, Delete(k, ts, first)
      PROVE  Inv'
  <2>1. PICK g \in SweepExpired(ts) : IF first THEN Insert(g, k, ts) ELSE Raise(g, k, ts)
    BY <1>4 DEF Delete
  <2>2. ts \in Nat \ {0}
    BY <1>3
  <2>3. Good(g.gone, g.cursor, g.floor, g.lapFloor)
    <3>1. CASE ts > TTL /\ g \in Swept(ts - TTL)
      <4>1. ts - TTL \in Nat
        BY <2>2, <3>1, GoneAssumption
      <4> QED
        BY <3>1, <4>1, SweptGood
    <3>2. CASE g = Unswept
      BY <1>2, <3>2
    <3> QED
      BY <2>1, <3>1, <3>2 DEF SweepExpired
  <2> QED
    BY <2>1, <2>2, <2>3, InsertGood, RaiseGood
<1>5. ASSUME NEW k \in Key, NEW ts \in Time, FoundAbsent(k, ts)
      PROVE  Inv'
  <2>1. ts \in Nat \ {0}
    BY <1>3
  <2> QED
    BY <1>2, <1>5, <2>1, RaiseGood DEF FoundAbsent
<1>6. ASSUME NEW k \in Key, Remove(k)
      PROVE  Inv'
  <2>1. gone' = [gone EXCEPT ![k] = 0] /\ gone \in [Key -> Nat]
    BY <1>1, <1>6 DEF Remove, Good
  <2>2. gone' \in [Key -> Nat] /\ HeldIn(gone') \in SUBSET HeldIn(gone)
        /\ \A j \in HeldIn(gone') : gone'[j] = gone[j]
    BY <2>1 DEF HeldIn
  <2>3. IsFiniteSet(HeldIn(gone'))
    BY <1>1, <2>2, FS_Subset DEF Good
  <2>4. Good(gone', cursor, floor, lapFloor)
    BY <1>1, <2>2, <2>3 DEF Good
  <2> QED
    BY <1>6, <2>4, InvIsGoodNext DEF Remove
<1>7. CASE Reset
  <2>1. gone' \in [Key -> Nat] /\ HeldIn(gone') = {}
    BY <1>7 DEF Reset, HeldIn
  <2>2. Good(gone', 0, 0, 0)
    BY <2>1, FS_EmptySet DEF Good
  <2> QED
    BY <1>7, <2>2, InvIsGoodNext DEF Reset
<1>8. CASE UNCHANGED vars
  BY <1>1, <1>8, InvIsGoodNext DEF vars
<1> QED
  BY <1>4, <1>5, <1>6, <1>7, <1>8 DEF Next

\* The empty state satisfies the invariant.
LEMMA InitInv == Init => Inv
<1> SUFFICES ASSUME Init PROVE Good(gone, cursor, floor, lapFloor)
  BY InvIsGood
<1>1. gone \in [Key -> Nat] /\ HeldIn(gone) = {}
  BY DEF Init, HeldIn
<1> QED
  BY <1>1, FS_EmptySet DEF Good, Init

\* Tombstones and both floors stay times and the cursor a key or the start of
\* the lap, through every delete, removal, reset and sweep step.
THEOREM GoneTyped == Spec => []TypeOK
<1>1. Inv => TypeOK
  BY DEF Inv
<1> QED
  BY <1>1, InitInv, NextInv, PTL DEF Spec

\* The floor is a lower bound on every tombstone held, whatever the order of
\* deletes, removals, sweeps and cutoffs, so the sweep's early return never
\* hides an expired tombstone.
THEOREM FloorIsLowerBound == Spec => []FloorBoundsAll
<1>1. Inv => FloorBoundsAll
  BY DEF Inv
<1> QED
  BY <1>1, InitInv, NextInv, PTL DEF Spec

\* A delete forgets only tombstones more than TTL older than itself: expiry
\* never brings an older write of a recently deleted key back into play.
THEOREM OnlyExpiredForgotten == Spec => SweepsOnlyExpired
<1>1. ASSUME Inv PROVE OnlyExpired
  <2> SUFFICES ASSUME NEW j \in Held, gone'[j] = 0,
                      NEW k \in Key, NEW ts \in Time, NEW first \in BOOLEAN,
                      Delete(k, ts, first)
               PROVE  gone[j] + TTL < ts
    BY DEF OnlyExpired
  <2>1. gone \in [Key -> Nat] /\ ts \in Nat \ {0} /\ j \in Key /\ gone[j] # 0
    BY <1>1, GoneAssumption DEF Inv, TypeOK, Time, Held
  <2>2. PICK g \in SweepExpired(ts) : IF first THEN Insert(g, k, ts) ELSE Raise(g, k, ts)
    BY DEF Delete
  <2> DEFINE expired == {i \in Visited(gone, cursor) : Old(i, ts - TTL)}
             kept == [i \in Key |-> IF i \in expired THEN 0 ELSE gone[i]]
  <2>3. g.gone = gone \/ (ts > TTL /\ g.gone = kept)
    <3>1. CASE g = Unswept
      BY <3>1 DEF Unswept
    <3>2. CASE ts > TTL /\ g \in Swept(ts - TTL)
      <4> DEFINE visited == Visited(gone, cursor)
                 wraps == Cardinality(visited) < Step
      <4>1. PICK last \in IF wraps THEN {0} ELSE Last(visited),
                 lap \in LapFloors(visited \ expired) :
              g = [gone |-> kept, cursor |-> last,
                   floor |-> IF wraps THEN lap ELSE floor,
                   lapFloor |-> IF wraps THEN 0 ELSE lap]
        BY <3>2 DEF Swept
      <4> HIDE DEF kept
      <4> QED
        BY <3>2, <4>1
    <3> QED
      BY <2>2, <3>1, <3>2 DEF SweepExpired
  <2>4. g.gone \in [Key -> Nat]
    BY <2>1, <2>3
  <2>5. gone' = g.gone \/ gone' = [g.gone EXCEPT ![k] = ts]
    BY <2>2 DEF Insert, Raise, Keep
  <2>6. g.gone[j] = 0
    BY <2>1, <2>4, <2>5
  <2>7. ts > TTL /\ Old(j, ts - TTL)
    BY <2>1, <2>3, <2>6
  <2> QED
    BY <2>1, <2>7, GoneAssumption DEF Old
<1> QED
  BY <1>1, InitInv, NextInv, PTL DEF Spec, SweepsOnlyExpired

=============================================================================
