--------------------------- MODULE ControlJournal ---------------------------
(***************************************************************************)
(* The durable control source (src/src/sync/control): callers append        *)
(* immutable records to the numbered slots of one bucket's history through  *)
(* conditional creates, and a reader scans the slots and projects the       *)
(* operations that have an intent and no outcome yet.                       *)
(*                                                                         *)
(* The store is external: a conditional create whose answer is lost may     *)
(* have been applied, dropped, or be on its way and land later.             *)
(***************************************************************************)
EXTENDS Naturals, Sequences, FiniteSets

CONSTANTS
  Caller,     \* processes that append; each runs one operation or admission
  Admits,     \* the callers that append a reader admission
  OpOf(_),    \* the operation (or reader) ID a caller uses
  KeyOf(_),   \* the key its operation affects
  MaxSlots,   \* limits.max_slots
  MaxProbes,  \* limits.max_append_probes
  MaxScan,    \* limits.max_scan_events
  Settings    \* the circumstances to consider, out of Setting

\* The circumstances a behaviour runs in, fixed by its first state.
Setting ==
  [callers : SUBSET Caller,   \* those who append
   from : SUBSET Nat,         \* the cursors a first attempt may start from
   scanning : BOOLEAN,        \* a reader runs beside the callers
   faults : Nat]              \* bound on store faults

ASSUME JournalAssumption ==
  /\ Admits \subseteq Caller
  /\ MaxSlots \in Nat \ {0} /\ MaxProbes \in Nat \ {0} /\ MaxScan \in Nat \ {0}
  /\ \A s \in Settings : s \in Setting

\* An append looks for its own ID from its cursor on, so a caller that takes up
\* an ID again must not begin past the record of the first: callers that share
\* an ID begin at slot zero.
ASSUME CursorAssumption ==
  \A s \in Settings :
    s.from = {0} \/ \A c, d \in s.callers : OpOf(c) = OpOf(d) => c = d

VARIABLES
  store,    \* slot -> record, NoRecord while the slot is absent
  flying,   \* conditional creates whose caller no longer waits for them
  call,     \* caller -> the append it is running
  reader,   \* the scanning reader and its PendingSet
  setting,  \* the circumstances
  faults    \* store faults so far

boundVars == <<setting, faults>>
vars == <<store, flying, call, reader, boundVars>>

Slot == 0..(MaxSlots - 1)
Op == {OpOf(c) : c \in Caller}
Key == {KeyOf(c) : c \in Caller}

\* at: an outcome's intent slot, an admission's incarnation.
Record == [kind : {"intent", "outcome", "admission"}, op : Op, key : Key, at : Nat,
           result : {"none", "committed", "rejected"}]

NoRecord == [kind |-> "absent"]

Intent(c) == [kind |-> "intent", op |-> OpOf(c), key |-> KeyOf(c), at |-> 0, result |-> "none"]
Admission(c) == [kind |-> "admission", op |-> OpOf(c), key |-> KeyOf(c), at |-> 1, result |-> "none"]
Outcome(c, at, result) ==
  [kind |-> "outcome", op |-> OpOf(c), key |-> KeyOf(c), at |-> at, result |-> result]

Present(s) == s \in Slot /\ store[s] # NoRecord

\* stage: what the caller has made durable so far.
NoCall(c) ==
  [pc |-> "idle", stage |-> "new", rec |-> IF c \in Admits THEN Admission(c) ELSE Intent(c),
   from |-> 0, slot |-> 0, probes |-> 0, result |-> "none"]

\* byOp holds by_op as a set of [op, key, at]; byKey is by_key.
NoPending == [next |-> 0, seen |-> {}, byOp |-> {}, byKey |-> [k \in Key |-> {}]]

NewReader ==
  [cursor |-> 0, page |-> <<>>, applying |-> FALSE, set |-> NoPending, refused |-> FALSE]

Init ==
  /\ store = [s \in Slot |-> NoRecord]
  /\ flying = {}
  /\ call = [c \in Caller |-> NoCall(c)]
  /\ reader = NewReader
  /\ setting \in Settings /\ faults = 0

Running(c) == call[c].pc \in {"predecessor", "probe", "bind", "put", "readback"}

Becomes(c, append) == call' = [call EXCEPT ![c] = append]

Step(c, pc) == Becomes(c, [call[c] EXCEPT !.pc = pc])

Return(c, result) ==
  Becomes(c, [call[c] EXCEPT !.pc = "returned", !.result = result])

\* The next slot is the next probe.
PastSlot(c) ==
  Becomes(c, [call[c] EXCEPT !.pc = "probe", !.slot = @ + 1, !.probes = @ + 1])

Fault == faults < setting.faults /\ faults' = faults + 1 /\ UNCHANGED setting

-----------------------------------------------------------------------------
(* Journal::append, one step per await.                                    *)

AppendFrom(c, from) ==
  Becomes(c, [call[c] EXCEPT !.pc = "predecessor", !.from = from, !.slot = from,
                             !.probes = 0, !.result = "none"])

\* Mutant: the cursor's predecessor is not checked.
TrustCursor(c) ==
  /\ call[c].pc = "predecessor"
  /\ Step(c, "probe")
  /\ UNCHANGED <<store, flying, reader, boundVars>>

ValidatePredecessor(c) ==
  /\ call[c].pc = "predecessor"
  /\ LET from == call[c].from
     IN  \/ (from = 0 \/ Present(from - 1)) /\ Step(c, "probe")
         \/ from > MaxSlots /\ Return(c, "capacity")
         \/ from # 0 /\ from - 1 \in Slot /\ ~Present(from - 1) /\ Return(c, "no_predecessor")
  /\ UNCHANGED <<store, flying, reader, boundVars>>

\* Mutant: any record of this operation is taken for the caller's own.
SameOp(held, rec) == held.op = rec.op

\* Byte equality of the two encodings.
SameRecord(held, rec) == held = rec

\* Mutant: the same operation on another key passes for another identity.
IdentityWithKey(held, rec) ==
  held.kind = rec.kind /\ held.op = rec.op /\ held.key = rec.key

SameIdentity(held, rec) ==
  /\ held.kind = rec.kind /\ held.op = rec.op
  /\ rec.kind # "intent" => held.at = rec.at

\* Mutant: a foreign record does not move the append on.
OccupiedStays(c) ==
  LET held == store[call[c].slot]
      rec  == call[c].rec
  IN  \/ SameRecord(held, rec) /\ Return(c, "recovered")
      \/ ~SameRecord(held, rec) /\ Step(c, "probe")

\* What an occupied slot means to the append: its own record, a conflicting
\* one under the same identity, or somebody else's, to be probed past.
Occupied(c) ==
  LET held == store[call[c].slot]
      rec  == call[c].rec
  IN  \/ SameRecord(held, rec) /\ Return(c, "recovered")
      \/ ~SameRecord(held, rec) /\ SameIdentity(held, rec) /\ Return(c, "conflict")
      \/ ~SameRecord(held, rec) /\ ~SameIdentity(held, rec) /\ PastSlot(c)

\* Mutant: one probe beyond the budget.
ProbeOneMore(c) ==
  /\ call[c].pc = "probe"
  /\ LET s == call[c].slot
     IN  \/ s >= MaxSlots /\ Return(c, "capacity")
         \/ s < MaxSlots /\ call[c].probes > MaxProbes /\ Return(c, "backpressured")
         \/ call[c].probes <= MaxProbes /\ Present(s) /\ Occupied(c)
         \/ call[c].probes <= MaxProbes /\ s \in Slot /\ ~Present(s) /\ Step(c, "bind")
  /\ UNCHANGED <<store, flying, reader, boundVars>>

Probe(c) ==
  /\ call[c].pc = "probe"
  /\ LET s == call[c].slot
     IN  \/ s >= MaxSlots /\ Return(c, "capacity")
         \/ s < MaxSlots /\ call[c].probes = MaxProbes /\ Return(c, "backpressured")
         \/ call[c].probes < MaxProbes /\ Present(s) /\ Occupied(c)
         \/ call[c].probes < MaxProbes /\ s \in Slot /\ ~Present(s) /\ Step(c, "bind")
  /\ UNCHANGED <<store, flying, reader, boundVars>>

\* An outcome must name an earlier slot that holds its own intent.
Bound(rec, slot) ==
  \/ rec.kind # "outcome"
  \/ /\ rec.at < slot /\ Present(rec.at)
     /\ store[rec.at].kind = "intent" /\ store[rec.at].op = rec.op /\ store[rec.at].key = rec.key

ValidateOutcomeBinding(c) ==
  /\ call[c].pc = "bind"
  /\ \/ Bound(call[c].rec, call[c].slot) /\ Step(c, "put")
     \/ ~Bound(call[c].rec, call[c].slot) /\ Return(c, "unbound")
  /\ UNCHANGED <<store, flying, reader, boundVars>>

Create(slot, rec) ==
  store' = IF store[slot] = NoRecord THEN [store EXCEPT ![slot] = rec] ELSE store

\* put_if_absent answered: Created ends the append, Occupied reads back.
Put(c) ==
  /\ call[c].pc = "put"
  /\ Create(call[c].slot, call[c].rec)
  /\ \/ ~Present(call[c].slot) /\ Return(c, "created")
     \/ Present(call[c].slot) /\ Step(c, "readback")
  /\ UNCHANGED <<flying, reader, boundVars>>

\* PutVerdict::Unknown: applied, dropped, or still on its way.
PutUnknown(c) ==
  /\ call[c].pc = "put" /\ Fault
  /\ \/ Create(call[c].slot, call[c].rec) /\ UNCHANGED flying
     \/ UNCHANGED <<store, flying>>
     \/ flying' = flying \cup {[slot |-> call[c].slot, rec |-> call[c].rec]} /\ UNCHANGED store
  /\ Step(c, "readback")
  /\ UNCHANGED reader

Land(m) ==
  /\ m \in flying
  /\ Create(m.slot, m.rec)
  /\ flying' = flying \ {m}
  /\ UNCHANGED <<call, reader, boundVars>>

\* Mutant: an absent slot is skipped after an ambiguous create.
ReadbackSkips(c) ==
  /\ call[c].pc = "readback"
  /\ \/ Present(call[c].slot) /\ Occupied(c)
     \/ ~Present(call[c].slot) /\ PastSlot(c)
  /\ UNCHANGED <<store, flying, reader, boundVars>>

Readback(c) ==
  /\ call[c].pc = "readback"
  /\ \/ Present(call[c].slot) /\ Occupied(c)
     \/ ~Present(call[c].slot) /\ Return(c, "unknown")
  /\ UNCHANGED <<store, flying, reader, boundVars>>

\* A store error, or the death of the calling process, ends the append.
Fail(c) ==
  /\ Running(c) /\ Fault
  /\ \/ flying' = flying
     \/ call[c].pc = "put" /\ flying' = flying \cup {[slot |-> call[c].slot, rec |-> call[c].rec]}
  /\ Return(c, "store")
  /\ UNCHANGED <<store, reader>>

-----------------------------------------------------------------------------
(* The callers: an intent, then at most one outcome for it; or an admission. *)

Start(c) ==
  /\ c \in setting.callers /\ call[c].pc = "idle"
  /\ \E from \in setting.from : AppendFrom(c, from)
  /\ UNCHANGED <<store, flying, reader, boundVars>>

Acked(c) == call[c].pc = "returned" /\ call[c].result \in {"created", "recovered"}

\* The intent is durable: the operation's result becomes the next record.
Proceed(c) ==
  /\ Acked(c) /\ call[c].stage = "new" /\ c \notin Admits
  /\ \E result \in {"committed", "rejected"} :
       Becomes(c, [call[c] EXCEPT !.pc = "idle", !.stage = "intended",
                                  !.rec = Outcome(c, call[c].slot, result)])
  /\ UNCHANGED <<store, flying, reader, boundVars>>

\* The identical append again: from the original cursor (or from slot zero,
\* by a restarted process), or from the verified continuation cursor.
Retry(c) ==
  /\ call[c].pc = "returned"
  /\ \/ call[c].result \in {"unknown", "store"} /\ \E from \in {0, call[c].from} : AppendFrom(c, from)
     \/ call[c].result = "backpressured" /\ AppendFrom(c, call[c].slot)
     \/ call[c].result \in {"no_predecessor", "unbound"} /\ Step(c, "idle")
  /\ UNCHANGED <<store, flying, reader, boundVars>>

-----------------------------------------------------------------------------
(* The reader: Journal::scan, then PendingSet::apply_at of each record.    *)

\* One slot of a page: up to the first absent slot or the event budget.
ScanSlot ==
  /\ setting.scanning /\ ~reader.applying /\ ~reader.refused
  /\ LET s == reader.cursor + Len(reader.page)
     IN  /\ Present(s) /\ Len(reader.page) < MaxScan
         /\ reader' = [reader EXCEPT !.page = Append(@, store[s])]
  /\ UNCHANGED <<store, flying, call, boundVars>>

\* Mutant: only a full page is handed on.
ScanEndWhenFull ==
  /\ ~reader.applying /\ Len(reader.page) = MaxScan
  /\ reader' = [reader EXCEPT !.applying = TRUE]
  /\ UNCHANGED <<store, flying, call, boundVars>>

\* The page ends; the byte budget may end any page that holds a record.
ScanEnd ==
  /\ ~reader.applying /\ reader.page # <<>>
  /\ reader' = [reader EXCEPT !.applying = TRUE]
  /\ UNCHANGED <<store, flying, call, boundVars>>

Entry(rec, at) == [op |-> rec.op, key |-> rec.key, at |-> at]

Accepts(set, slot, rec) ==
  /\ slot = set.next
  /\ rec.kind = "intent" => rec.op \notin set.seen
  /\ rec.kind = "outcome" => Entry(rec, rec.at) \in set.byOp /\ rec.op \in set.byKey[rec.key]

\* Mutant: an outcome lifts the fence of its key, whoever else holds it.
ProjectedClears(set, slot, rec) ==
  CASE rec.kind = "intent" ->
         [set EXCEPT !.next = slot + 1, !.seen = @ \cup {rec.op},
                     !.byOp = @ \cup {Entry(rec, slot)}, !.byKey[rec.key] = @ \cup {rec.op}]
    [] rec.kind = "outcome" ->
         [set EXCEPT !.next = slot + 1, !.byOp = @ \ {Entry(rec, rec.at)},
                     !.byKey[rec.key] = {}]
    [] rec.kind = "admission" -> [set EXCEPT !.next = slot + 1]

Projected(set, slot, rec) ==
  CASE rec.kind = "intent" ->
         [set EXCEPT !.next = slot + 1, !.seen = @ \cup {rec.op},
                     !.byOp = @ \cup {Entry(rec, slot)}, !.byKey[rec.key] = @ \cup {rec.op}]
    [] rec.kind = "outcome" ->
         [set EXCEPT !.next = slot + 1, !.byOp = @ \ {Entry(rec, rec.at)},
                     !.byKey[rec.key] = @ \ {rec.op}]
    [] rec.kind = "admission" -> [set EXCEPT !.next = slot + 1]

ApplyAt ==
  /\ reader.applying /\ ~reader.refused
  /\ LET rec == Head(reader.page)
     IN  \/ /\ Accepts(reader.set, reader.cursor, rec)
            /\ reader' = [reader EXCEPT !.set = Projected(@, reader.cursor, rec),
                                        !.cursor = @ + 1, !.page = Tail(@),
                                        !.applying = Tail(reader.page) # <<>>]
         \/ /\ ~Accepts(reader.set, reader.cursor, rec)
            /\ reader' = [reader EXCEPT !.refused = TRUE]
  /\ UNCHANGED <<store, flying, call, boundVars>>

\* The projection is in memory: a restarted reader replays from slot zero.
ReaderRestart ==
  /\ reader # NewReader /\ Fault
  /\ reader' = NewReader
  /\ UNCHANGED <<store, flying, call>>

-----------------------------------------------------------------------------
AppendStep(c) ==
  \/ ValidatePredecessor(c) \/ Probe(c) \/ ValidateOutcomeBinding(c) \/ Put(c) \/ Readback(c)

ReaderStep == ScanSlot \/ ScanEnd \/ ApplyAt

Next ==
  \/ \E c \in Caller : Start(c) \/ Proceed(c) \/ Retry(c)
  \/ \E c \in Caller : AppendStep(c) \/ PutUnknown(c) \/ Fail(c)
  \/ \E m \in flying : Land(m)
  \/ ReaderStep \/ ReaderRestart

Spec == Init /\ [][Next]_vars

\* The store answers, callers retry, and the reader keeps scanning; which
\* operations get an outcome at all is left open.
Fairness ==
  /\ \A c \in Caller : WF_vars(AppendStep(c) \/ Retry(c))
  /\ WF_vars(ScanSlot) /\ WF_vars(ScanEnd) /\ WF_vars(ApplyAt)

FairSpec == Spec /\ Fairness

-----------------------------------------------------------------------------
AppendCall == [pc : {"idle", "predecessor", "probe", "bind", "put", "readback", "returned"},
           stage : {"new", "intended"}, rec : Record, from : Nat, slot : Nat, probes : 0..MaxProbes,
           result : {"none", "created", "recovered", "conflict", "capacity", "backpressured",
                     "unbound", "no_predecessor", "unknown", "store"}]

\* Every variable has its type; in particular no append probes more slots than
\* its budget (Limits::max_append_probes) and no slot is written past the last.
TypeOK ==
  /\ store \in [Slot -> Record \cup {NoRecord}]
  /\ flying \subseteq [slot : Slot, rec : Record]
  /\ call \in [Caller -> AppendCall]
  /\ \A c \in Caller : call[c].pc \in {"bind", "put", "readback"} => call[c].slot \in Slot
  /\ reader.cursor \in Nat /\ reader.set.next \in Nat
  /\ reader.set.byOp \subseteq [op : Op, key : Key, at : Slot]
  /\ reader.set.byKey \in [Key -> SUBSET Op]
  /\ setting \in Setting /\ faults \in 0..setting.faults

\* No absent slot has a record behind it, whatever cursor a caller starts from,
\* whichever answers are lost and whenever a delayed create lands ("No writer
\* skips a slot").  A hole would end every scan for good.
NoHoles ==
  \A s \in Slot : Present(s) => \A t \in 0..s : Present(t)

\* An append that reported success left exactly its record at the slot before
\* the cursor it returned.
AckedIsStored ==
  \A c \in Caller : Acked(c) => Present(call[c].slot) /\ store[call[c].slot] = call[c].rec

\* What a caller has been told of its current append.
Told ==
  [c \in Caller |-> IF Acked(c) THEN {[slot |-> call[c].slot, rec |-> call[c].rec]} ELSE {}]

Log == INSTANCE SlotLog WITH Value <- Record, Nothing <- NoRecord,
                             log <- store, told <- Told, read <- reader.cursor

\* The journal implements the abstract log: whatever cursor a caller starts
\* from, whichever answers are lost and whenever a delayed create lands, slots
\* are filled in order ("No writer skips a slot") and never change, success is
\* reported only for what is stored, and the reader passes only filled slots.
ImplementsLog == Log!Spec

Identity(rec) ==
  <<rec.kind, rec.op, IF rec.kind = "intent" THEN 0 ELSE rec.at>>

\* No identity is stored twice, although the same append is retried after lost
\* answers while its first create may still be on its way.
StoredOnce ==
  \A s, t \in Slot :
    Present(s) /\ Present(t) /\ Identity(store[s]) = Identity(store[t]) => s = t

\* The prefix before slot n has an outcome for the intent in slot t.
Closed(t, n) ==
  \E u \in Slot : u < n /\ Present(u) /\ store[u].kind = "outcome" /\ store[u].at = t

IsOpen(t, n) == t < n /\ Present(t) /\ store[t].kind = "intent" /\ ~Closed(t, n)

\* The operations the prefix before slot n leaves open.
Open(n) == {Entry(store[s], s) : s \in {t \in Slot : IsOpen(t, n)}}

\* The projection holds exactly the operations its prefix leaves open, under
\* each key every one of them, and never refuses what callers appended: an
\* overlapping write cannot lift another's fence, a replay gives the same set.
ProjectionExact ==
  /\ ~reader.refused
  /\ reader.set.next = reader.cursor
  /\ reader.set.byOp = Open(reader.cursor)
  /\ \A k \in Key : reader.set.byKey[k] = {e.op : e \in {f \in reader.set.byOp : f.key = k}}

\* Every append comes to an end: the probe budget bounds its loop.
AppendsEnd == \A c \in Caller : []<>~Running(c)

\* A durable outcome reaches the reader, and its operation stops fencing its
\* key: again and again the reader lags behind no outcome.
OutcomesReach ==
  []<>(\A c \in Caller : Acked(c) /\ call[c].stage = "intended" =>
         \A e \in reader.set.byOp : e.op # OpOf(c))
=============================================================================
