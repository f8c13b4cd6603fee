------------------------ MODULE ControlJournalProofs ------------------------
(***************************************************************************)
(* Proofs about ControlJournal, for any callers, cursors, limits and store  *)
(* faults: the slot chain has no hole, a reported append is durable, the    *)
(* journal implements the abstract log, no identity is stored twice, and    *)
(* the projection holds exactly what its prefix leaves open.                *)
(***************************************************************************)
EXTENDS ControlJournal, TLAPS

\* Every slot an append has passed, or put a create beyond, is present.
Shape ==
  /\ store \in [Slot -> Record \cup {NoRecord}]
  /\ call \in [Caller -> AppendCall]
  /\ flying \subseteq [slot : Slot, rec : Record]

Passed ==
  /\ \A c \in Caller :
       call[c].pc \in {"probe", "bind", "put", "readback"} =>
         \A t \in Slot : t < call[c].slot => Present(t)
  /\ \A c \in Caller :
       call[c].pc \in {"bind", "put", "readback"} =>
         call[c].slot \in Slot /\ call[c].probes < MaxProbes
  /\ \A c \in Caller : call[c].pc = "predecessor" => call[c].slot = call[c].from
  /\ \A m \in flying : \A t \in Slot : t < m.slot => Present(t)

Inv == Shape /\ Passed /\ NoHoles /\ AckedIsStored

IInv == Inv /\ setting \in Settings

-----------------------------------------------------------------------------
LEMMA SlotNat == Slot \subseteq Nat
BY JournalAssumption DEF Slot

\* A record is never the absent marker.
LEMMA RecordPresent == \A r \in Record : r # NoRecord
<1> SUFFICES ASSUME NEW r \in Record, r = NoRecord PROVE FALSE
  OBVIOUS
<1>1. r.kind \in {"intent", "outcome", "admission"}
  BY DEF Record
<1>2. NoRecord.kind = "absent"
  BY DEF NoRecord
<1> QED BY <1>1, <1>2

\* The records callers append have the record type.
LEMMA CallerRecords ==
  ASSUME NEW c \in Caller, NEW at \in Nat, NEW result \in {"committed", "rejected"}
  PROVE  /\ Intent(c) \in Record
         /\ Admission(c) \in Record
         /\ Outcome(c, at, result) \in Record
<1>1. OpOf(c) \in Op /\ KeyOf(c) \in Key
  BY DEF Op, Key
<1> QED BY <1>1 DEF Intent, Admission, Outcome, Record

\* A conditional create keeps what is present and leaves no hole when
\* everything below its slot is present.
LEMMA CreateKeeps ==
  ASSUME Shape, NEW s \in Slot, NEW rec \in Record, Create(s, rec),
         \A t \in Slot : t < s => Present(t), NoHoles
  PROVE  /\ store' \in [Slot -> Record \cup {NoRecord}]
         /\ \A t \in Slot : Present(t) => Present(t)' /\ store'[t] = store[t]
         /\ Present(s)'
         /\ ~Present(s) => store'[s] = rec
         /\ NoHoles'
<1>1. store' \in [Slot -> Record \cup {NoRecord}]
  BY DEF Shape, Create
<1>2. \A t \in Slot : Present(t) => Present(t)' /\ store'[t] = store[t]
  BY DEF Shape, Create, Present
<1>3. Present(s)' /\ (~Present(s) => store'[s] = rec)
  BY RecordPresent DEF Shape, Create, Present
<1>4. \A t \in Slot : Present(t)' => Present(t) \/ t = s
  BY DEF Shape, Create, Present
<1>5. ASSUME NEW u \in Slot, Present(u)', NEW t \in 0..u PROVE Present(t)'
  <2>1. t \in Slot /\ t \in Nat /\ u \in Nat /\ t <= u /\ s \in Nat
    BY SlotNat, JournalAssumption DEF Slot
  <2>2. CASE Present(u)
    <3>1. Present(t) BY <2>2 DEF NoHoles
    <3> QED BY <3>1, <2>1, <1>2
  <2>3. CASE u = s
    <3>1. t = s \/ t < s BY <2>1, <2>3
    <3> QED BY <3>1, <2>1, <1>2, <1>3
  <2> QED BY <2>2, <2>3, <1>4, <1>5
<1> QED BY <1>1, <1>2, <1>3, <1>5 DEF NoHoles

\* The initial state has an empty chain.
LEMMA InitInv == Init => IInv
<1> SUFFICES ASSUME Init PROVE IInv
  OBVIOUS
<1>1. Shape
  <2>1. \A c \in Caller : NoCall(c) \in AppendCall
    BY CallerRecords, JournalAssumption DEF NoCall, AppendCall
  <2> QED BY <2>1 DEF Init, Shape
<1>2. \A s \in Slot : ~Present(s)
  BY DEF Init, Present
<1>3. \A c \in Caller : call[c].pc = "idle"
  BY DEF Init, NoCall
<1> QED BY <1>1, <1>2, <1>3 DEF Init, IInv, Inv, Passed, NoHoles, AckedIsStored, Acked

-----------------------------------------------------------------------------
\* What one append owes the invariant.
CallSound(c) ==
  /\ call[c].pc \in {"probe", "bind", "put", "readback"} =>
       \A t \in Slot : t < call[c].slot => Present(t)
  /\ call[c].pc \in {"bind", "put", "readback"} =>
       call[c].slot \in Slot /\ call[c].probes < MaxProbes
  /\ call[c].pc = "predecessor" => call[c].slot = call[c].from
  /\ Acked(c) => Present(call[c].slot) /\ store[call[c].slot] = call[c].rec

\* The store only grows without a hole, one append moves soundly, and every
\* create in flight has a full chain below it: the invariant is kept.
LEMMA Combine ==
  ASSUME Inv, NEW c \in Caller,
         store' \in [Slot -> Record \cup {NoRecord}], NoHoles',
         \A t \in Slot : Present(t) => Present(t)' /\ store'[t] = store[t],
         call' \in [Caller -> AppendCall],
         \A d \in Caller \ {c} : call'[d] = call[d],
         CallSound(c)',
         \A m \in flying' \ flying :
            m \in [slot : Slot, rec : Record] /\ \A t \in Slot : t < m.slot => Present(t)
  PROVE  Inv'
<1>1. Shape'
  BY DEF Inv, Shape
<1>2. \A d \in Caller : CallSound(d)'
  <2> SUFFICES ASSUME NEW d \in Caller \ {c} PROVE CallSound(d)'
    OBVIOUS
  <2>1. CallSound(d)
    BY DEF Inv, Passed, AckedIsStored, CallSound
  <2>2. Acked(d)' = Acked(d) /\ call'[d] = call[d]
    BY DEF Acked
  <2>3. Acked(d) => Present(call[d].slot)' /\ store'[call[d].slot] = call[d].rec
    BY <2>1 DEF CallSound, Present
  <2> QED BY <2>1, <2>2, <2>3 DEF CallSound
<1>3. \A m \in flying' : \A t \in Slot : t < m.slot => Present(t)'
  BY DEF Inv, Passed
<1> QED BY <1>1, <1>2, <1>3 DEF Inv, Passed, AckedIsStored, CallSound

\* A caller that changes state stays well typed.
LEMMA BecomesTyped ==
  ASSUME Shape, NEW c \in Caller, NEW r \in AppendCall, Becomes(c, r)
  PROVE  /\ call' \in [Caller -> AppendCall] /\ call'[c] = r
         /\ \A d \in Caller \ {c} : call'[d] = call[d]
BY DEF Becomes, Shape

\* A step of one append that touches neither the store nor the creates in
\* flight only has to be sound itself.
LEMMA CallOnly ==
  ASSUME Inv, NEW c \in Caller, UNCHANGED <<store, flying>>,
         call' \in [Caller -> AppendCall],
         \A d \in Caller \ {c} : call'[d] = call[d],
         CallSound(c)'
  PROVE  Inv'
<1>1. store' \in [Slot -> Record \cup {NoRecord}] /\ NoHoles'
  BY DEF Inv, Shape, NoHoles, Present
<1>2. \A t \in Slot : Present(t) => Present(t)' /\ store'[t] = store[t]
  BY DEF Present
<1> QED BY <1>1, <1>2, Combine

\* Returning an error, or restarting an append, is sound by itself.
LEMMA ReturnSound ==
  ASSUME Inv, NEW c \in Caller, UNCHANGED <<store, flying>>,
         NEW result \in {"conflict", "capacity", "backpressured", "unbound", "no_predecessor",
                         "unknown", "store"},
         Return(c, result)
  PROVE  Inv'
<1> DEFINE r == [call[c] EXCEPT !.pc = "returned", !.result = result]
<1>0. r \in AppendCall /\ r.pc = "returned" /\ r.result = result
  BY Zenon DEF Inv, Shape, AppendCall
<1>1. /\ call' \in [Caller -> AppendCall] /\ call'[c] = r
      /\ \A d \in Caller \ {c} : call'[d] = call[d]
  BY <1>0, BecomesTyped DEF Return, Inv
<1> HIDE DEF r
<1>2. CallSound(c)'
  BY <1>0, <1>1 DEF CallSound, Acked
<1> QED BY <1>1, <1>2, CallOnly

\* An append that starts or goes on from a cursor keeps the invariant.
LEMMA AppendFromSound ==
  ASSUME Inv, NEW c \in Caller, NEW from \in Nat, AppendFrom(c, from), UNCHANGED <<store, flying>>
  PROVE  Inv'
<1> DEFINE r == [call[c] EXCEPT !.pc = "predecessor", !.from = from, !.slot = from,
                                !.probes = 0, !.result = "none"]
<1>0. 0 \in 0..MaxProbes
  BY JournalAssumption
<1>1. r \in AppendCall /\ r.pc = "predecessor" /\ r.slot = r.from
  BY <1>0, Zenon DEF Inv, Shape, AppendCall
<1>2. /\ call' \in [Caller -> AppendCall] /\ call'[c] = r
      /\ \A d \in Caller \ {c} : call'[d] = call[d]
  BY <1>1, BecomesTyped DEF AppendFrom, Inv
<1> HIDE DEF r
<1>3. CallSound(c)'
  BY <1>1, <1>2 DEF CallSound, Acked
<1> QED BY <1>2, <1>3, CallOnly

\* An occupied slot that is probed past extends the passed prefix by itself.
LEMMA OccupiedSound ==
  ASSUME Inv, NEW c \in Caller, call[c].pc \in {"probe", "readback"}, Present(call[c].slot),
         call[c].probes < MaxProbes, Occupied(c), UNCHANGED <<store, flying>>
  PROVE  Inv'
<1> DEFINE held == store[call[c].slot]
           rec == call[c].rec
<1>1. CASE SameRecord(held, rec) /\ Return(c, "recovered")
  <2> DEFINE r == [call[c] EXCEPT !.pc = "returned", !.result = "recovered"]
  <2>0. r \in AppendCall /\ r.pc = "returned" /\ r.slot = call[c].slot /\ r.rec = call[c].rec
    BY Zenon DEF Inv, Shape, AppendCall
  <2>1. /\ call' \in [Caller -> AppendCall] /\ call'[c] = r
        /\ \A d \in Caller \ {c} : call'[d] = call[d]
    BY <1>1, <2>0, BecomesTyped DEF Return, Inv
  <2> HIDE DEF r
  <2>2. CallSound(c)'
    BY <2>0, <2>1, <1>1 DEF CallSound, Acked, SameRecord, Present
  <2> QED BY <2>1, <2>2, CallOnly
<1>2. CASE Return(c, "conflict")
  BY <1>2, ReturnSound
<1>3. CASE PastSlot(c)
  <2>1. call[c] \in AppendCall /\ call[c].slot \in Slot /\ call[c].slot \in Nat
    BY SlotNat, Zenon DEF Inv, Shape, Present
  <2>2. call[c].probes + 1 \in 0..MaxProbes /\ call[c].slot + 1 \in Nat
    BY <2>1, JournalAssumption DEF AppendCall
  <2> DEFINE r == [call[c] EXCEPT !.pc = "probe", !.slot = call[c].slot + 1,
                                  !.probes = call[c].probes + 1]
  <2>3. r \in AppendCall /\ r.pc = "probe" /\ r.slot = call[c].slot + 1
    BY <2>1, <2>2, Zenon DEF AppendCall
  <2>6. /\ call' \in [Caller -> AppendCall] /\ call'[c] = r
        /\ \A d \in Caller \ {c} : call'[d] = call[d]
    BY <1>3, <2>3, BecomesTyped DEF PastSlot, Inv
  <2> HIDE DEF r
  <2>4. \A t \in Slot : t < call[c].slot + 1 => Present(t)
    <3> SUFFICES ASSUME NEW t \in Slot, t < call[c].slot + 1 PROVE Present(t)
      OBVIOUS
    <3>1. t \in Nat /\ (t = call[c].slot \/ t < call[c].slot)
      BY <2>1, SlotNat
    <3> QED BY <3>1 DEF Inv, Passed
  <2>5. CallSound(c)'
    BY <2>3, <2>4, <2>6 DEF CallSound, Acked, Present
  <2> QED BY <2>5, <2>6, CallOnly
<1> QED BY <1>1, <1>2, <1>3 DEF Occupied

\* Moving on inside one append, the slot and the record kept.
LEMMA StepSound ==
  ASSUME Inv, NEW c \in Caller, UNCHANGED <<store, flying>>,
         NEW pc \in {"idle", "probe", "bind", "put", "readback"}, Step(c, pc),
         pc \in {"probe", "bind", "put", "readback"} =>
            \A t \in Slot : t < call[c].slot => Present(t),
         pc \in {"bind", "put", "readback"} =>
            call[c].slot \in Slot /\ call[c].probes < MaxProbes
  PROVE  Inv'
<1> DEFINE r == [call[c] EXCEPT !.pc = pc]
<1>1. r \in AppendCall /\ r.pc = pc /\ r.slot = call[c].slot /\ r.probes = call[c].probes
  BY DEF Inv, Shape, AppendCall
<1>2. /\ call' \in [Caller -> AppendCall] /\ call'[c] = r
      /\ \A d \in Caller \ {c} : call'[d] = call[d]
  BY <1>1, BecomesTyped DEF Step, Inv
<1> HIDE DEF r
<1>3. CallSound(c)'
  BY <1>1, <1>2 DEF CallSound, Acked, Present
<1> QED BY <1>2, <1>3, CallOnly

-----------------------------------------------------------------------------
\* A present predecessor vouches for the whole prefix below a cursor, which is
\* what makes a cursor from anywhere safe to append at.
LEMMA PredecessorSound ==
  ASSUME Inv, NEW c \in Caller, ValidatePredecessor(c)
  PROVE  Inv'
<1> DEFINE from == call[c].from
<1>0. /\ from \in Nat /\ call[c].slot = from
      /\ UNCHANGED <<store, flying>>
  BY DEF Inv, Shape, AppendCall, Passed, ValidatePredecessor
<1>1. CASE (from = 0 \/ Present(from - 1)) /\ Step(c, "probe")
  <2>1. ASSUME NEW t \in Slot, t < from PROVE Present(t)
    <3>1. from # 0 /\ from - 1 \in Slot /\ Present(from - 1) /\ t \in 0..(from - 1)
      BY <1>0, <1>1, <2>1, SlotNat DEF Present
    <3> QED BY <3>1, Zenon DEF Inv, NoHoles
  <2> QED BY <1>0, <1>1, <2>1, StepSound
<1>2. CASE Return(c, "capacity")
  BY <1>0, <1>2, ReturnSound
<1>3. CASE Return(c, "no_predecessor")
  BY <1>0, <1>3, ReturnSound
<1> QED BY <1>1, <1>2, <1>3 DEF ValidatePredecessor

\* Probing the slot at the cursor keeps the invariant.
LEMMA ProbeSound ==
  ASSUME Inv, NEW c \in Caller, Probe(c)
  PROVE  Inv'
<1> DEFINE s == call[c].slot
<1>0. /\ call[c].pc = "probe" /\ UNCHANGED <<store, flying>>
      /\ \A t \in Slot : t < s => Present(t)
  BY DEF Inv, Passed, Probe
<1>1. CASE Return(c, "capacity")
  BY <1>0, <1>1, ReturnSound
<1>2. CASE Return(c, "backpressured")
  BY <1>0, <1>2, ReturnSound
<1>3. CASE call[c].probes < MaxProbes /\ Present(s) /\ Occupied(c)
  BY <1>0, <1>3, OccupiedSound
<1>4. CASE call[c].probes < MaxProbes /\ s \in Slot /\ Step(c, "bind")
  BY <1>0, <1>4, StepSound
<1> QED BY <1>1, <1>2, <1>3, <1>4 DEF Probe

\* Checking an outcome against its intent keeps the invariant.
LEMMA BindSound ==
  ASSUME Inv, NEW c \in Caller, ValidateOutcomeBinding(c)
  PROVE  Inv'
<1>0. /\ call[c].pc = "bind" /\ UNCHANGED <<store, flying>>
      /\ \A t \in Slot : t < call[c].slot => Present(t)
      /\ call[c].slot \in Slot /\ call[c].probes < MaxProbes
  BY DEF Inv, Passed, ValidateOutcomeBinding
<1>1. CASE Step(c, "put")
  BY <1>0, <1>1, StepSound
<1>2. CASE Return(c, "unbound")
  BY <1>0, <1>2, ReturnSound
<1> QED BY <1>1, <1>2 DEF ValidateOutcomeBinding

\* Reading a slot back after a failed or unanswered create keeps it.
LEMMA ReadbackSound ==
  ASSUME Inv, NEW c \in Caller, Readback(c)
  PROVE  Inv'
<1>0. /\ call[c].pc = "readback" /\ UNCHANGED <<store, flying>>
      /\ call[c].probes < MaxProbes
  BY DEF Inv, Passed, Readback
<1>1. CASE Present(call[c].slot) /\ Occupied(c)
  BY <1>0, <1>1, OccupiedSound
<1>2. CASE Return(c, "unknown")
  BY <1>0, <1>2, ReturnSound
<1> QED BY <1>1, <1>2 DEF Readback

\* What a caller at its conditional create knows about the slot.
LEMMA AtPut ==
  ASSUME Inv, NEW c \in Caller, call[c].pc = "put"
  PROVE  /\ call[c].slot \in Slot /\ call[c].rec \in Record /\ call[c].probes < MaxProbes
         /\ \A t \in Slot : t < call[c].slot => Present(t)
         /\ Shape /\ NoHoles /\ call[c] \in AppendCall
BY DEF Inv, Shape, Passed, AppendCall

\* Going on to the readback, whatever became of the create.
LEMMA ToReadback ==
  ASSUME Inv, NEW c \in Caller, call[c].pc = "put", Step(c, "readback"),
         store' \in [Slot -> Record \cup {NoRecord}], NoHoles',
         \A t \in Slot : Present(t) => Present(t)' /\ store'[t] = store[t],
         flying' \subseteq flying \cup {[slot |-> call[c].slot, rec |-> call[c].rec]}
  PROVE  Inv'
<1> DEFINE r == [call[c] EXCEPT !.pc = "readback"]
<1>1. r \in AppendCall /\ r.pc = "readback" /\ r.slot = call[c].slot /\ r.probes = call[c].probes
  BY AtPut DEF AppendCall
<1>2. /\ call' \in [Caller -> AppendCall] /\ call'[c] = r
      /\ \A d \in Caller \ {c} : call'[d] = call[d]
  BY <1>1, AtPut, BecomesTyped DEF Step
<1> HIDE DEF r
<1>3. CallSound(c)'
  BY <1>1, <1>2, AtPut DEF CallSound, Acked
<1>4. \A m \in flying' \ flying :
         m \in [slot : Slot, rec : Record] /\ \A t \in Slot : t < m.slot => Present(t)
  BY AtPut
<1> QED BY <1>2, <1>3, <1>4, Combine

\* An answered conditional create keeps the invariant.
LEMMA PutSound ==
  ASSUME Inv, NEW c \in Caller, Put(c)
  PROVE  Inv'
<1> DEFINE s == call[c].slot
<1>0. call[c].pc = "put" /\ Create(s, call[c].rec) /\ UNCHANGED flying
  BY DEF Put
<1>1. /\ store' \in [Slot -> Record \cup {NoRecord}]
      /\ \A t \in Slot : Present(t) => Present(t)' /\ store'[t] = store[t]
      /\ store'[s] # NoRecord
      /\ ~Present(s) => store'[s] = call[c].rec
      /\ NoHoles'
  BY <1>0, AtPut, CreateKeeps DEF Present
<1>2. CASE ~Present(s) /\ Return(c, "created")
  <2> DEFINE r == [call[c] EXCEPT !.pc = "returned", !.result = "created"]
  <2>1. r \in AppendCall /\ r.pc = "returned" /\ r.slot = call[c].slot /\ r.rec = call[c].rec
    BY <1>0, AtPut, Zenon DEF AppendCall
  <2>2. /\ call' \in [Caller -> AppendCall] /\ call'[c] = r
        /\ \A d \in Caller \ {c} : call'[d] = call[d]
    BY <1>2, <2>1, <1>0, AtPut, BecomesTyped DEF Return
  <2> HIDE DEF r
  <2>3. CallSound(c)'
    BY <1>0, <1>1, <1>2, <2>1, <2>2, AtPut DEF CallSound, Acked, Present
  <2> QED BY <1>0, <1>1, <2>2, <2>3, Combine
<1>3. CASE Step(c, "readback")
  BY <1>0, <1>1, <1>3, ToReadback
<1> QED BY <1>2, <1>3 DEF Put

\* A create whose answer is lost keeps the invariant.
LEMMA PutUnknownSound ==
  ASSUME Inv, NEW c \in Caller, PutUnknown(c)
  PROVE  Inv'
<1> DEFINE s == call[c].slot
           m == [slot |-> call[c].slot, rec |-> call[c].rec]
<1>0. call[c].pc = "put" /\ Step(c, "readback")
  BY DEF PutUnknown
<1>1. CASE Create(s, call[c].rec) /\ UNCHANGED flying
  <2>1. /\ store' \in [Slot -> Record \cup {NoRecord}]
        /\ \A t \in Slot : Present(t) => Present(t)' /\ store'[t] = store[t]
        /\ NoHoles'
    BY <1>0, <1>1, AtPut, CreateKeeps
  <2> QED BY <1>0, <1>1, <2>1, ToReadback
<1>2. CASE store' = store /\ flying' \subseteq flying \cup {m}
  <2>1. /\ store' \in [Slot -> Record \cup {NoRecord}] /\ NoHoles'
        /\ \A t \in Slot : Present(t) => Present(t)' /\ store'[t] = store[t]
    BY <1>2 DEF Inv, Shape, NoHoles, Present
  <2> QED BY <1>0, <1>2, <2>1, ToReadback
<1> QED BY <1>1, <1>2 DEF PutUnknown

\* A delayed create that lands late finds everything below it present still.
LEMMA LandSound ==
  ASSUME Inv, NEW m \in flying, Land(m)
  PROVE  Inv'
<1>1. /\ store' \in [Slot -> Record \cup {NoRecord}]
      /\ \A t \in Slot : Present(t) => Present(t)' /\ store'[t] = store[t]
      /\ NoHoles'
  <2>1. m.slot \in Slot /\ m.rec \in Record /\ \A t \in Slot : t < m.slot => Present(t)
    BY DEF Inv, Shape, Passed
  <2> QED BY <2>1, CreateKeeps DEF Inv, Land
<1>2. call' = call /\ flying' \subseteq flying
  BY DEF Land
<1>3. Shape' /\ Passed'
  BY <1>1, <1>2 DEF Inv, Shape, Passed
<1>4. AckedIsStored'
  <2> SUFFICES ASSUME NEW c \in Caller, Acked(c)
               PROVE  Present(call[c].slot)' /\ store'[call[c].slot] = call[c].rec
    BY <1>2 DEF AckedIsStored, Acked
  <2>1. Present(call[c].slot) /\ store[call[c].slot] = call[c].rec /\ call[c].slot \in Slot
    BY DEF Inv, AckedIsStored, Present
  <2> QED BY <2>1, <1>1, <1>2 DEF Present
<1> QED BY <1>1, <1>3, <1>4 DEF Inv

\* A failed call keeps the invariant.
LEMMA FailSound ==
  ASSUME Inv, NEW c \in Caller, Fail(c)
  PROVE  Inv'
<1> DEFINE m == [slot |-> call[c].slot, rec |-> call[c].rec]
           r == [call[c] EXCEPT !.pc = "returned", !.result = "store"]
<1>1. r \in AppendCall /\ r.pc = "returned" /\ r.result = "store"
  BY Zenon DEF Inv, Shape, AppendCall
<1>2. /\ call' \in [Caller -> AppendCall] /\ call'[c] = r
      /\ \A d \in Caller \ {c} : call'[d] = call[d]
  BY <1>1, BecomesTyped DEF Fail, Return, Inv
<1> HIDE DEF r
<1>3. CallSound(c)'
  BY <1>1, <1>2 DEF CallSound, Acked
<1>4. /\ store' \in [Slot -> Record \cup {NoRecord}] /\ NoHoles'
      /\ \A t \in Slot : Present(t) => Present(t)' /\ store'[t] = store[t]
  BY DEF Fail, Inv, Shape, NoHoles, Present
<1>5. \A n \in flying' \ flying :
         n \in [slot : Slot, rec : Record] /\ \A t \in Slot : t < n.slot => Present(t)
  <2>1. CASE flying' = flying BY <2>1
  <2>2. CASE call[c].pc = "put" /\ flying' = flying \cup {m}
    BY <2>2, AtPut
  <2> QED BY <2>1, <2>2 DEF Fail
<1> QED BY <1>2, <1>3, <1>4, <1>5, Combine

\* Going on from a stored intent to its outcome keeps the invariant.
LEMMA ProceedSound ==
  ASSUME Inv, NEW c \in Caller, Proceed(c)
  PROVE  Inv'
<1>1. PICK result \in {"committed", "rejected"} :
        Becomes(c, [call[c] EXCEPT !.pc = "idle", !.stage = "intended",
                                   !.rec = Outcome(c, call[c].slot, result)])
  BY Zenon DEF Proceed
<1> DEFINE o == Outcome(c, call[c].slot, result)
           r == [call[c] EXCEPT !.pc = "idle", !.stage = "intended", !.rec = o]
<1>2. call[c] \in AppendCall /\ call[c].slot \in Nat
  BY DEF Inv, Shape, AppendCall
<1>3. o \in Record
  BY <1>2, CallerRecords
<1> HIDE DEF o
<1>4. r \in AppendCall /\ r.pc = "idle"
  BY <1>2, <1>3, Zenon DEF AppendCall
<1>5. /\ call' \in [Caller -> AppendCall] /\ call'[c] = r
      /\ \A d \in Caller \ {c} : call'[d] = call[d]
  BY <1>1, <1>4, BecomesTyped DEF Inv, o
<1> HIDE DEF r
<1>6. CallSound(c)'
  BY <1>4, <1>5 DEF CallSound, Acked
<1> QED BY <1>5, <1>6, CallOnly DEF Proceed

\* A retry, from the beginning or from the same cursor, keeps the invariant.
LEMMA RetrySound ==
  ASSUME Inv, NEW c \in Caller, Retry(c)
  PROVE  Inv'
<1>0. UNCHANGED <<store, flying>> /\ call[c].from \in Nat /\ call[c].slot \in Nat
  BY DEF Retry, Inv, Shape, AppendCall
<1>1. CASE \E from \in {0, call[c].from} : AppendFrom(c, from)
  BY <1>0, <1>1, AppendFromSound
<1>2. CASE AppendFrom(c, call[c].slot)
  BY <1>0, <1>2, AppendFromSound
<1>3. CASE Step(c, "idle")
  BY <1>0, <1>3, StepSound
<1> QED BY <1>1, <1>2, <1>3 DEF Retry

\* A new call keeps the invariant.
LEMMA StartSound ==
  ASSUME IInv, NEW c \in Caller, Start(c)
  PROVE  Inv'
<1>1. PICK from \in setting.from : AppendFrom(c, from)
  BY DEF Start
<1>2. from \in Nat
  BY JournalAssumption DEF IInv, Setting
<1> QED BY <1>1, <1>2, AppendFromSound DEF Start, IInv

\* The reader writes nothing.
LEMMA Untouched ==
  ASSUME Inv, UNCHANGED <<store, flying, call>>
  PROVE  Inv'
BY DEF Inv, Shape, Passed, NoHoles, AckedIsStored, Acked, Present

\* Every step keeps the invariant.
LEMMA NextInv == IInv /\ [Next]_vars => IInv'
<1> SUFFICES ASSUME IInv, [Next]_vars PROVE IInv'
  OBVIOUS
<1>0. Inv
  BY DEF IInv
<1>1. ASSUME NEW c \in Caller, Start(c) \/ Proceed(c) \/ Retry(c) PROVE IInv'
  <2>1. Inv' BY <1>0, <1>1, StartSound, ProceedSound, RetrySound
  <2>2. UNCHANGED setting BY <1>1 DEF Start, Proceed, Retry, boundVars
  <2> QED BY <2>1, <2>2 DEF IInv
<1>2. ASSUME NEW c \in Caller, AppendStep(c) \/ PutUnknown(c) \/ Fail(c) PROVE IInv'
  <2>1. Inv'
    BY SMTT(20), <1>0, <1>2, PredecessorSound, ProbeSound, BindSound, PutSound, ReadbackSound,
       PutUnknownSound, FailSound DEF AppendStep
  <2>2. UNCHANGED setting
    BY <1>2 DEF AppendStep, ValidatePredecessor, Probe, ValidateOutcomeBinding, Put, Readback,
       PutUnknown, Fail, Fault, boundVars
  <2> QED BY <2>1, <2>2 DEF IInv
<1>3. ASSUME NEW m \in flying, Land(m) PROVE IInv'
  BY <1>0, <1>3, LandSound DEF IInv, Land, boundVars
<1>4. CASE ReaderStep \/ ReaderRestart
  <2>1. UNCHANGED <<store, flying, call, setting>>
    BY <1>4 DEF ReaderStep, ScanSlot, ScanEnd, ApplyAt, ReaderRestart, Fault, boundVars
  <2> QED BY <1>0, <2>1, Untouched DEF IInv
<1>5. CASE UNCHANGED vars
  BY <1>0, <1>5, Untouched DEF vars, boundVars, IInv
<1> QED BY <1>1, <1>2, <1>3, <1>4, <1>5 DEF Next

\* The slot chain of a bucket never has a hole: no caller, cursor, lost answer
\* or late create puts a record behind an absent slot (Journal::append).
THEOREM ChainHasNoHoles == Spec => []NoHoles
<1>1. IInv => NoHoles
  BY DEF IInv, Inv
<1> QED BY InitInv, NextInv, <1>1, PTL DEF Spec

\* An append that reported success is durable at the slot it reported.
THEOREM AcknowledgedIsDurable == Spec => []AckedIsStored
<1>1. IInv => AckedIsStored
  BY DEF IInv, Inv
<1> QED BY InitInv, NextInv, <1>1, PTL DEF Spec

-----------------------------------------------------------------------------
(* The reader: what its page holds is what the slots from its cursor on     *)
(* hold, which nobody changes.                                              *)

Pending == [next : Nat, seen : SUBSET Op, byOp : SUBSET [op : Op, key : Key, at : Slot],
            byKey : [Key -> SUBSET Op]]

ReaderTyped ==
  reader \in [cursor : Nat, page : Seq(Record), applying : BOOLEAN, set : Pending,
              refused : BOOLEAN]

PageStored ==
  /\ \A i \in 1..Len(reader.page) :
       Present(reader.cursor + i - 1) /\ reader.page[i] = store[reader.cursor + i - 1]
  /\ reader.applying => reader.page # <<>>

FaultsBounded == setting \in Setting /\ faults \in 0..setting.faults

FullInv == IInv /\ ReaderTyped /\ PageStored /\ FaultsBounded

\* A reader that starts is well typed.
LEMMA NewReaderTyped == NewReader \in [cursor : Nat, page : Seq(Record), applying : BOOLEAN,
                                       set : Pending, refused : BOOLEAN]
<1>1. NoPending \in Pending
  BY DEF NoPending, Pending
<1>2. <<>> \in Seq(Record)
  OBVIOUS
<1> QED BY <1>1, <1>2 DEF NewReader

\* The full invariant holds at the start.
LEMMA InitFull == Init => FullInv
<1> SUFFICES ASSUME Init PROVE FullInv
  OBVIOUS
<1>1. ReaderTyped
  BY NewReaderTyped DEF Init, ReaderTyped
<1>2. PageStored
  BY DEF Init, PageStored, NewReader
<1>3. setting \in Setting /\ setting.faults \in Nat
  BY JournalAssumption DEF Init, Setting
<1> QED BY InitInv, <1>1, <1>2, <1>3 DEF Init, FullInv, FaultsBounded

\* No step changes a filled slot.
LEMMA StoreKept ==
  ASSUME IInv, [Next]_vars
  PROVE  \A t \in Slot : Present(t) => Present(t)' /\ store'[t] = store[t]
<1>1. ASSUME NEW s \in Slot, NEW rec \in Record, Create(s, rec)
      PROVE  \A t \in Slot : Present(t) => Present(t)' /\ store'[t] = store[t]
  BY <1>1 DEF IInv, Inv, Shape, Create, Present
<1>2. CASE UNCHANGED store
  BY <1>2 DEF Present
<1>3. ASSUME NEW c \in Caller, Put(c) \/ PutUnknown(c)
      PROVE  UNCHANGED store \/ Create(call[c].slot, call[c].rec)
  BY <1>3 DEF Put, PutUnknown
<1>4. ASSUME NEW c \in Caller, Put(c) \/ PutUnknown(c)
      PROVE  call[c].slot \in Slot /\ call[c].rec \in Record
  BY <1>4, AtPut DEF Put, PutUnknown, IInv
<1>5. ASSUME NEW m \in flying, Land(m)
      PROVE  Create(m.slot, m.rec) /\ m.slot \in Slot /\ m.rec \in Record
  BY <1>5 DEF Land, IInv, Inv, Shape
<1>6. ASSUME NEW c \in Caller, Start(c) \/ Proceed(c) \/ Retry(c) \/ ValidatePredecessor(c)
               \/ Probe(c) \/ ValidateOutcomeBinding(c) \/ Readback(c) \/ Fail(c)
      PROVE  UNCHANGED store
  BY <1>6 DEF Start, Proceed, Retry, ValidatePredecessor, Probe, ValidateOutcomeBinding,
              Readback, Fail
<1>7. CASE ReaderStep \/ ReaderRestart \/ UNCHANGED vars
  <2>1. UNCHANGED store
    BY <1>7 DEF ReaderStep, ScanSlot, ScanEnd, ApplyAt, ReaderRestart, vars
  <2> QED BY <2>1, <1>2
<1> QED BY <1>1, <1>2, <1>3, <1>4, <1>5, <1>6, <1>7 DEF Next, AppendStep

\* Slots keep what they hold, so a page read earlier stays true.
LEMMA PageKept ==
  ASSUME FullInv, UNCHANGED reader,
         \A t \in Slot : Present(t) => Present(t)' /\ store'[t] = store[t]
  PROVE  ReaderTyped' /\ PageStored'
<1>1. ReaderTyped'
  BY DEF FullInv, ReaderTyped
<1>2. PageStored'
  BY DEF FullInv, PageStored, Present
<1> QED BY <1>1, <1>2

\* One more slot on the page.
LEMMA ScanSlotKeeps ==
  ASSUME FullInv, ScanSlot
  PROVE  ReaderTyped' /\ PageStored'
<1> DEFINE s == reader.cursor + Len(reader.page)
           page == Append(reader.page, store[s])
<1>1. /\ reader.page \in Seq(Record) /\ reader.cursor \in Nat /\ Len(reader.page) \in Nat
      /\ ~reader.applying
  BY DEF FullInv, ReaderTyped, ScanSlot
<1>2. Present(s) /\ store[s] \in Record
  BY DEF ScanSlot, Present, FullInv, IInv, Inv, Shape
<1>3. /\ page \in Seq(Record) /\ Len(page) = Len(reader.page) + 1
      /\ \A i \in 1..Len(reader.page) : page[i] = reader.page[i]
      /\ page[Len(page)] = store[s]
  BY <1>1, <1>2
<1>4. reader' = [reader EXCEPT !.page = page] /\ UNCHANGED store
  BY DEF ScanSlot
<1> HIDE DEF page
<1>5. ReaderTyped' /\ reader'.page = page /\ reader'.cursor = reader.cursor /\ ~reader'.applying
  BY <1>1, <1>3, <1>4, SMTT(20) DEF FullInv, ReaderTyped
<1>6. ASSUME NEW i \in 1..Len(page)
      PROVE  Present(reader.cursor + i - 1) /\ page[i] = store[reader.cursor + i - 1]
  <2>1. CASE i \in 1..Len(reader.page)
    BY <2>1, <1>3 DEF FullInv, PageStored
  <2>2. CASE i = Len(page)
    <3>1. reader.cursor + i - 1 = s
      BY <1>1, <1>3, <2>2
    <3> QED BY <3>1, <2>2, <1>2, <1>3
  <2> QED BY <2>1, <2>2, <1>1, <1>3
<1>7. PageStored'
  BY <1>4, <1>5, <1>6 DEF PageStored, Present
<1> QED BY <1>5, <1>7

\* The end of a scan keeps the page stored.
LEMMA ScanEndKeeps ==
  ASSUME FullInv, ScanEnd
  PROVE  ReaderTyped' /\ PageStored'
<1>1. /\ ReaderTyped' /\ reader'.page = reader.page /\ reader'.cursor = reader.cursor
      /\ reader.page # <<>> /\ UNCHANGED store
  BY Zenon DEF FullInv, ReaderTyped, ScanEnd
<1> QED BY <1>1 DEF FullInv, PageStored, Present

\* Folding a record in keeps the projection's type.
LEMMA ProjectedTyped ==
  ASSUME NEW set \in Pending, NEW slot \in Slot, NEW rec \in Record,
         rec.kind = "outcome" => rec.at \in Nat
  PROVE  Projected(set, slot, rec) \in Pending
<1>1. slot + 1 \in Nat /\ rec.op \in Op /\ rec.key \in Key
  BY SlotNat DEF Record
<1>2. Entry(rec, slot) \in [op : Op, key : Key, at : Slot]
  BY <1>1 DEF Entry
<1> DEFINE e == Entry(rec, slot)
           f == Entry(rec, rec.at)
<1> HIDE DEF e, f
<1>3. CASE rec.kind = "intent"
  <2>1. Projected(set, slot, rec) =
          [set EXCEPT !.next = slot + 1, !.seen = set.seen \cup {rec.op},
                      !.byOp = set.byOp \cup {e},
                      !.byKey[rec.key] = set.byKey[rec.key] \cup {rec.op}]
    BY <1>3 DEF Projected, e, Pending
  <2>2. /\ set.seen \cup {rec.op} \in SUBSET Op
        /\ set.byOp \cup {e} \in SUBSET [op : Op, key : Key, at : Slot]
        /\ set.byKey[rec.key] \cup {rec.op} \in SUBSET Op
    BY <1>1, <1>2 DEF Pending, e
  <2>3. [set.byKey EXCEPT ![rec.key] = set.byKey[rec.key] \cup {rec.op}] \in [Key -> SUBSET Op]
    BY <2>2, <1>1 DEF Pending
  <2> QED BY <2>1, <2>2, <2>3, <1>1, Zenon DEF Pending
<1>4. CASE rec.kind = "outcome"
  <2>1. Projected(set, slot, rec) =
          [set EXCEPT !.next = slot + 1, !.byOp = set.byOp \ {f},
                      !.byKey[rec.key] = set.byKey[rec.key] \ {rec.op}]
    BY <1>4 DEF Projected, f, Pending
  <2>2. [set.byKey EXCEPT ![rec.key] = set.byKey[rec.key] \ {rec.op}] \in [Key -> SUBSET Op]
    BY <1>1 DEF Pending
  <2>3. set.byOp \ {f} \in SUBSET [op : Op, key : Key, at : Slot]
    BY DEF Pending
  <2> QED BY <2>1, <2>2, <2>3, <1>1, Zenon DEF Pending
<1>5. CASE rec.kind = "admission"
  BY <1>5, <1>1 DEF Projected, Pending
<1> QED BY <1>3, <1>4, <1>5 DEF Record

\* The first record of the page is taken off it.
LEMMA ApplyAtKeeps ==
  ASSUME FullInv, ApplyAt
  PROVE  /\ ReaderTyped' /\ PageStored'
         /\ \/ reader'.cursor = reader.cursor
            \/ Present(reader.cursor) /\ reader'.cursor = reader.cursor + 1
<1> DEFINE rec == Head(reader.page)
           set == Projected(reader.set, reader.cursor, rec)
           rest == Tail(reader.page)
           more == rest # <<>>
<1>1. /\ reader.page \in Seq(Record) /\ reader.page # <<>> /\ reader.cursor \in Nat
      /\ reader.set \in Pending
  BY DEF FullInv, ReaderTyped, PageStored, ApplyAt
<1>2. /\ Len(reader.page) \in Nat \ {0} /\ rec = reader.page[1] /\ rec \in Record
      /\ rest \in Seq(Record) /\ Len(rest) = Len(reader.page) - 1
      /\ \A i \in 1..Len(rest) : rest[i] = reader.page[i + 1]
  BY <1>1
<1>3. Present(reader.cursor) /\ reader.cursor \in Slot
  BY <1>1, <1>2 DEF FullInv, PageStored, Present
<1>4. set \in Pending
  BY <1>1, <1>2, <1>3, ProjectedTyped DEF Record
<1>5. UNCHANGED store
  BY DEF ApplyAt
<1>6. CASE reader' = [reader EXCEPT !.refused = TRUE]
  <2>1. ReaderTyped' /\ reader'.page = reader.page /\ reader'.cursor = reader.cursor
    BY <1>6, Zenon DEF FullInv, ReaderTyped
  <2> QED BY <2>1, <1>1, <1>5 DEF FullInv, PageStored, Present
<1>7. CASE reader' = [reader EXCEPT !.set = set, !.cursor = reader.cursor + 1, !.page = rest,
                                    !.applying = more]
  <2>0. more \in BOOLEAN /\ reader.cursor + 1 \in Nat /\ rest \in Seq(Record)
    BY <1>1, <1>2
  <2> HIDE DEF set, rest, more
  <2>1. /\ ReaderTyped' /\ reader'.page = rest /\ reader'.cursor = reader.cursor + 1
        /\ reader'.applying = more
    BY <1>4, <1>7, <2>0, Zenon DEF FullInv, ReaderTyped
  <2>2. ASSUME NEW i \in 1..Len(rest)
        PROVE  /\ Present(reader.cursor + 1 + i - 1)
               /\ rest[i] = store[reader.cursor + 1 + i - 1]
    <3>1. i + 1 \in 1..Len(reader.page) /\ reader.cursor + 1 + i - 1 = reader.cursor + (i + 1) - 1
      BY <1>1, <1>2
    <3> QED BY <3>1, <1>2 DEF FullInv, PageStored
  <2>3. PageStored'
    BY <1>5, <2>1, <2>2, Zenon DEF PageStored, Present, more
  <2> QED BY <1>3, <2>1, <2>3
<1>8. \/ reader' = [reader EXCEPT !.refused = TRUE]
      \/ reader' = [reader EXCEPT !.set = set, !.cursor = reader.cursor + 1, !.page = rest,
                                  !.applying = more]
  BY DEF ApplyAt, FullInv, ReaderTyped
<1> QED BY <1>6, <1>7, <1>8

\* The bound on faults is kept.
LEMMA FaultsKept ==
  ASSUME FaultsBounded, [Next]_vars
  PROVE  FaultsBounded'
<1>1. setting.faults \in Nat
  BY DEF FaultsBounded, Setting
<1>2. CASE Fault
  BY <1>1, <1>2 DEF FaultsBounded, Fault
<1>3. CASE UNCHANGED boundVars
  BY <1>3 DEF FaultsBounded, boundVars
<1>4. ASSUME NEW c \in Caller, Start(c) \/ Proceed(c) \/ Retry(c) \/ AppendStep(c)
      PROVE  UNCHANGED boundVars
  BY <1>4 DEF Start, Proceed, Retry, AppendStep, ValidatePredecessor, Probe,
              ValidateOutcomeBinding, Put, Readback
<1>5. ASSUME NEW c \in Caller, PutUnknown(c) \/ Fail(c) PROVE Fault
  BY <1>5 DEF PutUnknown, Fail
<1>6. ASSUME NEW m \in flying, Land(m) PROVE UNCHANGED boundVars
  BY <1>6 DEF Land
<1>7. ReaderStep => UNCHANGED boundVars
  BY DEF ReaderStep, ScanSlot, ScanEnd, ApplyAt
<1>8. ReaderRestart => Fault
  BY DEF ReaderRestart
<1> QED BY <1>2, <1>3, <1>4, <1>5, <1>6, <1>7, <1>8 DEF Next, vars

\* Every step keeps the full invariant.
LEMMA NextFull == FullInv /\ [Next]_vars => FullInv'
<1> SUFFICES ASSUME FullInv, [Next]_vars PROVE FullInv'
  OBVIOUS
<1>1. IInv' /\ FaultsBounded'
  BY NextInv, FaultsKept DEF FullInv
<1>2. \A t \in Slot : Present(t) => Present(t)' /\ store'[t] = store[t]
  BY StoreKept DEF FullInv
<1>3. CASE UNCHANGED reader
  BY <1>1, <1>2, <1>3, PageKept DEF FullInv
<1>4. CASE ScanSlot \/ ScanEnd \/ ApplyAt
  BY <1>1, <1>4, ScanSlotKeeps, ScanEndKeeps, ApplyAtKeeps DEF FullInv
<1>5. CASE ReaderRestart
  <2>1. reader' = NewReader
    BY <1>5 DEF ReaderRestart
  <2>2. ReaderTyped' /\ PageStored'
    BY <2>1, NewReaderTyped DEF ReaderTyped, PageStored, NewReader
  <2> QED BY <1>1, <2>2 DEF FullInv
<1>6. ASSUME NEW c \in Caller,
             Start(c) \/ Proceed(c) \/ Retry(c) \/ AppendStep(c) \/ PutUnknown(c) \/ Fail(c)
      PROVE  UNCHANGED reader
  BY <1>6 DEF Start, Proceed, Retry, AppendStep, ValidatePredecessor, Probe,
              ValidateOutcomeBinding, Put, Readback, PutUnknown, Fail
<1>7. ASSUME NEW m \in flying, Land(m) PROVE UNCHANGED reader
  BY <1>7 DEF Land
<1>8. CASE UNCHANGED vars
  BY <1>3, <1>8 DEF vars
<1> QED BY <1>3, <1>4, <1>5, <1>6, <1>7, <1>8 DEF Next, ReaderStep

\* Every variable of the journal keeps its type: no append probes past its
\* budget, no slot is written past the last, and the projection holds only
\* operations of stored records.
THEOREM JournalTyped == Spec => []TypeOK
<1>1. FullInv => TypeOK
  BY DEF FullInv, IInv, Inv, Shape, Passed, ReaderTyped, FaultsBounded, TypeOK, Pending
<1> QED BY InitFull, NextFull, <1>1, PTL DEF Spec

-----------------------------------------------------------------------------
(* The refinement: one step of the journal is one step of the abstract log  *)
(* or none.                                                                 *)

\* A conditional create fills the first empty slot or changes nothing.
LEMMA CreateExtends ==
  ASSUME Shape, NEW s \in Slot, NEW rec \in Record, Create(s, rec),
         \A t \in Slot : t < s => Present(t)
  PROVE  \/ UNCHANGED store /\ Present(s)
         \/ Log!Extend(s) /\ store'[s] = rec /\ ~Present(s)
<1>1. CASE store[s] # NoRecord
  BY <1>1 DEF Create, Present
<1>2. CASE store[s] = NoRecord
  <2>1. store' = [store EXCEPT ![s] = rec] /\ store'[s] = rec
    BY <1>2 DEF Create, Shape
  <2>2. \A t \in Slot : t < s => Log!Filled(t)
    BY DEF Present, Log!Filled
  <2> QED BY <1>2, <2>1, <2>2, Zenon DEF Log!Extend, Present
<1> QED BY <1>1, <1>2

\* Only one caller's answer changes.
LEMMA ToldOf ==
  ASSUME NEW c \in Caller, \A d \in Caller \ {c} : call'[d] = call[d]
  PROVE  /\ Told' = [Told EXCEPT ![c] = Told'[c]]
         /\ Acked(c)' => Told'[c] = {[slot |-> call'[c].slot, rec |-> call'[c].rec]}
         /\ ~Acked(c)' => Told'[c] = {}
<1>1. Told' = [d \in Caller |-> IF Acked(d)'
                                THEN {[slot |-> call'[d].slot, rec |-> call'[d].rec]} ELSE {}]
  BY DEF Told
<1>2. \A d \in Caller \ {c} : Acked(d)' = Acked(d)
  BY DEF Acked
<1>3. \A d \in Caller \ {c} : Told'[d] = Told[d]
  BY <1>1, <1>2 DEF Told
<1>4. Told = [d \in Caller |-> Told[d]] /\ Told' = [d \in Caller |-> Told'[d]]
  BY <1>1 DEF Told
<1> HIDE DEF Told
<1>5. Told' = [Told EXCEPT ![c] = Told'[c]]
  BY <1>3, <1>4
<1> QED BY <1>1, <1>5

\* A caller that changes no slot was told of a filled one, or of nothing.
LEMMA CallerRefines ==
  ASSUME AckedIsStored', NEW c \in Caller, UNCHANGED <<store, reader>>,
         \A d \in Caller \ {c} : call'[d] = call[d]
  PROVE  Log!Next
<1> DEFINE n == call'[c].slot
<1>1. CASE Acked(c)'
  <2>1. n \in Slot /\ store[n] # NoRecord /\ store[n] = call'[c].rec
    BY <1>1 DEF AckedIsStored, Present
  <2>2. Log!Tell(c, n, store[n])
    BY <1>1, <2>1, ToldOf DEF Log!Tell
  <2>3. Log!Report(c, n)
    BY <2>1, <2>2 DEF Log!Report, Log!Filled
  <2> QED BY <2>1, <2>3 DEF Log!Next
<1>2. CASE ~Acked(c)'
  BY <1>2, ToldOf DEF Log!Forget, Log!Next
<1> QED BY <1>1, <1>2

\* Filling a slot tells its own caller at once, or nobody.
LEMMA PutRefines ==
  ASSUME IInv, IInv', NEW c \in Caller, Put(c) \/ PutUnknown(c)
  PROVE  [Log!Next]_(Log!logVars)
<1> DEFINE s == call[c].slot
<1>1. /\ call[c].pc = "put" /\ UNCHANGED reader /\ Inv
      /\ UNCHANGED store \/ Create(s, call[c].rec)
  BY DEF Put, PutUnknown, IInv
<1>2. s \in Slot /\ call[c].rec \in Record /\ Shape /\ \A t \in Slot : t < s => Present(t)
  BY <1>1, AtPut
<1>3. \A d \in Caller \ {c} : call'[d] = call[d]
  BY <1>2 DEF Put, PutUnknown, Return, Step, Becomes, Shape
<1>4. CASE UNCHANGED store
  BY <1>1, <1>3, <1>4, CallerRefines DEF IInv, Inv
<1>5. CASE Log!Extend(s) /\ store'[s] = call[c].rec /\ ~Present(s)
  <2>1. UNCHANGED Told \/ Log!Tell(c, s, store'[s])
    <3>1. CASE Acked(c)'
      <4>1. call'[c].slot = s /\ call'[c].rec = call[c].rec
        <5>1. Return(c, "created") \/ Step(c, "readback")
          BY DEF Put, PutUnknown
        <5>2. call[c] \in AppendCall /\ call \in [Caller -> AppendCall]
          BY <1>2 DEF Shape
        <5>3. \/ call'[c] = [call[c] EXCEPT !.pc = "returned", !.result = "created"]
              \/ call'[c] = [call[c] EXCEPT !.pc = "readback"]
          BY <5>1, <5>2 DEF Return, Step, Becomes
        <5> QED BY <5>2, <5>3, Zenon DEF AppendCall
      <4> QED BY <1>3, <1>5, <3>1, <4>1, ToldOf DEF Log!Tell
    <3>2. CASE ~Acked(c)'
      <4>1. Told[c] = {}
        BY <1>1 DEF Told, Acked
      <4>2. Told' = [Told EXCEPT ![c] = {}]
        BY <1>3, <3>2, ToldOf
      <4> QED BY <4>1, <4>2, Zenon DEF Told
    <3> QED BY <3>1, <3>2
  <2>2. Log!Fill(s)
    BY <1>1, <1>5, <2>1 DEF Log!Fill
  <2> QED BY <1>2, <2>2 DEF Log!Next
<1> QED BY <1>1, <1>2, <1>4, <1>5, CreateExtends

\* A create that lands late fills its slot, or finds it filled.
LEMMA LandRefines ==
  ASSUME IInv, NEW m \in flying, Land(m)
  PROVE  [Log!Next]_(Log!logVars)
<1>1. /\ m.slot \in Slot /\ m.rec \in Record /\ Shape
      /\ \A t \in Slot : t < m.slot => Present(t)
  BY DEF IInv, Inv, Shape, Passed
<1>2. Create(m.slot, m.rec) /\ UNCHANGED <<call, reader>>
  BY DEF Land
<1>3. UNCHANGED Told
  BY <1>2 DEF Told, Acked
<1>4. CASE UNCHANGED store
  BY <1>2, <1>3, <1>4 DEF Log!logVars
<1>5. CASE Log!Extend(m.slot)
  BY <1>1, <1>2, <1>3, <1>5 DEF Log!Fill, Log!Next
<1> QED BY <1>1, <1>2, <1>4, <1>5, CreateExtends

\* The reader passes a slot that is filled, or begins again.
LEMMA ReaderRefines ==
  ASSUME FullInv, ReaderStep \/ ReaderRestart
  PROVE  [Log!Next]_(Log!logVars)
<1>1. UNCHANGED <<store, call>> /\ UNCHANGED Told
  BY Zenon DEF ReaderStep, ScanSlot, ScanEnd, ApplyAt, ReaderRestart, Told, Acked
<1>2. CASE reader'.cursor = reader.cursor
  BY <1>1, <1>2 DEF Log!logVars
<1>3. CASE Present(reader.cursor) /\ reader'.cursor = reader.cursor + 1
  BY <1>1, <1>3 DEF Log!Advance, Log!Filled, Log!Next, Present
<1>4. CASE ScanSlot \/ ScanEnd
  <2>1. reader'.cursor = reader.cursor
    BY <1>4 DEF ScanSlot, ScanEnd, FullInv, ReaderTyped
  <2> QED BY <1>2, <2>1
<1>5. CASE ApplyAt
  BY <1>2, <1>3, <1>5, ApplyAtKeeps
<1>6. CASE ReaderRestart
  <2>1. reader'.cursor = 0
    BY <1>6 DEF ReaderRestart, NewReader
  <2> QED BY <1>1, <2>1 DEF Log!Restart, Log!Next
<1> QED BY <1>4, <1>5, <1>6 DEF ReaderStep

\* An empty store is an empty log.
LEMMA InitRefines == Init => Log!Init
<1> SUFFICES ASSUME Init PROVE Log!Init
  OBVIOUS
<1>1. \A c \in Caller : ~Acked(c)
  BY DEF Init, NoCall, Acked
<1> QED BY <1>1 DEF Init, Told, NewReader, Log!Init

\* Every step is a step of the log or leaves it alone.
LEMMA StepRefines ==
  ASSUME FullInv, FullInv', [Next]_vars
  PROVE  [Log!Next]_(Log!logVars)
<1>1. IInv /\ IInv' /\ AckedIsStored' /\ call \in [Caller -> AppendCall]
  BY DEF FullInv, IInv, Inv, Shape
<1>2. ASSUME NEW c \in Caller,
             \/ Start(c) \/ Proceed(c) \/ Retry(c) \/ Fail(c)
             \/ ValidatePredecessor(c) \/ Probe(c) \/ ValidateOutcomeBinding(c) \/ Readback(c)
      PROVE  Log!Next
  <2>1. UNCHANGED <<store, reader>>
    BY <1>2, SMTT(20) DEF Start, Proceed, Retry, Fail, ValidatePredecessor, Probe,
                ValidateOutcomeBinding, Readback
  <2>2. \E a : Becomes(c, a)
    BY <1>2, Zenon DEF Start, Proceed, Retry, Fail, ValidatePredecessor, Probe, Occupied,
                ValidateOutcomeBinding, Readback, AppendFrom, Step, Return, PastSlot
  <2>3. \A d \in Caller \ {c} : call'[d] = call[d]
    BY <1>1, <2>2 DEF Becomes
  <2> QED BY <1>1, <2>1, <2>3, CallerRefines
<1>3. ASSUME NEW c \in Caller, Put(c) \/ PutUnknown(c)
      PROVE  [Log!Next]_(Log!logVars)
  BY <1>1, <1>3, PutRefines
<1>4. ASSUME NEW m \in flying, Land(m) PROVE [Log!Next]_(Log!logVars)
  BY <1>1, <1>4, LandRefines
<1>5. CASE ReaderStep \/ ReaderRestart
  BY <1>5, ReaderRefines
<1>6. CASE UNCHANGED vars
  BY <1>6 DEF vars, Log!logVars, Told, Acked
<1> QED BY <1>2, <1>3, <1>4, <1>5, <1>6 DEF Next, AppendStep

\* The control source implements the abstract log for any callers, cursors,
\* limits and store faults: slots are filled in order and for good, success is
\* reported only of what is stored, and a scan passes only filled slots
\* (Journal::append, Journal::scan).
THEOREM JournalImplementsLog == Spec => ImplementsLog
<1>1. FullInv /\ FullInv' /\ [Next]_vars => [Log!Next]_(Log!logVars)
  BY StepRefines
<1> QED BY InitFull, NextFull, InitRefines, <1>1, PTL DEF Spec, ImplementsLog, Log!Spec

-----------------------------------------------------------------------------
(* No identity is stored twice.  A record that is about to be put, or is on *)
(* its way, has met only other identities in every slot before its own; so  *)
(* a second copy could only go where the first one is.                      *)

\* Every caller has an operation ID of its own.
Distinct == \A c, d \in setting.callers : OpOf(c) = OpOf(d) => c = d

\* Every slot before s holds a record of another identity.
Clear(s, rec) ==
  \A t \in Slot : t < s => Present(t) /\ Identity(store[t]) # Identity(rec)

\* No record of this identity is stored or on its way.
Unwritten(rec) ==
  /\ \A t \in Slot : Present(t) => Identity(store[t]) # Identity(rec)
  /\ \A m \in flying : Identity(m.rec) # Identity(rec)

\* No outcome of this operation is stored or on its way.
NoOutcome(op) ==
  /\ \A t \in Slot : Present(t) /\ store[t].kind = "outcome" => store[t].op # op
  /\ \A m \in flying : m.rec.kind = "outcome" => m.rec.op # op

\* The record of c's append a is c's own, and an outcome has its intent.
Own(c, a) ==
  /\ a.rec.op = OpOf(c) /\ a.rec.key = KeyOf(c)
  /\ a.stage = "new" => a.rec = NoCall(c).rec
  /\ a.stage = "intended" =>
       a.rec.kind = "outcome" /\ Present(a.rec.at) /\ store[a.rec.at] = Intent(c)
  /\ a.pc # "idle" \/ a.stage = "intended" => c \in setting.callers

\* Before the cursor of c's append a there is no record of its identity.
Aimed(c, a) ==
  /\ a.pc \in {"probe", "bind", "put", "readback"} => Clear(a.slot, a.rec) /\ Clear(a.from, a.rec)
  /\ a.pc \in {"bind", "put", "readback"} => Bound(a.rec, a.slot)
  /\ a.pc \in {"predecessor", "returned"} =>
       Clear(a.from, a.rec) \/ (Distinct /\ Unwritten(a.rec))
  /\ a.pc = "returned" /\ a.result = "backpressured" => Clear(a.slot, a.rec)
  /\ a.pc = "returned" /\ a.result = "no_predecessor" => Distinct /\ Unwritten(a.rec)
  /\ a.pc = "returned" => a.result # "unbound"
  /\ c \in setting.callers /\ Distinct /\ a.pc = "idle" => Unwritten(a.rec)
  /\ c \in setting.callers /\ Distinct /\ a.stage = "new" => NoOutcome(OpOf(c))

Slots ==
  /\ StoredOnce
  /\ \A t \in Slot : Present(t) => Bound(store[t], t)
  /\ \A m \in flying : Clear(m.slot, m.rec) /\ Bound(m.rec, m.slot)

OnceInv == Slots /\ \A c \in Caller : Own(c, call[c]) /\ Aimed(c, call[c])

\* A step stores or sends at most the record w, at slot s.
Writes(s, w) ==
  /\ \A t \in Slot : Present(t) => Present(t)' /\ store'[t] = store[t]
  /\ \A t \in Slot : Present(t)' => Present(t) \/ (t = s /\ store'[t] = w)
  /\ \A m \in flying' : m \in flying \/ (m.slot = s /\ m.rec = w)

\* Most steps are first-order: Zenon is the default, steps with arithmetic cite SMT.
USE Zenon

\* Records of one identity have one kind and one operation.
LEMMA IdentityParts ==
  ASSUME NEW a, NEW b, Identity(a) = Identity(b)
  PROVE  a.kind = b.kind /\ a.op = b.op
BY DEF Identity

\* What append takes for a foreign record has another identity.
LEMMA ForeignDiffers ==
  ASSUME NEW a, NEW b, ~SameIdentity(a, b)
  PROVE  Identity(a) # Identity(b)
BY DEF Identity, SameIdentity

\* Two intents of one operation have one identity.
LEMMA IntentIdentity ==
  ASSUME NEW a, NEW b, a.kind = "intent", b.kind = "intent", a.op = b.op
  PROVE  Identity(a) = Identity(b)
BY DEF Identity

\* A prefix that is clear of a record stays so.
LEMMA ClearKept ==
  ASSUME \A t \in Slot : Present(t) => Present(t)' /\ store'[t] = store[t],
         NEW s, NEW rec, Clear(s, rec)
  PROVE  Clear(s, rec)'
BY DEF Clear

\* A bound outcome stays bound.
LEMMA BoundKept ==
  ASSUME \A t \in Slot : Present(t) => Present(t)' /\ store'[t] = store[t],
         NEW s, NEW rec, Bound(rec, s)
  PROVE  Bound(rec, s)'
<1>1. Present(rec.at) => rec.at \in Slot
  BY DEF Present
<1> QED BY <1>1 DEF Bound

\* Another identity is written: this one stays unwritten.
LEMMA UnwrittenKept ==
  ASSUME NEW s, NEW w, Writes(s, w), NEW rec, Unwritten(rec), Identity(w) # Identity(rec)
  PROVE  Unwritten(rec)'
<1>1. ASSUME NEW t \in Slot, Present(t)' PROVE Identity(store'[t]) # Identity(rec)
  BY <1>1 DEF Writes, Unwritten
<1>2. ASSUME NEW m \in flying' PROVE Identity(m.rec) # Identity(rec)
  BY <1>2 DEF Writes, Unwritten
<1> QED BY <1>1, <1>2 DEF Unwritten, Identity

\* No outcome of this operation is written: there is none still.
LEMMA NoOutcomeKept ==
  ASSUME NEW s, NEW w, Writes(s, w), NEW op, NoOutcome(op), w.kind = "outcome" => w.op # op
  PROVE  NoOutcome(op)'
BY DEF Writes, NoOutcome

\* A record that nobody has written is not among what is stored or sent; an
\* operation without outcomes has none there.
LEMMA SentDiffers ==
  ASSUME NEW m \in flying, NEW rec, NEW op
  PROVE  /\ Unwritten(rec) => Identity(m.rec) # Identity(rec)
         /\ NoOutcome(op) => (m.rec.kind = "outcome" => m.rec.op # op)
BY DEF Unwritten, NoOutcome

\* The slots keep their part: w goes to the first empty slot or nowhere.
LEMMA SlotsKept ==
  ASSUME Inv, NoHoles', Slots, NEW s \in Slot, NEW w, Writes(s, w), Clear(s, w), Bound(w, s)
  PROVE  Slots'
<1> USE DEF Writes
<1>1. ASSUME NEW t \in Slot, Present(t)', t # s PROVE Present(t) /\ store'[t] = store[t]
  BY <1>1
<1>2. ASSUME NEW t \in Slot, Present(t)' PROVE Bound(store[t], t)'
  <2>1. CASE Present(t)
    <3>1. Bound(store[t], t) /\ store'[t] = store[t]
      BY <2>1 DEF Slots
    <3> QED BY <3>1, BoundKept
  <2>2. CASE t = s /\ store'[t] = w
    BY <2>2, BoundKept
  <2> QED BY <1>2, <2>1, <2>2
<1>3. ASSUME NEW m \in flying' PROVE Clear(m.slot, m.rec)' /\ Bound(m.rec, m.slot)'
  <2>1. Clear(m.slot, m.rec) /\ Bound(m.rec, m.slot)
    BY <1>3 DEF Slots
  <2> QED BY <2>1, ClearKept, BoundKept
<1>4. ASSUME NEW t \in Slot, NEW u \in Slot, Present(t)', Present(u)', t < u,
             Identity(store'[t]) = Identity(store'[u])
      PROVE  FALSE
  <2>0. t \in Nat /\ u \in Nat /\ s \in Nat /\ t # u /\ t \in 0..u
    BY <1>4, SlotNat, SMT
  <2>1. CASE Present(u)
    <3>1. Present(t)
      BY <2>0, <2>1 DEF Inv, NoHoles
    <3> QED BY <1>4, <2>0, <2>1, <3>1 DEF Slots, StoredOnce
  <2>2. CASE u = s /\ store'[u] = w
    <3>1. Present(t) /\ Identity(store[t]) # Identity(w)
      BY <1>4, <2>2 DEF Clear
    <3> QED BY <1>4, <2>2, <3>1
  <2> QED BY <1>4, <2>1, <2>2
<1>5. StoredOnce'
  <2> SUFFICES ASSUME NEW t \in Slot, NEW u \in Slot, Present(t)', Present(u)',
                      Identity(store'[t]) = Identity(store'[u])
               PROVE  t = u
    BY DEF StoredOnce, Identity
  <2>1. t \in Nat /\ u \in Nat
    BY SlotNat
  <2>2. ~(t < u) /\ ~(u < t)
    BY <1>4
  <2> QED BY <2>1, <2>2, SMT
<1> QED BY <1>2, <1>3, <1>5 DEF Slots

\* A step that leaves the slots, the creates on their way and the setting
\* alone leaves what is known of an append.
LEMMA FrameKept ==
  ASSUME UNCHANGED <<store, flying, setting>>, NEW c \in Caller, NEW a, Own(c, a), Aimed(c, a)
  PROVE  Own(c, a)' /\ Aimed(c, a)'
<1>1. \A t \in Slot : Present(t)' <=> Present(t)
  BY DEF Present
<1>2. Distinct' = Distinct
  BY DEF Distinct
<1>3. \A s, rec : Clear(s, rec)' <=> Clear(s, rec)
  BY <1>1 DEF Clear
<1>4. \A s, rec : Bound(rec, s)' <=> Bound(rec, s)
  BY DEF Bound, Present
<1>5. \A rec : Unwritten(rec)' <=> Unwritten(rec)
  BY <1>1 DEF Unwritten
<1>6. \A op : NoOutcome(op)' <=> NoOutcome(op)
  BY <1>1 DEF NoOutcome
<1>7. Own(c, a)'
  BY DEF Own, Present
<1>8. Aimed(c, a)'
  BY <1>2, <1>3, <1>4, <1>5, <1>6 DEF Aimed
<1> QED BY <1>7, <1>8

\* An append's own record stays bound to its intent.
LEMMA OwnKept ==
  ASSUME \A t \in Slot : Present(t) => Present(t)' /\ store'[t] = store[t],
         UNCHANGED setting, NEW c \in Caller, NEW a, Own(c, a)
  PROVE  Own(c, a)'
<1>1. Present(a.rec.at) => a.rec.at \in Slot
  BY DEF Present
<1> QED BY <1>1 DEF Own

\* A write by another, or one that was on its way already, leaves what is known
\* of an append: nobody else writes under its operation ID, or it has found the
\* slots before its cursor foreign already.
LEMMA AimKept ==
  ASSUME NEW s, NEW w, Writes(s, w), UNCHANGED setting,
         NEW c \in Caller, NEW a, Own(c, a), Aimed(c, a),
         c \in setting.callers /\ Distinct => w.op # OpOf(c) \/ \E m \in flying : m.rec = w
  PROVE  Own(c, a)' /\ Aimed(c, a)'
<1>0. \A t \in Slot : Present(t) => Present(t)' /\ store'[t] = store[t]
  BY DEF Writes
<1>1. Distinct' = Distinct
  BY DEF Distinct
<1>2. \A r, rec : Clear(r, rec) => Clear(r, rec)'
  BY <1>0, ClearKept
<1>3. \A r, rec : Bound(rec, r) => Bound(rec, r)'
  BY <1>0, BoundKept
<1>4. ASSUME c \in setting.callers, Distinct, Unwritten(a.rec) PROVE Unwritten(a.rec)'
  <2>1. CASE w.op # OpOf(c)
    <3>1. Identity(w) # Identity(a.rec)
      BY <2>1, IdentityParts DEF Own
    <3> QED BY <1>4, <3>1, UnwrittenKept
  <2>2. CASE \E m \in flying : m.rec = w
    <3>1. Identity(w) # Identity(a.rec)
      BY <1>4, <2>2, SentDiffers
    <3> QED BY <1>4, <3>1, UnwrittenKept
  <2> QED BY <1>4, <2>1, <2>2
<1>5. ASSUME c \in setting.callers, Distinct, NoOutcome(OpOf(c)) PROVE NoOutcome(OpOf(c))'
  <2>1. w.kind = "outcome" => w.op # OpOf(c)
    BY <1>5, SentDiffers
  <2> QED BY <1>5, <2>1, NoOutcomeKept
<1>6. a.pc # "idle" => c \in setting.callers
  BY DEF Own
<1>7. Own(c, a)'
  BY <1>0, OwnKept
<1>8. Aimed(c, a)'
  BY <1>1, <1>2, <1>3, <1>4, <1>5, <1>6 DEF Aimed
<1> QED BY <1>7, <1>8

\* A caller's first record is no outcome.
LEMMA NewKind == \A c : NoCall(c).rec.kind # "outcome"
BY DEF NoCall, Intent, Admission

\* A caller that puts its record and goes on, or returns, knows what it knew.
LEMMA PutAimKept ==
  ASSUME NEW c \in Caller, NEW a, Own(c, a), Aimed(c, a), a.pc = "put",
         Writes(a.slot, a.rec), UNCHANGED setting,
         NEW b, b.rec = a.rec, b.slot = a.slot, b.from = a.from, b.stage = a.stage,
         \/ b.pc = "readback"
         \/ b.pc = "returned" /\ b.result \in {"created", "store"}
  PROVE  Own(c, b)' /\ Aimed(c, b)'
<1>0. \A t \in Slot : Present(t) => Present(t)' /\ store'[t] = store[t]
  BY DEF Writes
<1>1. Clear(a.slot, a.rec)' /\ Clear(a.from, a.rec)' /\ Bound(a.rec, a.slot)'
  BY <1>0, ClearKept, BoundKept DEF Aimed
<1>2. Own(c, b)'
  <2>1. Own(c, b)
    BY DEF Own
  <2> QED BY <1>0, <2>1, OwnKept
<1>3. ASSUME c \in setting.callers, Distinct, a.stage = "new" PROVE NoOutcome(OpOf(c))'
  <2>1. a.rec.kind # "outcome"
    BY <1>3, NewKind DEF Own
  <2>2. NoOutcome(OpOf(c))
    BY <1>3 DEF Aimed
  <2> QED BY <2>1, <2>2, NoOutcomeKept
<1>4. Distinct' = Distinct
  BY DEF Distinct
<1> QED BY <1>1, <1>2, <1>3, <1>4 DEF Aimed

\* A step of one append that writes nothing keeps the invariant when what it
\* becomes is sound where the slots are.
LEMMA OnceMoved ==
  ASSUME IInv, OnceInv, UNCHANGED <<store, flying, setting>>,
         NEW c \in Caller, NEW a, Becomes(c, a), Own(c, a), Aimed(c, a)
  PROVE  OnceInv'
<1>1. call'[c] = a /\ \A d \in Caller \ {c} : call'[d] = call[d]
  BY DEF IInv, Inv, Shape, Becomes
<1>2. \A d \in Caller : Own(d, call'[d]) /\ Aimed(d, call'[d])
  BY <1>1 DEF OnceInv
<1>3. ASSUME NEW d \in Caller PROVE Own(d, call[d])' /\ Aimed(d, call[d])'
  <2>1. PICK b : b = call'[d]
    OBVIOUS
  <2>2. Own(d, b)' /\ Aimed(d, b)'
    BY <1>2, <2>1, FrameKept
  <2> QED BY <2>1, <2>2
<1>4. Slots'
  <2>1. \A t \in Slot : Present(t)' <=> Present(t)
    BY DEF Present
  <2>2. \A s, rec : Clear(s, rec)' <=> Clear(s, rec)
    BY <2>1 DEF Clear
  <2>3. \A s, rec : Bound(rec, s)' <=> Bound(rec, s)
    BY DEF Bound, Present
  <2>4. StoredOnce'
    BY <2>1 DEF OnceInv, Slots, StoredOnce
  <2>5. \A t \in Slot : Present(t)' => Bound(store[t], t)'
    BY <2>1, <2>3 DEF OnceInv, Slots
  <2>6. \A m \in flying' : Clear(m.slot, m.rec)' /\ Bound(m.rec, m.slot)'
    BY <2>2, <2>3 DEF OnceInv, Slots
  <2> QED BY <2>4, <2>5, <2>6 DEF Slots
<1> QED BY <1>3, <1>4 DEF OnceInv

-----------------------------------------------------------------------------
\* An append that returns, with a cursor or a refusal that is justified.
LEMMA ReturnAim ==
  ASSUME OnceInv, IInv, NEW c \in Caller,
         call[c].pc \in {"predecessor", "probe", "bind", "put", "readback"},
         UNCHANGED <<store, flying, setting>>, NEW result, Return(c, result),
         result # "unbound",
         result = "backpressured" => Clear(call[c].slot, call[c].rec),
         result = "no_predecessor" => Distinct /\ Unwritten(call[c].rec)
  PROVE  OnceInv'
<1> DEFINE a == call[c]
           b == [call[c] EXCEPT !.pc = "returned", !.result = result]
<1>0. a \in AppendCall /\ Own(c, a) /\ Aimed(c, a)
  BY DEF OnceInv, IInv, Inv, Shape
<1>1. /\ b.pc = "returned" /\ b.result = result /\ b.rec = a.rec /\ b.slot = a.slot
      /\ b.from = a.from /\ b.stage = a.stage
  BY <1>0 DEF AppendCall
<1>2. Becomes(c, b)
  BY DEF Return
<1> HIDE DEF a, b
<1>3. Own(c, b)
  BY <1>0, <1>1 DEF Own, a
<1>4. Aimed(c, b)
  BY <1>0, <1>1 DEF Aimed, a
<1> QED BY <1>2, <1>3, <1>4, OnceMoved

\* An append that goes on inside its loop.
LEMMA StepAim ==
  ASSUME OnceInv, IInv, NEW c \in Caller, call[c].pc # "idle",
         UNCHANGED <<store, flying, setting>>,
         NEW pc \in {"probe", "bind", "put"}, Step(c, pc),
         Clear(call[c].slot, call[c].rec), Clear(call[c].from, call[c].rec),
         pc # "probe" => Bound(call[c].rec, call[c].slot)
  PROVE  OnceInv'
<1> DEFINE a == call[c]
           b == [call[c] EXCEPT !.pc = pc]
<1>0. a \in AppendCall /\ Own(c, a) /\ Aimed(c, a)
  BY DEF OnceInv, IInv, Inv, Shape
<1>1. /\ b.pc = pc /\ b.rec = a.rec /\ b.slot = a.slot
      /\ b.from = a.from /\ b.stage = a.stage
  BY <1>0 DEF AppendCall
<1>2. Becomes(c, b)
  BY DEF Step
<1> HIDE DEF b
<1>3. Own(c, b)
  BY <1>0, <1>1 DEF Own
<1>4. Aimed(c, b)
  BY <1>0, <1>1 DEF Aimed
<1> QED BY <1>2, <1>3, <1>4, OnceMoved

\* An append that starts at a cursor it may start at.
LEMMA AppendFromAim ==
  ASSUME OnceInv, IInv, NEW c \in Caller, c \in setting.callers,
         UNCHANGED <<store, flying, setting>>,
         NEW from \in Nat, AppendFrom(c, from),
         Clear(from, call[c].rec) \/ (Distinct /\ Unwritten(call[c].rec))
  PROVE  OnceInv'
<1> DEFINE a == call[c]
           b == [call[c] EXCEPT !.pc = "predecessor", !.from = from, !.slot = from,
                                !.probes = 0, !.result = "none"]
<1>0. a \in AppendCall /\ Own(c, a) /\ Aimed(c, a)
  BY DEF OnceInv, IInv, Inv, Shape
<1>1. b.pc = "predecessor" /\ b.rec = a.rec /\ b.from = from /\ b.stage = a.stage
  BY <1>0 DEF AppendCall
<1>2. Becomes(c, b)
  BY DEF AppendFrom
<1> HIDE DEF b
<1>3. Own(c, b)
  BY <1>0, <1>1 DEF Own
<1>4. Aimed(c, b)
  BY <1>0, <1>1 DEF Aimed
<1> QED BY <1>2, <1>3, <1>4, OnceMoved

\* Slot zero has nothing before it.
LEMMA ClearZero == \A rec : Clear(0, rec)
BY SlotNat, SMT DEF Clear

\* What is known of a running append.
LEMMA KnownAim ==
  ASSUME OnceInv, IInv, NEW c \in Caller
  PROVE  /\ call[c] \in AppendCall /\ Own(c, call[c]) /\ Aimed(c, call[c]) /\ Inv
         /\ call[c].slot \in Nat /\ call[c].from \in Nat /\ call[c].rec \in Record
BY DEF OnceInv, IInv, Inv, Shape, AppendCall

\* The predecessor's check vouches for the prefix, or shows the cursor empty.
LEMMA PredecessorOnce ==
  ASSUME OnceInv, IInv, NEW c \in Caller, ValidatePredecessor(c)
  PROVE  OnceInv'
<1> DEFINE from == call[c].from
           rec == call[c].rec
<1>0. /\ call[c].pc = "predecessor" /\ call[c].slot = from /\ from \in Nat
      /\ UNCHANGED <<store, flying, setting>>
  BY KnownAim DEF ValidatePredecessor, Inv, Passed, boundVars
<1>1. Clear(from, rec) \/ (Distinct /\ Unwritten(rec))
  BY <1>0, KnownAim DEF Aimed
<1>2. CASE (from = 0 \/ Present(from - 1)) /\ Step(c, "probe")
  <2>1. ASSUME NEW t \in Slot, t < from PROVE Present(t)
    <3>1. from # 0 /\ from - 1 \in Slot /\ Present(from - 1) /\ t \in 0..(from - 1)
      BY <1>0, <1>2, <2>1, SlotNat, SMT DEF Present
    <3> QED BY <3>1, KnownAim DEF Inv, NoHoles
  <2>2. Clear(from, rec)
    BY <1>1, <2>1 DEF Clear, Unwritten
  <2> QED BY <1>0, <1>2, <2>2, StepAim
<1>3. CASE Return(c, "capacity")
  BY <1>0, <1>3, ReturnAim
<1>4. CASE from # 0 /\ from - 1 \in Slot /\ ~Present(from - 1) /\ Return(c, "no_predecessor")
  <2>1. ~Clear(from, rec)
    BY <1>0, <1>4, SMT DEF Clear
  <2> QED BY <1>0, <1>1, <1>4, <2>1, ReturnAim
<1> QED BY <1>2, <1>3, <1>4 DEF ValidatePredecessor

\* A foreign record is passed, and the cleared prefix grows by its slot.
LEMMA OccupiedOnce ==
  ASSUME OnceInv, IInv, NEW c \in Caller, UNCHANGED <<store, flying, setting>>,
         call[c].pc \in {"probe", "readback"}, Present(call[c].slot), Occupied(c)
  PROVE  OnceInv'
<1> DEFINE held == store[call[c].slot]
           rec == call[c].rec
<1>0. Clear(call[c].slot, rec) /\ Clear(call[c].from, rec)
  BY KnownAim DEF Aimed
<1>1. CASE Return(c, "recovered")
  BY <1>1, ReturnAim
<1>2. CASE Return(c, "conflict")
  BY <1>2, ReturnAim
<1>3. CASE ~SameIdentity(held, rec) /\ PastSlot(c)
  <2> DEFINE s == call[c].slot + 1
             a == call[c]
             b == [call[c] EXCEPT !.pc = "probe", !.slot = s, !.probes = call[c].probes + 1]
  <2>1. b.pc = "probe" /\ b.rec = a.rec /\ b.slot = s /\ b.from = a.from /\ b.stage = a.stage
    BY KnownAim DEF AppendCall
  <2>2. Becomes(c, b)
    BY <1>3, KnownAim DEF PastSlot, AppendCall
  <2>3. ASSUME NEW t \in Slot, t < s PROVE Present(t) /\ Identity(store[t]) # Identity(rec)
    <3>1. t = call[c].slot \/ t < call[c].slot
      BY <2>3, KnownAim, SlotNat, SMT
    <3>2. Identity(held) # Identity(rec)
      BY <1>3, ForeignDiffers
    <3> QED BY <1>0, <3>1, <3>2 DEF Clear
  <2> HIDE DEF b
  <2>4. Clear(b.slot, b.rec)
    BY <2>1, <2>3 DEF Clear
  <2>5. Own(c, b)
    BY <2>1, KnownAim DEF Own
  <2>6. Aimed(c, b)
    BY <1>0, <2>1, <2>4, KnownAim DEF Aimed
  <2> QED BY <2>2, <2>5, <2>6, OnceMoved
<1> QED BY <1>1, <1>2, <1>3 DEF Occupied

\* An outcome that reaches an empty slot has its intent before it.
LEMMA ReachesBound ==
  ASSUME OnceInv, IInv, NEW c \in Caller, call[c].slot \in Slot, ~Present(call[c].slot)
  PROVE  Bound(call[c].rec, call[c].slot)
<1> DEFINE rec == call[c].rec
<1> SUFFICES ASSUME rec.kind = "outcome" PROVE Bound(rec, call[c].slot)
  BY DEF Bound
<1>1. call[c].stage = "intended"
  <2>1. call[c].stage \in {"new", "intended"}
    BY KnownAim DEF AppendCall
  <2>2. NoCall(c).rec.kind # "outcome"
    BY NewKind
  <2> QED BY <2>1, <2>2, KnownAim DEF Own
<1>2. /\ Present(rec.at) /\ store[rec.at] = Intent(c)
      /\ rec.op = OpOf(c) /\ rec.key = KeyOf(c) /\ rec.at \in Nat
  BY <1>1, KnownAim DEF Own, Record
<1>3. rec.at < call[c].slot
  <2>1. rec.at \in Slot
    BY <1>2 DEF Present
  <2>2. ~(call[c].slot \in 0..rec.at)
    BY <1>2, <2>1, KnownAim DEF Inv, NoHoles
  <2> QED BY <1>2, <2>2, KnownAim, SMT
<1> QED BY <1>2, <1>3, SMT DEF Bound, Intent

\* Probing a slot.
LEMMA ProbeOnce ==
  ASSUME OnceInv, IInv, NEW c \in Caller, Probe(c)
  PROVE  OnceInv'
<1> DEFINE s == call[c].slot
<1>0. /\ call[c].pc = "probe" /\ UNCHANGED <<store, flying, setting>>
      /\ Clear(s, call[c].rec) /\ Clear(call[c].from, call[c].rec)
  BY KnownAim DEF Probe, boundVars, Aimed
<1>1. CASE Return(c, "capacity")
  BY <1>0, <1>1, ReturnAim
<1>2. CASE Return(c, "backpressured")
  BY <1>0, <1>2, ReturnAim
<1>3. CASE Present(s) /\ Occupied(c)
  BY <1>0, <1>3, OccupiedOnce
<1>4. CASE s \in Slot /\ ~Present(s) /\ Step(c, "bind")
  BY <1>0, <1>4, ReachesBound, StepAim
<1> QED BY <1>1, <1>2, <1>3, <1>4 DEF Probe

\* Checking the binding of an outcome, which never fails here.
LEMMA BindOnce ==
  ASSUME OnceInv, IInv, NEW c \in Caller, ValidateOutcomeBinding(c)
  PROVE  OnceInv'
<1>1. /\ call[c].pc = "bind" /\ UNCHANGED <<store, flying, setting>>
      /\ Clear(call[c].slot, call[c].rec) /\ Clear(call[c].from, call[c].rec)
      /\ Bound(call[c].rec, call[c].slot)
  BY KnownAim DEF ValidateOutcomeBinding, boundVars, Aimed
<1>2. Step(c, "put")
  BY <1>1 DEF ValidateOutcomeBinding
<1> QED BY <1>1, <1>2, StepAim

\* Reading a slot back.
LEMMA ReadbackOnce ==
  ASSUME OnceInv, IInv, NEW c \in Caller, Readback(c)
  PROVE  OnceInv'
<1>0. call[c].pc = "readback" /\ UNCHANGED <<store, flying, setting>>
  BY DEF Readback, boundVars
<1>1. CASE Present(call[c].slot) /\ Occupied(c)
  BY <1>0, <1>1, OccupiedOnce
<1>2. CASE Return(c, "unknown")
  BY <1>0, <1>2, ReturnAim
<1> QED BY <1>1, <1>2 DEF Readback

\* A first attempt: at any cursor under an operation ID of its own, else at
\* slot zero.
LEMMA StartOnce ==
  ASSUME OnceInv, IInv, NEW c \in Caller, Start(c)
  PROVE  OnceInv'
<1>0. /\ c \in setting.callers /\ call[c].pc = "idle" /\ UNCHANGED <<store, flying, setting>>
      /\ setting \in Settings
  BY DEF Start, boundVars, IInv
<1>1. PICK from \in setting.from : AppendFrom(c, from)
  BY DEF Start
<1>2. from \in Nat
  BY <1>0, JournalAssumption DEF Setting
<1>3. CASE Distinct
  <2>1. Unwritten(call[c].rec)
    BY <1>0, <1>3, KnownAim DEF Aimed
  <2> QED BY <1>0, <1>1, <1>2, <1>3, <2>1, AppendFromAim
<1>4. CASE ~Distinct
  <2>1. from = 0
    BY <1>0, <1>1, <1>4, CursorAssumption DEF Distinct
  <2> QED BY <1>0, <1>1, <1>2, <2>1, ClearZero, AppendFromAim
<1> QED BY <1>3, <1>4

\* The identical append again.
LEMMA RetryOnce ==
  ASSUME OnceInv, IInv, NEW c \in Caller, Retry(c)
  PROVE  OnceInv'
<1>0. /\ c \in setting.callers /\ call[c].pc = "returned" /\ UNCHANGED <<store, flying, setting>>
      /\ Clear(call[c].from, call[c].rec) \/ (Distinct /\ Unwritten(call[c].rec))
  BY KnownAim DEF Retry, boundVars, Own, Aimed
<1>1. ASSUME NEW from \in {0, call[c].from}, AppendFrom(c, from) PROVE OnceInv'
  <2>0. 0 \in Nat
    BY SMT
  <2>1. from \in Nat /\ (Clear(from, call[c].rec) \/ (Distinct /\ Unwritten(call[c].rec)))
    BY <1>0, <2>0, ClearZero, KnownAim
  <2> QED BY <1>0, <1>1, <2>1, AppendFromAim
<1>2. CASE call[c].result = "backpressured" /\ AppendFrom(c, call[c].slot)
  <2>1. Clear(call[c].slot, call[c].rec)
    BY <1>0, <1>2, KnownAim DEF Aimed
  <2> QED BY <1>0, <1>2, <2>1, KnownAim, AppendFromAim
<1>3. CASE call[c].result \in {"no_predecessor", "unbound"} /\ Step(c, "idle")
  <2> DEFINE a == call[c]
             b == [call[c] EXCEPT !.pc = "idle"]
  <2>1. b.pc = "idle" /\ b.rec = a.rec /\ b.stage = a.stage
    BY KnownAim DEF AppendCall
  <2>2. Becomes(c, b)
    BY <1>3 DEF Step
  <2>3. Distinct /\ Unwritten(a.rec)
    BY <1>0, <1>3, KnownAim DEF Aimed
  <2> HIDE DEF b
  <2>4. Own(c, b)
    BY <1>0, <2>1, KnownAim DEF Own
  <2>5. Aimed(c, b)
    BY <2>1, <2>3, KnownAim DEF Aimed
  <2> QED BY <1>0, <2>2, <2>4, <2>5, OnceMoved
<1> QED BY <1>1, <1>2, <1>3 DEF Retry

\* The intent is stored and no outcome of it is: the outcome is a new record.
LEMMA ProceedOnce ==
  ASSUME OnceInv, IInv, NEW c \in Caller, Proceed(c)
  PROVE  OnceInv'
<1>0. /\ Acked(c) /\ call[c].pc = "returned" /\ call[c].stage = "new" /\ c \notin Admits
      /\ UNCHANGED <<store, flying, setting>>
  BY DEF Proceed, Acked, boundVars
<1>1. PICK result \in {"committed", "rejected"} :
        Becomes(c, [call[c] EXCEPT !.pc = "idle", !.stage = "intended",
                                   !.rec = Outcome(c, call[c].slot, result)])
  BY DEF Proceed
<1> DEFINE rec == Outcome(c, call[c].slot, result)
           b == [call[c] EXCEPT !.pc = "idle", !.stage = "intended", !.rec = rec]
<1>2. b.pc = "idle" /\ b.rec = rec /\ b.stage = "intended"
  BY KnownAim DEF AppendCall
<1>3. rec.kind = "outcome" /\ rec.op = OpOf(c) /\ rec.key = KeyOf(c) /\ rec.at = call[c].slot
  BY DEF Outcome
<1>4. Becomes(c, b)
  BY <1>1
<1> HIDE DEF b, rec
<1>5. Own(c, b)
  <2>1. c \in setting.callers /\ call[c].rec = Intent(c)
    BY <1>0, KnownAim DEF Own, NoCall
  <2>2. Present(rec.at) /\ store[rec.at] = Intent(c)
    BY <1>0, <1>3, <2>1 DEF IInv, Inv, AckedIsStored
  <2> QED BY <1>2, <1>3, <2>1, <2>2 DEF Own
<1>6. ASSUME c \in setting.callers, Distinct PROVE Unwritten(rec)
  <2>1. NoOutcome(OpOf(c))
    BY <1>0, <1>6, KnownAim DEF Aimed
  <2> QED BY <1>3, <2>1, IdentityParts DEF NoOutcome, Unwritten
<1>7. Aimed(c, b)
  BY <1>2, <1>6 DEF Aimed
<1> QED BY <1>0, <1>4, <1>5, <1>7, OnceMoved

\* A conditional create writes its record, or nothing.
LEMMA CreateWrites ==
  ASSUME Shape, NEW s \in Slot, NEW w \in Record, UNCHANGED store \/ Create(s, w),
         \A m \in flying' : m \in flying \/ (m.slot = s /\ m.rec = w)
  PROVE  Writes(s, w)
<1>1. \A t \in Slot : Present(t) => Present(t)' /\ store'[t] = store[t]
  BY DEF Shape, Create, Present
<1>2. \A t \in Slot : Present(t)' => Present(t) \/ (t = s /\ store'[t] = w)
  BY DEF Shape, Create, Present
<1> QED BY <1>1, <1>2 DEF Writes

\* A caller at its conditional create keeps the invariant, whether the create
\* is applied, dropped or sent on its way, and whatever it is told.
LEMMA PutOnce ==
  ASSUME OnceInv, IInv, IInv', NEW c \in Caller, call[c].pc = "put", UNCHANGED setting,
         UNCHANGED store \/ Create(call[c].slot, call[c].rec),
         \A m \in flying' : m \in flying \/ (m.slot = call[c].slot /\ m.rec = call[c].rec),
         NEW b, Becomes(c, b), b.rec = call[c].rec, b.slot = call[c].slot,
         b.from = call[c].from, b.stage = call[c].stage,
         \/ b.pc = "readback"
         \/ b.pc = "returned" /\ b.result \in {"created", "store"}
  PROVE  OnceInv'
<1>0. PICK a : a = call[c]
  OBVIOUS
<1>1. /\ a.slot \in Slot /\ a.rec \in Record /\ Shape
      /\ Own(c, a) /\ Aimed(c, a) /\ c \in setting.callers
  BY <1>0, AtPut, KnownAim DEF IInv, Own
<1>2. Writes(a.slot, a.rec)
  BY <1>0, <1>1, CreateWrites
<1>3. Clear(a.slot, a.rec) /\ Bound(a.rec, a.slot) /\ a.rec.op = OpOf(c)
  BY <1>0, <1>1 DEF Aimed, Own
<1>4. Slots'
  BY <1>1, <1>2, <1>3, SlotsKept DEF OnceInv, IInv, Inv
<1>5. call'[c] = b /\ \A d \in Caller \ {c} : call'[d] = call[d]
  BY <1>1 DEF Shape, Becomes
<1>6. Own(c, b)' /\ Aimed(c, b)'
  BY <1>0, <1>1, <1>2, PutAimKept
<1>7. ASSUME NEW d \in Caller PROVE Own(d, call[d])' /\ Aimed(d, call[d])'
  <2>1. CASE d = c
    BY <1>5, <1>6, <2>1
  <2>2. CASE d # c
    <3>1. PICK e : e = call[d]
      OBVIOUS
    <3>2. e = call'[d] /\ Own(d, e) /\ Aimed(d, e)
      BY <1>5, <2>2, <3>1 DEF OnceInv
    <3>3. d \in setting.callers /\ Distinct => a.rec.op # OpOf(d)
      BY <1>1, <1>3, <2>2 DEF Distinct
    <3>4. Own(d, e)' /\ Aimed(d, e)'
      BY <1>2, <3>2, <3>3, AimKept
    <3> QED BY <3>2, <3>4
  <2> QED BY <2>1, <2>2
<1> QED BY <1>4, <1>7 DEF OnceInv

\* A create that lands late keeps it: its slot was clear before it was sent.
LEMMA LandOnce ==
  ASSUME OnceInv, IInv, IInv', NEW m \in flying, Land(m)
  PROVE  OnceInv'
<1>1. /\ Create(m.slot, m.rec) /\ flying' = flying \ {m} /\ call' = call /\ UNCHANGED setting
      /\ m.slot \in Slot /\ m.rec \in Record /\ Shape
  BY DEF Land, IInv, Inv, Shape, boundVars
<1>2. Writes(m.slot, m.rec)
  BY <1>1, CreateWrites
<1>3. Clear(m.slot, m.rec) /\ Bound(m.rec, m.slot)
  BY DEF OnceInv, Slots
<1>4. Slots'
  BY <1>1, <1>2, <1>3, SlotsKept DEF OnceInv, IInv, Inv
<1>5. ASSUME NEW d \in Caller PROVE Own(d, call[d])' /\ Aimed(d, call[d])'
  <2>1. PICK e : e = call[d]
    OBVIOUS
  <2>2. e = call'[d] /\ Own(d, e) /\ Aimed(d, e)
    BY <1>1, <2>1 DEF OnceInv
  <2>3. Own(d, e)' /\ Aimed(d, e)'
    BY <1>1, <1>2, <2>2, AimKept
  <2> QED BY <2>2, <2>3
<1> QED BY <1>4, <1>5 DEF OnceInv

\* The steps at the conditional create.
LEMMA CreateOnce ==
  ASSUME OnceInv, IInv, IInv', NEW c \in Caller, call[c].pc = "put",
         Put(c) \/ PutUnknown(c) \/ Fail(c)
  PROVE  OnceInv'
<1> DEFINE a == call[c]
           m == [slot |-> a.slot, rec |-> a.rec]
<1>1. /\ UNCHANGED setting /\ (UNCHANGED store \/ Create(a.slot, a.rec))
      /\ flying' \subseteq flying \cup {m}
  BY DEF Put, PutUnknown, Fail, Fault, boundVars
<1>2. \A n \in flying' : n \in flying \/ (n.slot = a.slot /\ n.rec = a.rec)
  BY <1>1, SMT
<1>3. CASE Step(c, "readback")
  <2> DEFINE e == [a EXCEPT !.pc = "readback"]
  <2>1. /\ e.pc = "readback" /\ e.rec = a.rec /\ e.slot = a.slot
        /\ e.from = a.from /\ e.stage = a.stage
    BY KnownAim DEF AppendCall
  <2>2. Becomes(c, e)
    BY <1>3 DEF Step
  <2> HIDE DEF e
  <2> QED BY <1>1, <1>2, <2>1, <2>2, PutOnce
<1>4. ASSUME NEW result \in {"created", "store"}, Return(c, result) PROVE OnceInv'
  <2> DEFINE e == [a EXCEPT !.pc = "returned", !.result = result]
  <2>1. /\ e.pc = "returned" /\ e.result = result /\ e.rec = a.rec /\ e.slot = a.slot
        /\ e.from = a.from /\ e.stage = a.stage
    BY KnownAim DEF AppendCall
  <2>2. Becomes(c, e)
    BY <1>4 DEF Return
  <2> HIDE DEF e
  <2> QED BY <1>1, <1>2, <1>4, <2>1, <2>2, PutOnce
<1> QED BY <1>3, <1>4 DEF Put, PutUnknown, Fail

\* The initial state: nothing is stored and every caller is idle.
LEMMA InitOnce == Init => OnceInv
<1> SUFFICES ASSUME Init PROVE OnceInv
  OBVIOUS
<1>1. (\A s \in Slot : ~Present(s)) /\ flying = {}
  BY DEF Init, Present
<1>2. ASSUME NEW c \in Caller PROVE Own(c, call[c]) /\ Aimed(c, call[c])
  <2>1. call[c] = NoCall(c)
    BY DEF Init
  <2>2. /\ NoCall(c).pc = "idle" /\ NoCall(c).stage = "new"
        /\ NoCall(c).rec.op = OpOf(c) /\ NoCall(c).rec.key = KeyOf(c)
    BY DEF NoCall, Intent, Admission
  <2>3. Own(c, call[c])
    BY <2>1, <2>2 DEF Own
  <2>4. Aimed(c, call[c])
    BY <1>1, <2>1, <2>2 DEF Aimed, Unwritten, NoOutcome
  <2> QED BY <2>3, <2>4
<1> QED BY <1>1, <1>2 DEF OnceInv, Slots, StoredOnce

\* A step that leaves the callers, the slots and the creates alone.
LEMMA OnceUntouched ==
  ASSUME IInv, OnceInv, UNCHANGED <<store, flying, setting, call>>
  PROVE  OnceInv'
<1>1. CASE Caller = {}
  BY <1>1 DEF OnceInv, Slots, StoredOnce, Clear, Bound, Present
<1>2. ASSUME NEW c \in Caller PROVE OnceInv'
  <2>1. Becomes(c, call[c])
    BY DEF Becomes, IInv, Inv, Shape
  <2> QED BY <2>1, KnownAim, OnceMoved
<1> QED BY <1>1, <1>2

\* Every step keeps the invariant.
LEMMA NextOnce ==
  ASSUME FullInv, FullInv', OnceInv, [Next]_vars
  PROVE  OnceInv'
<1>1. IInv /\ IInv'
  BY DEF FullInv
<1>2. ASSUME NEW c \in Caller, Start(c) \/ Proceed(c) \/ Retry(c) PROVE OnceInv'
  BY <1>1, <1>2, StartOnce, ProceedOnce, RetryOnce
<1>3. ASSUME NEW c \in Caller, ValidatePredecessor(c) \/ Probe(c) \/ ValidateOutcomeBinding(c)
                               \/ Readback(c)
      PROVE  OnceInv'
  BY <1>1, <1>3, PredecessorOnce, ProbeOnce, BindOnce, ReadbackOnce
<1>4. ASSUME NEW c \in Caller, Put(c) \/ PutUnknown(c) PROVE OnceInv'
  BY <1>1, <1>4, CreateOnce DEF Put, PutUnknown
<1>5. ASSUME NEW c \in Caller, Fail(c) PROVE OnceInv'
  <2>1. CASE call[c].pc = "put"
    BY <1>1, <1>5, <2>1, CreateOnce
  <2>2. CASE call[c].pc # "put"
    <3>1. UNCHANGED <<store, flying, setting>> /\ Return(c, "store")
      BY <1>5, <2>2 DEF Fail, Fault
    <3> QED BY <1>1, <1>5, <3>1, ReturnAim DEF Fail, Running
  <2> QED BY <2>1, <2>2
<1>6. ASSUME NEW m \in flying, Land(m) PROVE OnceInv'
  BY <1>1, <1>6, LandOnce
<1>7. CASE ReaderStep \/ ReaderRestart \/ UNCHANGED vars
  <2>1. UNCHANGED <<store, flying, setting, call>>
    BY <1>7 DEF ReaderStep, ScanSlot, ScanEnd, ApplyAt, ReaderRestart, Fault, vars, boundVars
  <2> QED BY <1>1, <2>1, OnceUntouched
<1> QED BY <1>2, <1>3, <1>4, <1>5, <1>6, <1>7 DEF Next, AppendStep

\* No identity is stored twice: an intent, an outcome of an intent or an
\* admission has one slot, however often its append is retried after a lost
\* answer and whenever its first create lands (Journal::append).
THEOREM IdentityStoredOnce == Spec => []StoredOnce
<1>1. OnceInv => StoredOnce
  BY DEF OnceInv, Slots
<1>2. FullInv /\ FullInv' /\ OnceInv /\ [Next]_vars => OnceInv'
  BY NextOnce
<1> QED BY InitFull, NextFull, InitOnce, <1>1, <1>2, PTL DEF Spec

-----------------------------------------------------------------------------
(* The projection: what the reader holds is what its prefix leaves open.    *)

\* The reader's prefix is filled, and it has seen only intents of it.
Projects ==
  /\ ProjectionExact
  /\ \A t \in Slot : t < reader.cursor => Present(t)
  /\ \A op \in reader.set.seen :
       \E t \in Slot : t < reader.cursor /\ store[t].kind = "intent" /\ store[t].op = op

\* What a filled prefix leaves open does not change.
LEMMA OpenKept ==
  ASSUME \A t \in Slot : Present(t) => Present(t)' /\ store'[t] = store[t],
         NEW n, \A t \in Slot : t < n => Present(t)
  PROVE  Open(n)' = Open(n)
<1>1. \A t \in Slot : t < n => Present(t)' /\ store'[t] = store[t]
  OBVIOUS
<1>2. ASSUME NEW t \in Slot PROVE Closed(t, n)' <=> Closed(t, n)
  BY <1>1 DEF Closed
<1>3. ASSUME NEW t \in Slot PROVE IsOpen(t, n)' <=> IsOpen(t, n)
  BY <1>1, <1>2 DEF IsOpen
<1>4. \A t \in Slot : IsOpen(t, n) => store'[t] = store[t]
  BY <1>1 DEF IsOpen
<1> QED BY <1>3, <1>4 DEF Open

\* The reader stays where it is while the slots fill up.
LEMMA ProjectsKept ==
  ASSUME Projects, \A t \in Slot : Present(t) => Present(t)' /\ store'[t] = store[t],
         reader'.cursor = reader.cursor, reader'.set = reader.set,
         reader'.refused = reader.refused
  PROVE  Projects'
<1>1. PICK n : n = reader.cursor
  OBVIOUS
<1>2. \A t \in Slot : t < n => Present(t)
  BY <1>1 DEF Projects
<1>3. Open(n)' = Open(n)
  BY <1>2, OpenKept
<1>4. Open(reader.cursor)' = Open(reader.cursor)
  BY <1>1, <1>3
<1>5. ProjectionExact'
  BY <1>4 DEF Projects, ProjectionExact
<1>6. \A t \in Slot : t < reader'.cursor => Present(t)'
  BY DEF Projects
<1>7. \A op \in reader'.set.seen :
        \E t \in Slot : t < reader'.cursor /\ store'[t].kind = "intent" /\ store'[t].op = op
  BY DEF Projects
<1> QED BY <1>5, <1>6, <1>7 DEF Projects

\* What slot n adds to the outcomes of the prefix.
LEMMA ClosedStep ==
  ASSUME NEW n \in Slot, Present(n), NEW t \in Slot
  PROVE  Closed(t, n + 1) <=> Closed(t, n) \/ (store[n].kind = "outcome" /\ store[n].at = t)
<1>1. \A u \in Slot : u < n + 1 <=> u < n \/ u = n
  BY SlotNat, SMT
<1> QED BY <1>1 DEF Closed

\* An intent opens its operation: no outcome precedes its intent.
LEMMA OpenIntent ==
  ASSUME Slots, NEW n \in Slot, Present(n), store[n].kind = "intent"
  PROVE  Open(n + 1) = Open(n) \cup {Entry(store[n], n)}
<1>1. ~Closed(n, n)
  <2> SUFFICES ASSUME NEW u \in Slot, u < n, Present(u), store[u].kind = "outcome",
                      store[u].at = n
               PROVE  FALSE
    BY DEF Closed
  <2>1. n < u
    BY DEF Slots, Bound
  <2> QED BY <2>1, SlotNat, SMT
<1>2. ASSUME NEW t \in Slot PROVE IsOpen(t, n + 1) <=> IsOpen(t, n) \/ t = n
  <2>1. t < n + 1 <=> t < n \/ t = n
    BY SlotNat, SMT
  <2>2. ~(n < n)
    BY SlotNat, SMT
  <2>3. Closed(t, n + 1) <=> Closed(t, n)
    BY ClosedStep
  <2> QED BY <1>1, <2>1, <2>2, <2>3 DEF IsOpen
<1> QED BY <1>2 DEF Open

\* An outcome closes the operation of its intent and no other.
LEMMA OpenOutcome ==
  ASSUME Slots, NEW n \in Slot, Present(n), store[n].kind = "outcome"
  PROVE  Open(n + 1) = Open(n) \ {Entry(store[n], store[n].at)}
<1> DEFINE at == store[n].at
<1>1. /\ at < n /\ Present(at) /\ at \in Slot
      /\ store[at].op = store[n].op /\ store[at].key = store[n].key
  BY DEF Slots, Bound, Present
<1>2. ASSUME NEW t \in Slot PROVE IsOpen(t, n + 1) <=> IsOpen(t, n) /\ t # at
  <2>1. t < n + 1 <=> t < n \/ t = n
    BY SlotNat, SMT
  <2>3. Closed(t, n + 1) <=> Closed(t, n) \/ at = t
    BY ClosedStep
  <2> QED BY <2>1, <2>3 DEF IsOpen
<1>3. Entry(store[n], at) = Entry(store[at], at)
  BY <1>1 DEF Entry
<1>4. \A t \in Slot : Entry(store[t], t) = Entry(store[at], at) => t = at
  BY DEF Entry
<1> HIDE DEF at
<1>5. Open(n + 1) = Open(n) \ {Entry(store[at], at)}
  BY <1>1, <1>2, <1>4 DEF Open
<1> QED BY <1>3, <1>5 DEF at

\* An admission opens and closes nothing.
LEMMA OpenAdmission ==
  ASSUME NEW n \in Slot, Present(n), store[n].kind = "admission"
  PROVE  Open(n + 1) = Open(n)
<1>1. ASSUME NEW t \in Slot PROVE IsOpen(t, n + 1) <=> IsOpen(t, n)
  <2>1. t < n + 1 <=> t < n \/ t = n
    BY SlotNat, SMT
  <2>2. Closed(t, n + 1) <=> Closed(t, n)
    BY ClosedStep
  <2> QED BY <2>1, <2>2 DEF IsOpen
<1> QED BY <1>1 DEF Open

\* Open operations have different IDs.
LEMMA OpenOnce ==
  ASSUME Slots, NEW n, NEW e \in Open(n), NEW f \in Open(n), e.op = f.op
  PROVE  e = f
<1>1. PICK t \in Slot : IsOpen(t, n) /\ e = Entry(store[t], t)
  BY DEF Open
<1>2. PICK u \in Slot : IsOpen(u, n) /\ f = Entry(store[u], u)
  BY DEF Open
<1>3. store[t].op = store[u].op
  BY <1>1, <1>2 DEF Entry
<1>4. Identity(store[t]) = Identity(store[u])
  BY <1>1, <1>2, <1>3, IntentIdentity DEF IsOpen
<1>5. t = u
  BY <1>1, <1>2, <1>4 DEF Slots, StoredOnce, IsOpen
<1> QED BY <1>1, <1>2, <1>5

\* The intent of an outcome is still open when the reader comes to the outcome.
LEMMA OutcomeOpen ==
  ASSUME Slots, NEW n \in Slot, Present(n), store[n].kind = "outcome"
  PROVE  Entry(store[n], store[n].at) \in Open(n)
<1> DEFINE at == store[n].at
<1>1. /\ at < n /\ Present(at) /\ at \in Slot /\ store[at].kind = "intent"
      /\ store[at].op = store[n].op /\ store[at].key = store[n].key
  BY DEF Slots, Bound, Present
<1>2. ~Closed(at, n)
  <2> SUFFICES ASSUME NEW u \in Slot, u < n, Present(u), store[u].kind = "outcome",
                      store[u].at = at
               PROVE  FALSE
    BY DEF Closed
  <2>1. store[u].op = store[n].op
    BY <1>1 DEF Slots, Bound
  <2>2. Identity(store[u]) = Identity(store[n])
    BY <2>1 DEF Identity
  <2>3. u = n
    BY <2>2 DEF Slots, StoredOnce
  <2> QED BY <2>3, SlotNat, SMT
<1>3. IsOpen(at, n)
  BY <1>1, <1>2 DEF IsOpen
<1>4. Entry(store[n], at) = Entry(store[at], at)
  BY <1>1 DEF Entry
<1> QED BY <1>1, <1>3, <1>4 DEF Open

\* Under each key the operations of the open entries with that key.
ByKeyOf(set) == \A k \in Key : set.byKey[k] = {e.op : e \in {f \in set.byOp : f.key = k}}

\* Folding a record in moves the projection by one slot.
LEMMA ProjectedExact ==
  ASSUME Slots, NEW n \in Slot, Present(n), store[n] \in Record,
         NEW set \in Pending, set.byOp = Open(n), ByKeyOf(set)
  PROVE  /\ Projected(set, n, store[n]).next = n + 1
         /\ Projected(set, n, store[n]).byOp = Open(n + 1)
         /\ ByKeyOf(Projected(set, n, store[n]))
         /\ Projected(set, n, store[n]).seen \subseteq
              set.seen \cup (IF store[n].kind = "intent" THEN {store[n].op} ELSE {})
<1> DEFINE rec == store[n]
           new == Projected(set, n, rec)
           e == Entry(rec, n)
           f == Entry(rec, rec.at)
<1>0. rec.op \in Op /\ rec.key \in Key /\ rec.kind \in {"intent", "outcome", "admission"}
  BY DEF Record
<1>1. CASE rec.kind = "intent"
  <2>1. /\ new.next = n + 1 /\ new.byOp = set.byOp \cup {e} /\ new.seen = set.seen \cup {rec.op}
        /\ new.byKey = [set.byKey EXCEPT ![rec.key] = set.byKey[rec.key] \cup {rec.op}]
    BY <1>1 DEF Projected, Pending
  <2>2. new.byOp = Open(n + 1)
    BY <1>1, <2>1, OpenIntent
  <2>3. e.op = rec.op /\ e.key = rec.key
    BY DEF Entry
  <2> HIDE DEF new, e, rec
  <2>4. ASSUME NEW k \in Key PROVE new.byKey[k] = {x.op : x \in {y \in new.byOp : y.key = k}}
    <3>1. set.byKey[k] = {x.op : x \in {y \in set.byOp : y.key = k}} /\ set.byKey \in [Key -> SUBSET Op]
      BY DEF ByKeyOf, Pending
    <3>2. CASE k = rec.key
      <4>1. new.byKey[k] = set.byKey[k] \cup {rec.op}
        BY <1>0, <2>1, <3>1, <3>2
      <4>2. {y \in new.byOp : y.key = k} = {y \in set.byOp : y.key = k} \cup {e}
        BY <2>1, <2>3, <3>2
      <4> QED BY <2>3, <3>1, <4>1, <4>2
    <3>3. CASE k # rec.key
      <4>1. new.byKey[k] = set.byKey[k]
        BY <1>0, <2>1, <3>1, <3>3
      <4>2. {y \in new.byOp : y.key = k} = {y \in set.byOp : y.key = k}
        BY <2>1, <2>3, <3>3
      <4> QED BY <3>1, <4>1, <4>2
    <3> QED BY <3>2, <3>3
  <2> QED BY <1>1, <2>1, <2>2, <2>4 DEF ByKeyOf, new, rec
<1>2. CASE rec.kind = "outcome"
  <2>1. /\ new.next = n + 1 /\ new.byOp = set.byOp \ {f} /\ new.seen = set.seen
        /\ new.byKey = [set.byKey EXCEPT ![rec.key] = set.byKey[rec.key] \ {rec.op}]
    BY <1>2 DEF Projected, Pending
  <2>2. new.byOp = Open(n + 1)
    BY <1>2, <2>1, OpenOutcome
  <2>3. f.op = rec.op /\ f.key = rec.key
    BY DEF Entry
  <2>5. f \in set.byOp
    BY <1>2, OutcomeOpen
  <2>6. \A x \in set.byOp : x.op = rec.op => x = f
    BY <2>3, <2>5, OpenOnce, SMT
  <2> HIDE DEF new, f, rec
  <2>4. ASSUME NEW k \in Key PROVE new.byKey[k] = {x.op : x \in {y \in new.byOp : y.key = k}}
    <3>1. set.byKey[k] = {x.op : x \in {y \in set.byOp : y.key = k}} /\ set.byKey \in [Key -> SUBSET Op]
      BY DEF ByKeyOf, Pending
    <3>2. CASE k = rec.key
      <4>1. new.byKey[k] = set.byKey[k] \ {rec.op}
        BY <1>0, <2>1, <3>1, <3>2
      <4>2. {y \in new.byOp : y.key = k} = {y \in set.byOp : y.key = k} \ {f}
        BY <2>1
      <4> QED BY <2>3, <2>6, <3>1, <4>1, <4>2
    <3>3. CASE k # rec.key
      <4>1. new.byKey[k] = set.byKey[k]
        BY <1>0, <2>1, <3>1, <3>3
      <4>2. {y \in new.byOp : y.key = k} = {y \in set.byOp : y.key = k}
        BY <2>1, <2>3, <3>3
      <4> QED BY <3>1, <4>1, <4>2
    <3> QED BY <3>2, <3>3
  <2> QED BY <1>2, <2>1, <2>2, <2>4 DEF ByKeyOf, new, rec
<1>3. CASE rec.kind = "admission"
  <2>1. new.next = n + 1 /\ new.byOp = set.byOp /\ new.seen = set.seen /\ new.byKey = set.byKey
    BY <1>3 DEF Projected, Pending
  <2>2. new.byOp = Open(n + 1)
    BY <1>3, <2>1, OpenAdmission
  <2> QED BY <1>3, <2>1, <2>2 DEF ByKeyOf
<1> QED BY <1>0, <1>1, <1>2, <1>3

\* The reader accepts the record at its cursor.
LEMMA RecordAccepted ==
  ASSUME Slots, Projects, reader.set \in Pending, reader.cursor \in Slot, Present(reader.cursor),
         store[reader.cursor] \in Record
  PROVE  Accepts(reader.set, reader.cursor, store[reader.cursor])
<1> DEFINE n == reader.cursor
           rec == store[n]
<1>1. ASSUME rec.kind = "intent", rec.op \in reader.set.seen PROVE FALSE
  <2>1. PICK t \in Slot : t < n /\ store[t].kind = "intent" /\ store[t].op = rec.op
    BY <1>1 DEF Projects
  <2>2. Present(t)
    BY <2>1 DEF Projects
  <2>3. Identity(store[t]) = Identity(rec)
    BY <1>1, <2>1, IntentIdentity
  <2>4. t = n
    BY <2>2, <2>3 DEF Slots, StoredOnce
  <2> QED BY <2>1, <2>4, SlotNat, SMT
<1>2. ASSUME rec.kind = "outcome"
      PROVE  Entry(rec, rec.at) \in reader.set.byOp /\ rec.op \in reader.set.byKey[rec.key]
  <2>1. Entry(rec, rec.at) \in reader.set.byOp
    BY <1>2, OutcomeOpen DEF Projects, ProjectionExact
  <2>2. Entry(rec, rec.at).op = rec.op /\ Entry(rec, rec.at).key = rec.key /\ rec.key \in Key
    BY DEF Entry, Record
  <2>3. rec.op \in {x.op : x \in {y \in reader.set.byOp : y.key = rec.key}}
    BY <2>1, <2>2
  <2> QED BY <2>1, <2>2, <2>3 DEF Projects, ProjectionExact
<1>3. n = reader.set.next
  BY DEF Projects, ProjectionExact
<1> QED BY <1>1, <1>2, <1>3 DEF Accepts

\* Applying the record at the cursor keeps the projection exact.
LEMMA ApplyAtProjects ==
  ASSUME FullInv, Slots, Projects, ApplyAt
  PROVE  Projects'
<1> DEFINE n == reader.cursor
           rec == Head(reader.page)
           set == Projected(reader.set, n, rec)
           rest == Tail(reader.page)
           more == rest # <<>>
<1>1. /\ reader.page \in Seq(Record) /\ reader.page # <<>> /\ n \in Nat
      /\ reader.set \in Pending /\ Len(reader.page) \in Nat \ {0} /\ rec = reader.page[1]
      /\ rec \in Record
  BY SMT DEF FullInv, ReaderTyped, PageStored, ApplyAt
<1>2. Present(n) /\ n \in Slot /\ rec = store[n]
  BY <1>1, SMT DEF FullInv, PageStored, Present
<1>3. Accepts(reader.set, n, rec)
  BY <1>1, <1>2, RecordAccepted
<1>4. /\ reader' = [reader EXCEPT !.set = set, !.cursor = n + 1, !.page = rest, !.applying = more]
      /\ UNCHANGED store
  BY <1>3 DEF ApplyAt, FullInv, ReaderTyped
<1> HIDE DEF set, rest, more
<1>5. reader'.set = set /\ reader'.cursor = n + 1 /\ reader'.refused = reader.refused
  BY <1>4 DEF FullInv, ReaderTyped
<1>6. /\ set.next = n + 1 /\ set.byOp = Open(n + 1) /\ ByKeyOf(set)
      /\ set.seen \subseteq reader.set.seen \cup (IF rec.kind = "intent" THEN {rec.op} ELSE {})
  <2>1. store[n] \in Record /\ reader.set \in Pending /\ reader.set.byOp = Open(n)
    BY <1>1, <1>2 DEF Projects, ProjectionExact
  <2>2. ByKeyOf(reader.set)
    BY DEF Projects, ProjectionExact, ByKeyOf
  <2> QED BY <1>2, <2>1, <2>2, ProjectedExact, SMTT(20) DEF set
<1>7. Open(reader.cursor)' = Open(n + 1)
  <2>1. \A m : Open(m)' = Open(m)
    BY <1>4 DEF Open, IsOpen, Closed, Present
  <2>2. PICK m : m = reader'.cursor
    OBVIOUS
  <2>3. Open(reader.cursor)' = Open(m)'
    BY <2>2
  <2> QED BY <1>5, <2>1, <2>2, <2>3
<1>8. ProjectionExact'
  <2>1. ~reader.refused
    BY DEF Projects, ProjectionExact
  <2>2. \A k \in Key : set.byKey[k] = {e.op : e \in {f \in set.byOp : f.key = k}}
    BY <1>6 DEF ByKeyOf
  <2> QED BY <1>5, <1>6, <1>7, <2>1, <2>2 DEF ProjectionExact
<1>9. \A t \in Slot : t < n + 1 <=> t < n \/ t = n
  BY <1>1, SlotNat, SMT
<1>10. \A t \in Slot : t < reader'.cursor => Present(t)'
  BY <1>2, <1>4, <1>5, <1>9 DEF Projects, Present
<1>11. \A op \in reader'.set.seen :
         \E t \in Slot : t < reader'.cursor /\ store'[t].kind = "intent" /\ store'[t].op = op
  <2> SUFFICES ASSUME NEW op \in set.seen
               PROVE  \E t \in Slot : t < n + 1 /\ store[t].kind = "intent" /\ store[t].op = op
    BY <1>4, <1>5
  <2>1. op \in reader.set.seen \/ (rec.kind = "intent" /\ op = rec.op)
    BY <1>6
  <2> QED BY <1>2, <1>9, <2>1 DEF Projects
<1> QED BY <1>8, <1>10, <1>11 DEF Projects

\* A reader that starts has seen nothing of an empty prefix.
LEMMA NewReaderProjects == reader = NewReader => Projects
<1> SUFFICES ASSUME reader = NewReader PROVE Projects
  OBVIOUS
<1>1. /\ reader.cursor = 0 /\ reader.set = NoPending /\ ~reader.refused
      /\ NoPending.next = 0 /\ NoPending.seen = {} /\ NoPending.byOp = {}
      /\ \A k \in Key : NoPending.byKey[k] = {}
  BY DEF NewReader, NoPending
<1>2. \A t \in Slot : ~(t < 0)
  BY SlotNat, SMT
<1>3. Open(0) = {}
  BY <1>2 DEF Open, IsOpen
<1> QED BY <1>1, <1>2, <1>3 DEF Projects, ProjectionExact

\* Every step keeps the projection exact.
LEMMA NextProjects ==
  ASSUME FullInv, Slots, Projects, [Next]_vars
  PROVE  Projects'
<1>1. \A t \in Slot : Present(t) => Present(t)' /\ store'[t] = store[t]
  BY StoreKept DEF FullInv
<1>2. CASE UNCHANGED reader
  BY <1>1, <1>2, ProjectsKept
<1>3. CASE ScanSlot \/ ScanEnd
  <2>1. reader'.cursor = reader.cursor /\ reader'.set = reader.set
        /\ reader'.refused = reader.refused
    BY <1>3 DEF ScanSlot, ScanEnd, FullInv, ReaderTyped
  <2> QED BY <1>1, <2>1, ProjectsKept
<1>4. CASE ApplyAt
  BY <1>4, ApplyAtProjects
<1>5. CASE ReaderRestart
  <2>1. reader' = NewReader
    BY <1>5 DEF ReaderRestart
  <2>2. (reader = NewReader => Projects)'
    BY NewReaderProjects, PTL
  <2> QED BY <2>1, <2>2
<1>6. ASSUME NEW c \in Caller,
             Start(c) \/ Proceed(c) \/ Retry(c) \/ AppendStep(c) \/ PutUnknown(c) \/ Fail(c)
      PROVE  UNCHANGED reader
  BY <1>6 DEF Start, Proceed, Retry, AppendStep, ValidatePredecessor, Probe,
              ValidateOutcomeBinding, Put, Readback, PutUnknown, Fail
<1>7. ASSUME NEW m \in flying, Land(m) PROVE UNCHANGED reader
  BY <1>7 DEF Land
<1>8. CASE UNCHANGED vars
  BY <1>2, <1>8 DEF vars
<1> QED BY <1>2, <1>3, <1>4, <1>5, <1>6, <1>7, <1>8 DEF Next, ReaderStep

\* The projection holds exactly the operations its prefix leaves open and never
\* refuses a record that callers appended (PendingSet::apply_at): it rests on
\* every identity having one slot and every outcome following its intent.
THEOREM ProjectionIsExact == Spec => []ProjectionExact
<1>1. OnceInv => Slots
  BY DEF OnceInv
<1>2. Projects => ProjectionExact
  BY DEF Projects
<1>3. FullInv /\ FullInv' /\ OnceInv /\ [Next]_vars => OnceInv'
  BY NextOnce
<1>4. FullInv /\ Slots /\ Projects /\ [Next]_vars => Projects'
  BY NextProjects
<1>5. Init => Projects
  BY NewReaderProjects DEF Init
<1> QED BY InitFull, NextFull, InitOnce, <1>1, <1>2, <1>3, <1>4, <1>5, PTL DEF Spec
=============================================================================
