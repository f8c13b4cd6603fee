------------------------------- MODULE SlotLog ------------------------------
(***************************************************************************)
(* What the control source promises whoever appends to it or scans it:     *)
(* "Bounded, immutable S3 control-source slots" of which a scan "proves a  *)
(* contiguous source prefix" (control/mod.rs).  Slots are filled in order, *)
(* each once and for good; a caller is told only of what is in its slot;   *)
(* a scan passes only filled slots.  How creates are retried, lost, delayed *)
(* or raced is not to be seen here.                                        *)
(***************************************************************************)
EXTENDS Naturals

CONSTANTS Slot, Caller, Value, Nothing

VARIABLES
  log,   \* slot -> the value it holds, Nothing until it is filled
  told,  \* caller -> the append it was told succeeded, as a set
  read   \* the slots a scan has passed

logVars == <<log, told, read>>

Init ==
  /\ log = [s \in Slot |-> Nothing]
  /\ told = [c \in Caller |-> {}]
  /\ read = 0

Filled(s) == s \in Slot /\ log[s] # Nothing

\* The first empty slot is filled, with any value.
Extend(s) ==
  /\ log[s] = Nothing /\ \A t \in Slot : t < s => Filled(t)
  /\ log'[s] \in Value
  /\ log' = [log EXCEPT ![s] = log'[s]]

Tell(c, s, v) == told' = [told EXCEPT ![c] = {[slot |-> s, rec |-> v]}]

\* A value becomes durable, and its caller is told at once or later or never.
Fill(s) ==
  /\ Extend(s)
  /\ UNCHANGED told \/ \E c \in Caller : Tell(c, s, log'[s])
  /\ UNCHANGED read

Report(c, s) == Filled(s) /\ Tell(c, s, log[s]) /\ UNCHANGED <<log, read>>

\* A caller turns to its next append.
Forget(c) == told' = [told EXCEPT ![c] = {}] /\ UNCHANGED <<log, read>>

\* A scan passes a filled slot; a restarted one begins again.
Advance == Filled(read) /\ read' = read + 1 /\ UNCHANGED <<log, told>>
Restart == read' = 0 /\ UNCHANGED <<log, told>>

Next ==
  \/ \E s \in Slot : Fill(s)
  \/ \E c \in Caller : Forget(c) \/ \E s \in Slot : Report(c, s)
  \/ Advance \/ Restart

Spec == Init /\ [][Next]_logVars

=============================================================================
