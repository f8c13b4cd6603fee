-------------------------- MODULE MCControlJournal --------------------------
(* Instances of ControlJournal for TLC.                                    *)
EXTENDS ControlJournal

CONSTANTS c1, c2, c3, c4, c5

\* c4 and c5 use one operation ID, for different keys; every other caller has
\* its own operation, on one key.
MCOpOf(c) == IF c = c5 THEN c4 ELSE c
MCKeyOf(c) == IF c = c5 THEN "other" ELSE "k"

\* Two operations from any cursor or beside a reader; one operation from any
\* cursor beside a reader; an operation and an admission; two callers of one
\* operation ID.
AppendSettings ==
  {[callers |-> {c1, c2}, from |-> 0..(MaxSlots + 1), scanning |-> FALSE, faults |-> 1],
   [callers |-> {c1, c2}, from |-> {0}, scanning |-> TRUE, faults |-> 0],
   [callers |-> {c1}, from |-> 0..(MaxSlots + 1), scanning |-> TRUE, faults |-> 2],
   [callers |-> {c1, c3}, from |-> {0}, scanning |-> TRUE, faults |-> 2],
   [callers |-> {c4, c5}, from |-> {0}, scanning |-> TRUE, faults |-> 2]}

=============================================================================
