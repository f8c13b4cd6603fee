---------------------------- MODULE MCPlannedStop ----------------------------
(* Instances of PlannedStop for TLC.                                       *)
EXTENDS PlannedStop, TLC

CONSTANTS w1, w2, p1, p2

\* Two writes across one restart; one write, which the peer may miss, across
\* two restarts or with two peers.
StopSettings ==
  {[writes |-> Write, peers |-> {p1}, lives |-> 2, faults |-> Fault \ {"miss"}],
   [writes |-> {w1}, peers |-> {p1}, lives |-> 3, faults |-> Fault],
   [writes |-> {w1}, peers |-> Peer, lives |-> 2, faults |-> Fault]}

=============================================================================
