------------------------------ MODULE MCRollout ------------------------------
(* Instances of Rollout for TLC.                                           *)
EXTENDS Rollout

CONSTANTS s1, s2

Pods2 == {s1, s2}

\* A rollout with slow pods and gaps, and crashes with and without an outage of the
\* origin.
Troubles == {{"suspect", "gap"}, {"suspect", "crash"}, {"suspect", "crash", "origin"}}

=============================================================================
