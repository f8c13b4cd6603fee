---------------------------- MODULE MCFleetImage ----------------------------
(* Instances of FleetImage for TLC.                                        *)
EXTENDS FleetImage

CONSTANTS d, f, w

\* Every other version has the same bytes.
MCEtag(v) == v % 2
MCSize(v) == v % 2

Plain == [keys |-> {1}, events |-> {}, prior |-> {}, writers |-> {d},
          maxVer |-> 3, maxTime |-> 8, captures |-> 1, maxGen |-> 2, maxEpoch |-> 1]

\* The donor writes two keys; follower and third node write one; observed rows
\* of a third node's writes and of the follower's own; overruns with and
\* without rebuilds; lost answers; a third node's restarts; a second capture
\* while the first is given up; everything a follower does to one write.
FleetSettings ==
  {[Plain EXCEPT !.keys = {1, 2}],
   [Plain EXCEPT !.writers = {f, w}],
   [Plain EXCEPT !.events = {"read"}, !.writers = {w}, !.prior = {w}],
   [Plain EXCEPT !.events = {"read"}, !.writers = {f}],
   [Plain EXCEPT !.events = {"gap"}, !.writers = {w}, !.prior = {w}],
   [Plain EXCEPT !.events = {"gap", "scan"}, !.writers = {w}, !.prior = {w}, !.maxVer = 2],
   [Plain EXCEPT !.events = {"lost"}, !.writers = {f}],
   [Plain EXCEPT !.events = {"seal", "crash"}, !.writers = {w}, !.prior = {w}, !.maxVer = 2],
   [Plain EXCEPT !.events = {"drop"}, !.captures = 2, !.maxVer = 2],
   [Plain EXCEPT !.events = {"read", "lost", "scan"}, !.writers = {f}, !.maxVer = 2]}

=============================================================================
