---------------------------- MODULE MCBodyCache -----------------------------
EXTENDS BodyCache, TLC

\* Every other version has the same bytes.
MCEtag(v) == v % 2
MCSize(v) == v % 2

Readers == Permutations(Reader)

\* One overwrite by a peer of a clustered node.
Plain ==
  [clustered |-> TRUE, writers |-> {"peer"}, reads |-> 1, faults |-> {}, elapse |-> {1},
   versions |-> 2, signals |-> 0]

Both == [Plain EXCEPT !.writers = Writer]

\* A peer's write crosses two reads; this node's writes and the peer's cross
\* two reads; a third version repeats the first's bytes, seconds later or at
\* once; recovery from each signal; a second lapse; a node without a feed.
ReadSettings ==
  {[Plain EXCEPT !.reads = 2, !.faults = {"promote", "stall"}],
   [Both EXCEPT !.reads = 2, !.faults = {"lost"}],
   [Both EXCEPT !.elapse = {1, 6}, !.versions = 3],
   [Plain EXCEPT !.faults = {"gap", "lapse", "crash", "timeout"}, !.signals = 1],
   [Plain EXCEPT !.faults = {"lapse"}, !.signals = 2],
   [Both EXCEPT !.clustered = FALSE, !.writers = {"local"}, !.reads = 2,
                !.faults = {"lost"}]}

\* Lost answers and a peer that gives up; recovery from two signals.
LiveSettings ==
  {[Both EXCEPT !.faults = {"lost", "peer_lost", "stall"}],
   [Plain EXCEPT !.reads = 0, !.faults = {"gap", "lapse", "crash", "timeout"},
                 !.signals = 2]}

\* The peer's answer is lost.
UncertainPeer == {[Plain EXCEPT !.reads = 2, !.faults = {"peer_lost"}]}

=============================================================================
