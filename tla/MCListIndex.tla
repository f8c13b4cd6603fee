----------------------------- MODULE MCListIndex -----------------------------
(* Instances of ListIndex for TLC.  Key 1 sorts before the prefix block;   *)
(* keys 2 and 3 share a common prefix, as do 5 and 6.                      *)
EXTENDS ListIndex

Keys == 1..6
InBlock == 2..6
Rolled == <<0, 1, 1, 0, 2, 2>>

=============================================================================
