---------------------------- MODULE MCIndexSync -----------------------------
(* Finite instances of IndexSync.  Odd versions are byte-identical rewrites *)
(* (one ETag, one size); the initial objects are version 1.                 *)
EXTENDS IndexSync

CONSTANTS w1, w2, s1, s2, r1, r2

MCEtag(v) == v % 2
MCSize(v) == v % 2

\* One key, acknowledged writes, one scan.
Plain == [keys |-> {1}, scanners |-> {s1}, readers |-> {}, rare |-> {},
          overlap |-> "acked", splits |-> {}, maxVer |-> 3, maxTime |-> 8, maxGen |-> 2, maxEpoch |-> 2]

\* Two scans and a gap; two keys on two pages; one reader and two scans in
\* turn; two readers; overlapping stamped writes without scans and fences.
RowSettings ==
  {[Plain EXCEPT !.scanners = {s1, s2}, !.rare = {"gap"}, !.maxGen = 3],
   [Plain EXCEPT !.keys = {1, 2}, !.splits = {1}, !.maxGen = 1],
   [Plain EXCEPT !.readers = {r1}],
   [Plain EXCEPT !.readers = {r1, r2}, !.maxVer = 2],
   [Plain EXCEPT !.keys = {1, 2}, !.scanners = {}, !.overlap = "stamped",
                 !.maxVer = 4, !.maxTime = 5, !.maxEpoch = 0]}

\* A gap between scans; and everything at once.
LiveSettings ==
  {[Plain EXCEPT !.rare = {"gap"}, !.maxGen = 3],
   [Plain EXCEPT !.readers = {r1}, !.rare = Rare, !.overlap = "free",
                 !.maxVer = 2]}

LateHead == {[Plain EXCEPT !.rare = {"late_head"}]}

=============================================================================
