---------------------------- MODULE MCDownloader ----------------------------
(* Downloader with the history of the current cycle.                       *)
EXTENDS Downloader

VARIABLE seen    \* what the object has held since the cycle began

allVars == <<vars, seen>>

HistoryInit == Init /\ seen = {object}

HistoryNext ==
  /\ Next
  /\ seen' = IF pc = "cycle" THEN {object'} ELSE seen \cup {object'}

HistorySpec == HistoryInit /\ [][HistoryNext]_allVars

(* Unless an etag misleads it, a cycle that ends by recording a            *)
(* synchronisation leaves live/ with what the object held at some moment   *)
(* of that cycle, although the object moves between its Head, its Get and  *)
(* its Render: a fresh last-sync time means the gateway was up to date at  *)
(* most one cycle ago.                                                     *)
SyncMeansCurrent ==
  [][ (pc \in {"head", "render", "renderEmpty"} /\ pc' = "wait" /\ ~Misled)
      => (live' \in {Image(v) : v \in seen'}) ]_allVars
=============================================================================
