------------------------- MODULE MCSyncClientInterrupt -------------------------
(* Instances of SyncClientInterrupt for TLC.  Events of the same size are   *)
(* alike, callers that may be interrupted are not like the others.          *)
EXTENDS SyncClientInterrupt, TLC

Symmetry == Permutations(Ids \ Oversize)
===============================================================================
