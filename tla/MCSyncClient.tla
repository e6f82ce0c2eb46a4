----------------------------- MODULE MCSyncClient -----------------------------
(* Instances of SyncClient for TLC: liveness, so no symmetry.               *)
EXTENDS SyncClient, TLC
===============================================================================
