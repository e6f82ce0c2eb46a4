------------------------------- MODULE MCUuidV7 --------------------------------
(* Instances of UuidV7 for TLC.                                             *)
EXTENDS UuidV7, TLC
===============================================================================
