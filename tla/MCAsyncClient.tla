----------------------------- MODULE MCAsyncClient -----------------------------
(* Instances of AsyncClient for TLC.                                        *)
EXTENDS AsyncClient, TLC
===============================================================================
