--------------------------- MODULE MCObservedCatalog ---------------------------
(* Instances of ObservedCatalog for TLC.                                    *)
EXTENDS ObservedCatalog, TLC
===============================================================================
