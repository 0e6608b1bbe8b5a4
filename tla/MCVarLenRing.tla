------------------------------ MODULE MCVarLenRing ------------------------------
(* Instances of VarLenRing for TLC; the constants are in the .cfg.           *)
EXTENDS VarLenRing
=============================================================================
