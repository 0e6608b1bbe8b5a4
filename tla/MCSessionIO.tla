----------------------------- MODULE MCSessionIO -----------------------------
(* Instances of SessionIO for TLC; the constants are in the .cfg.            *)
EXTENDS SessionIO
=============================================================================
