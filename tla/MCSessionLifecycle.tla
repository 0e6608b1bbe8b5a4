-------------------------- MODULE MCSessionLifecycle --------------------------
(* Instances of SessionLifecycle for TLC; the constants are in the .cfg.     *)
EXTENDS SessionLifecycle
=============================================================================
