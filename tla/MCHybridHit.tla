----------------------------- MODULE MCHybridHit -----------------------------
(* Small instances of HybridHit for TLC; the constants are in the .cfg      *)
(* files.  Serving stops at the bound on requests.                          *)
EXTENDS HybridHit
=============================================================================
