--------------------------- MODULE MCHssThreadPool ---------------------------
(* HssThreadPool on a small collection. *)
EXTENDS HssThreadPool
=============================================================================
