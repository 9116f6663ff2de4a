------------------------- MODULE MCPrivateTransfer -------------------------
(* PrivateTransfer for TLC. *)
EXTENDS PrivateTransfer

(* Once an id was freed under a request the safety invariants that speak of *)
(* undisturbed behaviours say nothing more: they are checked up to there.   *)
Undisturbed == ~disturbed
=============================================================================
