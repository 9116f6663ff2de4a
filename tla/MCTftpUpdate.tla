---------------------------- MODULE MCTftpUpdate ----------------------------
(* TftpUpdate.tla with two devices, d1 the chosen one. *)
EXTENDS TftpUpdate

CONSTANTS d1, d2

OtherProduct == [d \in Devices |-> IF d = d1 THEN "fits" ELSE "other"]
SameProduct == [d \in Devices |-> "fits"]
=============================================================================
