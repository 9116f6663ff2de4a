---------------------------- MODULE MCMstpMaster ----------------------------
(* MstpMaster for TLC: T3000 opens the line for a scan, and for a connection *)
(* to panel 1 that leaves the addresses above it out.                        *)
EXTENDS MstpMaster

ScanOrConnect == {[panel |-> 3, node |-> 0], [panel |-> 1, node |-> 1]}
=============================================================================
