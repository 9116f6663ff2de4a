-------------------------- MODULE MCConfirmedSend --------------------------
(* ConfirmedSend for TLC; the names of the requests and the senders are    *)
(* interchangeable.                                                        *)
EXTENDS ConfirmedSend, TLC

SomeSymmetry == Permutations(Requests) \cup Permutations(Senders)

(* A behaviour in which senders have searched at once says no more. *)
SearchesApart == ~overlapped
=============================================================================
