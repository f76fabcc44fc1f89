---------------------------- MODULE MCLocalState ----------------------------
(* Instance of LocalStateProperties for TLC. *)
EXTENDS LocalStateProperties, TLC

CONSTANTS p1, p2

MCProcess == {p1, p2}
MCSymmetry == Permutations(MCProcess)
=============================================================================
