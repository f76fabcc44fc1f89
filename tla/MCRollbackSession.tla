-------------------------- MODULE MCRollbackSession --------------------------
(* Instances of the dead man's switch for TLC: operations 1, 2 and 4 are risky,
   of which 4 has no inverse; 3 is harmless. *)
EXTENDS RollbackSessionProperties

MCRisky == {1, 2, 4, 5} \cap 1..MaxOps
MCReversible == {1, 2, 3, 5} \cap 1..MaxOps

=============================================================================
