--------------------------- MODULE MCSnapshotReads ---------------------------
(* Instances of the reads for TLC: the zones refer to one service at first and
   to two after a change; a policy appears, and may go again. *)
EXTENDS SnapshotReadsProperties

CONSTANTS ssh, http, egress

MCService == {ssh, http}
MCPolicy == {egress}
MCReferenced == [v \in 0..MaxChanges |-> IF v = 0 THEN {ssh} ELSE MCService]
MCListed == [v \in 0..MaxChanges |-> IF v = 1 THEN MCPolicy ELSE {}]

=============================================================================
