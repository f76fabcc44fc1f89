------------------------- MODULE MCReviewedChanges -------------------------
(* Instances of the review for TLC: an address set and a source binding that
   refers to it; binding and unbinding can cut connections. *)
EXTENDS ReviewedChangesProperties

CONSTANTS addressSet, binding, port

MCSetting == {addressSet, binding, port}
MCNeeds == {<<binding, addressSet>>}
MCInitially == {{addressSet, port}}
MCRisky == {binding, port}

=============================================================================
