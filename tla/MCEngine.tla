------------------------------ MODULE MCEngine ------------------------------
(* Instances of the engine for TLC: request 1 is one operation, request 2 a
   plan of two. *)
EXTENDS EngineProperties

MCPlans == {2}
MCPlanSize == [k \in 1..MaxRequests |-> k]

=============================================================================
