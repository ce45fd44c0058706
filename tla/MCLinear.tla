------------------------------ MODULE MCLinear ------------------------------
(* The refinement of LinearTree, and liveness, for TLC. *)
EXTENDS CoordinatorRefinesLinearTree

CONSTANTS c1, c2, c3

Strong == [c \in Coordinators |-> "strong"]
OneConfig == [c \in Coordinators |-> "f"]

LinearRequests == {[type |-> "put", key |-> 1, value |-> "v"], [type |-> "popFirst"],
                   [type |-> "read"]}
=============================================================================
