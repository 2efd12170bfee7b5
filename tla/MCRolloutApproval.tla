-------------------------- MODULE MCRolloutApproval --------------------------
(* Instances of RolloutApproval for TLC: alice asked for the rollout.       *)
EXTENDS RolloutApproval, TLC

MCNames == {"alice", "Alice", "bob", "carol", "dave"}
MCFold == [n \in MCNames |-> IF n = "Alice" THEN "alice" ELSE n]
MCRolesOf == [n \in MCNames |-> IF n = "carol" THEN {"sre"} ELSE {}]

CallSymmetry == Permutations(Calls)
=============================================================================
