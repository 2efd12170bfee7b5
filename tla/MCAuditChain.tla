---------------------------- MODULE MCAuditChain ----------------------------
(* The audit chain with a set of interchangeable events for TLC. *)
EXTENDS AuditChain, TLC

EventSymmetry == Permutations(Events)
=============================================================================
