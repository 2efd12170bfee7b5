---------------------------- MODULE MCWorkerPool ----------------------------
(* The worker pool with its items' sizes for TLC. *)
EXTENDS WorkerPool

CONSTANTS i1, i2, i3

\* A budget of 3 holds i1 and i2 together or i3 alone, so two submitters can
\* wait and two can race; a budget of 1 refuses i2 and i3; 0 is no bound.
MCItems == {i1, i2, i3}
MCSize == [i \in MCItems |-> CASE i = i1 -> 1 [] i = i2 -> 2 [] OTHER -> 3]
MCBudgets == {0, 1, 3}
=============================================================================
