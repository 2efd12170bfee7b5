--------------------------- MODULE MCRolloutEngine ---------------------------
(* Instances of RolloutEngine for TLC: a group of three agents. *)
EXTENDS RolloutEngine, TLC

Percent(p, c) == [mode |-> "percent", percentage |-> p, selector |-> {}, convergence |-> c]
ByLabel(s)    == [mode |-> "label", percentage |-> 0, selector |-> s, convergence |-> 0]

MCAgents == 1..3
MCNoLabels == [a \in MCAgents |-> {}]

(* 10% of three agents is one agent, 50% is two. *)
MCPercentStages == <<Percent(10, 0), Percent(50, 50), Percent(100, 0)>>
MCTwoStages == <<Percent(50, 0), Percent(100, 0)>>

(* The canary agent first, then the site both tiers belong to; a stage     *)
(* list has one mode.  The churn may take anybody out of either cohort.    *)
MCLabelStages == <<ByLabel({"canary"}), ByLabel({"site"})>>
MCShards == (1 :> {"canary", "site"}) @@ (2 :> {"site"}) @@ (3 :> {"site"})
=============================================================================
