---------------------------- MODULE MCJiraApply -----------------------------
(* Operators' requests, and symmetry, for the runs of JiraApply. *)
EXTENDS JiraApply, TLC

Asked == {{"assign", "link"}}
Symmetry == Permutations(Runs) \cup Permutations(Prs)
=============================================================================
