----------------------------- MODULE MCDashboard -----------------------------
(***************************************************************************)
(* Dashboard and Lists on small instances: two tasks, with and without a   *)
(* due date; orderings with ties, without, and one that is refused.        *)
(***************************************************************************)
EXTENDS Lists, TLC

MCDueInput == {0, None}
MCPriorityInput == {2, 4}
\* Nobody has filled in a name.
MCFullName == [u \in User |-> ""]
MCOrderingInput == {<<>>, <<asc("status"), desc("ref")>>, <<asc("title")>>}
MCSizeInput == {0, 3}

MCBranches == Permutations(Branch)
=============================================================================
