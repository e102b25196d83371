----------------------------- MODULE MCBranchTasks -----------------------------
(***************************************************************************)
(* BranchTasks on small instances: one task, and one or two workers, which *)
(* are interchangeable.                                                    *)
(***************************************************************************)
EXTENDS BranchTasks, TLC

CONSTANTS m1, a1

\* The Admin overrides every column that its form has.
MCFormInput ==
    {[assignee |-> None, opened_by |-> m1, blocker |-> "text", priority |-> 3]}

MCWorkers == Permutations(Worker)
=============================================================================
