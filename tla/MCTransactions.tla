---------------------------- MODULE MCTransactions ----------------------------
(***************************************************************************)
(* Transactions on a small instance: two users and three processes, each   *)
(* of which serves any request or runs the job, once.                      *)
(***************************************************************************)
EXTENDS Transactions, TLC

\* The first user hands the task to the second.
MCAssignInput == {<<1, 2>>}
\* Every list of watchers but the empty one.
MCWatcherInput == {{1}, {2}, {1, 2}}

MCProcesses == Permutations(Process)
=============================================================================
