------------------------------ MODULE MCTaskRefs ------------------------------
(***************************************************************************)
(* TaskRefs on a small instance: two workers and two numbers.              *)
(***************************************************************************)
EXTENDS TaskRefs, TLC

MCProcesses == Permutations(Process)
=============================================================================
