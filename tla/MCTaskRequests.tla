--------------------------- MODULE MCTaskRequests ---------------------------
(***************************************************************************)
(* TaskRequests on small instances: a member, a manager and an admin, one  *)
(* or two workers, one task.  The users of a role are interchangeable, and *)
(* one of each shows every difference a permission makes; the cfg files    *)
(* say which of them may log in to the Django Admin.                       *)
(***************************************************************************)
EXTENDS TaskRequests

\* A valid priority and one that only the unvalidated HTML control lets in.
MCPriorityInput == {2, 9}
\* Watchers only receive notices (module BranchTasks); none are needed here.
MCWatcherInput == {{}}
=============================================================================
