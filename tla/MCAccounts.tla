----------------------------- MODULE MCAccounts -----------------------------
(***************************************************************************)
(* Accounts on small instances: a member and an admin who may log in to    *)
(* the Django Admin, one task.                                             *)
(***************************************************************************)
EXTENDS Accounts

MCPriorityInput == {2}
MCWatcherInput == {{}}
MCFormInput ==
    [assignee : Assignee, opened_by : User, blocker : Blocker, priority : {2}]
=============================================================================
