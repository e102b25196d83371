---------------------------- MODULE TaskLifecycle ----------------------------
(***************************************************************************)
(* What the service layer promises about one task over its whole life,     *)
(* without requests, instances or a database: it is opened 'new', its      *)
(* status moves along the transition table by someone entitled to each     *)
(* move, only managers and admins hand it to somebody else, only those who *)
(* may edit it write to it, and once deleted it does not come back.  Users *)
(* of the Django Admin (Staff) override everything but the status, and     *)
(* only they take a task, even a deleted one, back to an earlier version:  *)
(* to a status it has had, never to another.                               *)
(***************************************************************************)
EXTENDS TaskPolicy

CONSTANT Staff   \* the users who may log in to the Django Admin

VARIABLES
    task,     \* task[t]: Unborn, Removed, or the facts about the task
    by,       \* by[t]: who made the latest change to it
    past      \* past[t]: the statuses it has had

vars == <<task, by, past>>

Facts == [status : Status, assignee : Assignee, opened_by : User]

\* A key that has not been used yet, and the key of a deleted task.
Unborn  == [status |-> "unborn", assignee |-> None, opened_by |-> None]
Removed == [status |-> "removed", assignee |-> None, opened_by |-> None]

Exists(t) == task[t].status \in Status

Init ==
    /\ task = [t \in Task |-> Unborn]
    /\ by = [t \in Task |-> None]
    /\ past = [t \in Task |-> {}]

Set(t, u, facts) ==
    /\ task' = [task EXCEPT ![t] = facts]
    /\ by' = [by EXCEPT ![t] = u]
    /\ past' = [past EXCEPT ![t] = @ \cup ({facts.status} \cap Status)]

Open(t, u) ==
    /\ task[t] = Unborn
    /\ \E a \in Assignee :
           Set(t, u, [status |-> "new", assignee |-> a, opened_by |-> u])

Move(t, u) ==
    /\ Exists(t)
    /\ \E s \in Status :
           /\ entitled(u, task[t].status, s)
           /\ Set(t, u, [task[t] EXCEPT !.status = s])

HandOver(t, u) ==
    /\ Exists(t)
    /\ can_reassign(u)
    /\ \E a \in Assignee : Set(t, u, [task[t] EXCEPT !.assignee = a])

Edit(t, u) ==
    /\ Exists(t)
    /\ can_edit_task(u, task[t])
    /\ Set(t, u, task[t])

\* An addition in the Admin chooses the status too, though it cannot set the
\* stamp a closed one needs.
AdminOpen(t, u) ==
    /\ u \in Staff
    /\ task[t] = Unborn
    /\ \E f \in Facts : f.status \in ACTIVE_STATUSES /\ Set(t, u, f)

AdminEdit(t, u) ==
    /\ u \in Staff
    /\ Exists(t)
    /\ \E a \in Assignee, o \in User :
           Set(t, u, [status |-> task[t].status, assignee |-> a, opened_by |-> o])

AdminRemove(t, u) ==
    /\ u \in Staff
    /\ Exists(t)
    /\ Set(t, u, Removed)

\* The task may be a deleted one.
AdminRevert(t, u) ==
    /\ u \in Staff
    /\ \E s \in past[t], a \in Assignee, o \in User :
           Set(t, u, [status |-> s, assignee |-> a, opened_by |-> o])

Next ==
    \E t \in Task, u \in User :
        \/ Open(t, u)
        \/ Move(t, u)
        \/ HandOver(t, u)
        \/ Edit(t, u)
        \/ AdminOpen(t, u)
        \/ AdminEdit(t, u)
        \/ AdminRemove(t, u)
        \/ AdminRevert(t, u)

Spec == Init /\ [][Next]_vars
=============================================================================
