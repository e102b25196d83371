----------------------------- MODULE TaskPolicy -----------------------------
(***************************************************************************)
(* Constant-level part of the task tracker: who may do what               *)
(* (accounts/permissions.py), the transition table and the effect of a     *)
(* status change on a task row (tasks/services.py), and the CHECK          *)
(* constraints of the task table (tasks/models.py).  Every module about    *)
(* tasks extends this one.                                                 *)
(***************************************************************************)
EXTENDS Integers

CONSTANTS
    Task,                     \* primary keys of the task table
    MEMBER, MANAGER, ADMIN,   \* the users of each role
    None                      \* the null of a nullable column

User == MEMBER \cup MANAGER \cup ADMIN

ASSUME RolesDisjoint ==
    /\ MEMBER \cap MANAGER = {}
    /\ MEMBER \cap ADMIN = {}
    /\ MANAGER \cap ADMIN = {}

ASSUME NoneIsNotAUser == None \notin User

-----------------------------------------------------------------------------
(* Task.Status, and its two halves: the open tasks the alerts, the counters *)
(* and the deactivation guard look at, and the closed ones.                 *)
Status == {"new", "in_progress", "waiting", "done", "cancelled"}
INACTIVE_STATUSES == {"done", "cancelled"}
ACTIVE_STATUSES == {"new", "in_progress", "waiting"}

\* Only whether completed_at and cancelled_at are null matters to the code.
Stamp == {"null", "set"}

\* `(blocker or "").strip()` is all that is ever asked of a blocker.
Blocker == {"blank", "text"}

Assignee == User \cup {None}

(* The columns of tasks_task that a permission, a constraint or an alert   *)
(* reads.  Title, branch, category and the like are carried along by the   *)
(* same writes and decide nothing.                                         *)
Row == [status       : Status,
        completed_at : Stamp,
        cancelled_at : Stamp,
        blocker      : Blocker,
        assignee     : Assignee,
        opened_by    : User,
        priority     : Int]

-----------------------------------------------------------------------------
TRANSITIONS ==
    [s \in Status |->
        CASE s = "new"         -> {"in_progress", "waiting", "done", "cancelled"}
          [] s = "in_progress" -> {"new", "waiting", "done", "cancelled"}
          [] s = "waiting"     -> {"in_progress", "done", "cancelled"}
          [] s = "done"        -> {"in_progress"}
          [] s = "cancelled"   -> {"in_progress"}]

REOPEN_FROM == {"done", "cancelled"}

is_manager(u) == u \in MANAGER \cup ADMIN
is_admin(u) == u \in ADMIN

can_edit_task(u, row) ==
    \/ is_manager(u)
    \/ row.opened_by = u
    \/ row.assignee = u

can_reassign(u) == is_manager(u)
can_reopen(u) == is_admin(u)
can_cancel(u) == is_manager(u)

-----------------------------------------------------------------------------
(* The role half of change_status: may `actor` move a task from one status *)
(* to another.                                                             *)
entitled(actor, old, new) ==
    /\ new \in TRANSITIONS[old]
    /\ old \in REOPEN_FROM => can_reopen(actor)
    /\ new = "cancelled" => can_cancel(actor)

\* Two ways to get the next definition wrong: the role checks forgotten, and
\* the blocker not asked for.
may_change_status_by_table_only(actor, inst, new, blocker) ==
    /\ new \in TRANSITIONS[inst.status]
    /\ new = "waiting" => blocker # "blank"

may_change_status_without_blocker(actor, inst, new, blocker) ==
    entitled(actor, inst.status, new)

(* Every check change_status makes of the instance it is given.            *)
may_change_status(actor, inst, new, blocker) ==
    /\ entitled(actor, inst.status, new)
    /\ new = "waiting" => blocker # "blank"

\* Two ways to get the next definition wrong: a stamp that stays when the
\* task is reopened, and a blocker nulled on departure from 'waiting'.
moved_keeps_stamps(inst, new, blocker) ==
    [inst EXCEPT
        !.status = new,
        !.blocker = IF new = "waiting" THEN blocker ELSE @,
        !.completed_at = IF new = "done" THEN "set" ELSE @,
        !.cancelled_at = IF new = "cancelled" THEN "set" ELSE @]

moved_nulls_blocker(inst, new, blocker) ==
    [moved_keeps_stamps(inst, new, blocker) EXCEPT
        !.blocker = IF new = "waiting" THEN blocker ELSE None]

(* The instance after change_status has assigned its fields: a stamp is    *)
(* set on entry to its status and cleared on exit from it, and the blocker *)
(* text survives the departure from 'waiting'.                             *)
moved(inst, new, blocker) ==
    [inst EXCEPT
        !.status = new,
        !.blocker = IF new = "waiting" THEN blocker ELSE @,
        !.completed_at = IF new = "done" THEN "set"
                         ELSE IF inst.status = "done" THEN "null" ELSE @,
        !.cancelled_at = IF new = "cancelled" THEN "set"
                         ELSE IF inst.status = "cancelled" THEN "null" ELSE @]

-----------------------------------------------------------------------------
(* The three CHECK constraints of the table: a write of a row that fails   *)
(* one of them raises IntegrityError and its transaction is rolled back.   *)
task_priority_between_1_4(row) == row.priority \in 1 .. 4
completed_only_when_done(row) ==
    (row.status = "done") <=> (row.completed_at = "set")
cancelled_only_when_cancelled(row) ==
    (row.status = "cancelled") <=> (row.cancelled_at = "set")

checks(row) ==
    /\ task_priority_between_1_4(row)
    /\ completed_only_when_done(row)
    /\ cancelled_only_when_cancelled(row)
=============================================================================
