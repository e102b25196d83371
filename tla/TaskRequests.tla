---------------------------- MODULE TaskRequests ----------------------------
(***************************************************************************)
(* The task service as it runs: HTTP requests served by concurrent workers *)
(* against one database (tasks/services.py, tasks/api.py, tasks/views.py,  *)
(* tasks/admin.py).                                                        *)
(*                                                                         *)
(* A request first loads the task into an instance of its own, outside any *)
(* transaction and without a lock; the service function then checks the    *)
(* instance and, in one transaction, writes it back.  Task.save() writes   *)
(* every column of the instance, assign_task only one.  In between other   *)
(* workers may commit.  A transaction is one step here: nothing it writes  *)
(* to the task depends on what it reads in the database, so its UPDATE of  *)
(* the row is all that others see of it.  Transactions takes it apart.     *)
(* Every save also appends the instance to the history table, in the same  *)
(* transaction (django-simple-history).                                    *)
(***************************************************************************)
EXTENDS TaskPolicy, Sequences

CONSTANTS
    Worker,          \* web workers, one request at a time each
    Staff,           \* users who may log in to the Django Admin
    Idle,            \* a worker between two requests
    NoRow,           \* a key without a row: not yet used, or deleted
    PriorityInput,   \* priorities that clients send
    WatcherInput,    \* lists of watchers that clients send
    FormInput,       \* bound: the Admin's form for a task, as it is sent
    MaxSaves         \* bound: history rows of a task

ASSUME StaffAreUsers == Staff \subseteq User
ASSUME Inputs ==
    /\ PriorityInput \subseteq Int
    /\ WatcherInput \subseteq SUBSET User
    /\ FormInput \subseteq [assignee : Assignee, opened_by : User,
                            blocker : Blocker, priority : Int]
ASSUME MaxSavesBounds == MaxSaves \in Nat
ASSUME NoRowIsNotARow == NoRow \notin Row

VARIABLES
    db,         \* db[t]: the row of the task, or NoRow
    watchers,   \* watchers[t]: its rows in the many-to-many table
    history,    \* history[t]: its rows in the history table, oldest first
    req         \* req[w]: what worker w holds in memory

vars == <<db, watchers, history, req>>

(* `stage` is "loaded" until the service function is called; the PATCH     *)
(* endpoint is between its two transactions in stage "assigned".           *)
Request == [stage : {"loaded", "assigned"},
            user  : User,
            task  : Task,
            inst  : Row]

ASSUME IdleIsNotARequest == Idle \notin Request

\* `by` is nullable: SET_NULL when that user is deleted.
HistoryRow == [row : Row, by : Assignee, type : {"+", "~", "-"}]

TypeOK ==
    /\ db \in [Task -> Row \cup {NoRow}]
    /\ watchers \in [Task -> SUBSET User]
    /\ history \in [Task -> Seq(HistoryRow)]
    /\ req \in [Worker -> Request \cup {Idle}]

Init ==
    /\ db = [t \in Task |-> NoRow]
    /\ watchers = [t \in Task |-> {}]
    /\ history = [t \in Task |-> <<>>]
    /\ req = [w \in Worker |-> Idle]

-----------------------------------------------------------------------------
Busy(w) == req[w] # Idle
Loaded(w) == Busy(w) /\ req[w].stage = "loaded"

\* Keys come from a sequence: that of a deleted task is never handed out again.
Unused(t) == db[t] = NoRow /\ history[t] = <<>>

Log(t, row, u, type) ==
    /\ Len(history[t]) < MaxSaves
    /\ history' = [history EXCEPT ![t] =
                      Append(@, [row |-> row, by |-> u, type |-> type])]

finish(w) == req' = [req EXCEPT ![w] = Idle]

(* Model.save() without update_fields: UPDATE the row with every column of *)
(* the instance, and INSERT it when there was no row to update.            *)
save(t, inst, u) ==
    /\ checks(inst)
    /\ db' = [db EXCEPT ![t] = inst]
    /\ Log(t, inst, u, IF db[t] = NoRow THEN "+" ELSE "~")

-----------------------------------------------------------------------------
load(w, u, t) ==
    /\ req[w] = Idle
    /\ db[t] # NoRow
    /\ req' = [req EXCEPT ![w] =
                  [stage |-> "loaded", user |-> u, task |-> t, inst |-> db[t]]]
    /\ UNCHANGED <<db, watchers, history>>

(* create_task, from POST /api/tasks or the HTML form: any user, for any   *)
(* assignee.  Task.objects.create saves twice in one transaction, the      *)
(* second time to fill in `ref`; one history row stands for both.          *)
create_task(w, u, t) ==
    /\ req[w] = Idle
    /\ Unused(t)
    /\ \E a \in Assignee, p \in PriorityInput, ws \in WatcherInput :
           /\ save(t, [status |-> "new", completed_at |-> "null",
                       cancelled_at |-> "null", blocker |-> "blank",
                       assignee |-> a, opened_by |-> u, priority |-> p], u)
           /\ watchers' = [watchers EXCEPT ![t] = ws]
    /\ UNCHANGED req

change_status(w, new, blocker) ==
    /\ Loaded(w)
    /\ may_change_status(req[w].user, req[w].inst, new, blocker)
    /\ save(req[w].task, moved(req[w].inst, new, blocker), req[w].user)
    /\ finish(w)
    /\ UNCHANGED watchers

\* Two ways to get assign_task wrong: no permission check, and an UPDATE that
\* bypasses save() and with it the history.
assign_task_unchecked(w, a) ==
    /\ Loaded(w)
    /\ LET r == req[w]
       IN  /\ db[r.task] # NoRow
           /\ db' = [db EXCEPT ![r.task].assignee = a]
           /\ Log(r.task, [r.inst EXCEPT !.assignee = a], r.user, "~")
           /\ finish(w)
    /\ UNCHANGED watchers

assign_task_by_update(w, a) ==
    /\ Loaded(w)
    /\ can_reassign(req[w].user)
    /\ db[req[w].task] # NoRow
    /\ db' = [db EXCEPT ![req[w].task].assignee = a]
    /\ finish(w)
    /\ UNCHANGED <<watchers, history>>

(* assign_task: the database gets the one column, the history table a copy *)
(* of the whole instance.  save(update_fields=...) raises DatabaseError    *)
(* when the row is gone.  The request ends here, or, when it is a PATCH    *)
(* that has other fields as well, keeps its instance for the next          *)
(* transaction.                                                            *)
assign_task(w, a) ==
    /\ Loaded(w)
    /\ LET r == req[w]
           inst == [r.inst EXCEPT !.assignee = a]
       IN  /\ can_reassign(r.user)
           /\ db[r.task] # NoRow
           /\ db' = [db EXCEPT ![r.task].assignee = a]
           /\ Log(r.task, inst, r.user, "~")
           /\ \/ finish(w)
              \/ req' = [req EXCEPT ![w].stage = "assigned", ![w].inst = inst]
    /\ UNCHANGED watchers

\* A way to get update_task_fields wrong: anybody may edit.
update_task_fields_unchecked(w) ==
    /\ Busy(w)
    /\ \E p \in PriorityInput :
           save(req[w].task, [req[w].inst EXCEPT !.priority = p], req[w].user)
    /\ UNCHANGED watchers
    /\ finish(w)

(* update_task_fields, from the PATCH endpoint and the HTML priority and   *)
(* due-date controls.  Watchers that were not sent are left alone.         *)
update_task_fields(w) ==
    /\ Busy(w)
    /\ can_edit_task(req[w].user, req[w].inst)
    /\ \E p \in PriorityInput \cup {req[w].inst.priority} :
           save(req[w].task, [req[w].inst EXCEPT !.priority = p], req[w].user)
    /\ \/ \E ws \in WatcherInput :
              watchers' = [watchers EXCEPT ![req[w].task] = ws]
       \/ UNCHANGED watchers
    /\ finish(w)

(* The Django Admin.  The form of a new task has an editable status and no *)
(* stamps; that of an existing one has every column but status and stamps. *)
filled(inst, form) ==
    [inst EXCEPT !.assignee = form.assignee, !.opened_by = form.opened_by,
                 !.blocker = form.blocker, !.priority = form.priority]

blank(status, u) ==
    [status |-> status, completed_at |-> "null", cancelled_at |-> "null",
     blocker |-> "blank", assignee |-> None, opened_by |-> u, priority |-> 2]

admin_add(w, u, t) ==
    /\ req[w] = Idle
    /\ u \in Staff
    /\ Unused(t)
    /\ \E s \in Status, form \in FormInput, ws \in WatcherInput :
           /\ save(t, filled(blank(s, u), form), u)
           /\ watchers' = [watchers EXCEPT ![t] = ws]
    /\ UNCHANGED req

admin_change(w) ==
    /\ Loaded(w)
    /\ req[w].user \in Staff
    /\ \E form \in FormInput, ws \in WatcherInput :
           /\ save(req[w].task, filled(req[w].inst, form), req[w].user)
           /\ watchers' = [watchers EXCEPT ![req[w].task] = ws]
    /\ finish(w)

admin_delete(w) ==
    /\ Loaded(w)
    /\ req[w].user \in Staff
    /\ LET t == req[w].task
       IN  /\ db' = [db EXCEPT ![t] = NoRow]
           /\ watchers' = [watchers EXCEPT ![t] = {}]
           /\ Log(t, req[w].inst, req[w].user, "-")
    /\ finish(w)

(* The history page of the Admin (SimpleHistoryAdmin): it shows a version  *)
(* of the task in the form and saves that version, with what the user has  *)
(* made of the columns in the form: status and stamps are not among them.  *)
(* The task itself is not looked at, and need not be there any more.       *)
admin_revert(w, u, t) ==
    /\ req[w] = Idle
    /\ u \in Staff
    /\ \E i \in 1 .. Len(history[t]), form \in FormInput, ws \in WatcherInput :
           /\ save(t, filled(history[t][i].row, form), u)
           /\ watchers' = [watchers EXCEPT ![t] = ws]
    /\ UNCHANGED req

(* A request that a check, a constraint or the database refuses, that only *)
(* reads, or whose worker is killed: nothing of it remains.                *)
drop_request(w) ==
    /\ Busy(w)
    /\ finish(w)
    /\ UNCHANGED <<db, watchers, history>>

Next ==
    \E w \in Worker :
        \/ \E u \in User, t \in Task :
               \/ load(w, u, t) \/ create_task(w, u, t)
               \/ admin_add(w, u, t) \/ admin_revert(w, u, t)
        \/ \E new \in Status, blocker \in Blocker :
               change_status(w, new, blocker)
        \/ \E a \in Assignee : assign_task(w, a)
        \/ update_task_fields(w)
        \/ admin_change(w)
        \/ admin_delete(w)
        \/ drop_request(w)

Spec == Init /\ [][Next]_vars

-----------------------------------------------------------------------------
(* Whatever instance a request holds, stale or not, a status change that   *)
(* passes the checks of change_status gives a row the CHECK constraints    *)
(* accept: no legal move ends in an IntegrityError (services.py 61-74      *)
(* against models.py 69-84).                                               *)
StatusSaveAccepted ==
    \A w \in Worker : \A new \in Status, blocker \in Blocker :
        (Loaded(w) /\ may_change_status(req[w].user, req[w].inst, new, blocker))
            => checks(moved(req[w].inst, new, blocker))

(* A task that waits says what it waits for (services.py 58-59, 63-64).    *)
(* Only for requests of the application itself: the Django Admin edits     *)
(* the blocker of a waiting task freely.                                   *)
WaitingHasBlocker ==
    \A t \in Task :
        (db[t] # NoRow /\ db[t].status = "waiting") => db[t].blocker = "text"

(* `a` was made assignee of t up to entry n of its history by somebody     *)
(* who may do so: whoever created the task, a manager, or the Admin.       *)
GrantedBy(t, a, n) ==
    \E j \in 1 .. n :
        /\ history[t][j].row.assignee = a
        /\ \/ j = 1
           \/ can_reassign(history[t][j].by)
           \/ history[t][j].by \in Staff

(* Nobody ever becomes the assignee of a task, according to its history,   *)
(* without such a grant, now or earlier.  A stale write by a member can    *)
(* bring a former assignee back; it cannot invent one.                     *)
AssigneeGranted ==
    \A t \in Task : \A i \in 1 .. Len(history[t]) :
        GrantedBy(t, history[t][i].row.assignee, i)

-----------------------------------------------------------------------------
(* The task as TaskLifecycle sees it.                                      *)
Facts(t) ==
    IF db[t] # NoRow
    THEN [status |-> db[t].status, assignee |-> db[t].assignee,
          opened_by |-> db[t].opened_by]
    ELSE [status |-> IF history[t] = <<>> THEN "unborn" ELSE "removed",
          assignee |-> None, opened_by |-> None]

LastBy(t) ==
    IF history[t] = <<>> THEN None ELSE history[t][Len(history[t])].by

Past(t) == {history[t][i].row.status : i \in 1 .. Len(history[t])}

Lifecycle == INSTANCE TaskLifecycle
                 WITH task <- [t \in Task |-> Facts(t)],
                      by   <- [t \in Task |-> LastBy(t)],
                      past <- [t \in Task |-> Past(t)]

LifecycleSpec == Lifecycle!Spec

(* Worker w writes from an instance that is still what the table holds.    *)
Fresh(w) == Busy(w) => req[w].inst = db[req[w].task]

(* A step of a worker whose instance is fresh is a step the lifecycle      *)
(* allows: legal, entitled, by somebody who may make it, and the return of *)
(* a deleted task only if the Admin reverts it.  Every departure from the  *)
(* lifecycle is therefore the write of a stale instance.                   *)
FreshStepsLegal ==
    [][(\A w \in Worker : req'[w] # req[w] => Fresh(w))
           => [Lifecycle!Next]_(Lifecycle!vars)]_vars

(* The newest history row of a task is its row, and that of a deleted task *)
(* is its deletion: the audit trail the API serves (api.py, detail) shows  *)
(* the state it claims to.                                                 *)
AuditCurrent ==
    \A t \in Task : history[t] # <<>> =>
        LET last == history[t][Len(history[t])]
        IN  IF db[t] = NoRow THEN last.type = "-"
            ELSE last.type # "-" /\ last.row = db[t]

-----------------------------------------------------------------------------
Saved(t) == history'[t] # history[t]
NextBy(t) == history'[t][Len(history'[t])].by
StatusMoves(t) ==
    /\ db[t] # NoRow /\ db'[t] # NoRow
    /\ db'[t].status # db[t].status

(* "reopening a closed task (done/cancelled -> in_progress) is admin-only" *)
(* (permissions.py 31), of which stale writes know nothing: any request    *)
(* that loaded the task while it was open reopens it when it saves.        *)
ReopenIsAdminOnly ==
    [][\A t \in Task : (StatusMoves(t) /\ db[t].status \in REOPEN_FROM)
           => is_admin(NextBy(t))]_vars
=============================================================================
