------------------------------ MODULE Accounts ------------------------------
(***************************************************************************)
(* Deactivation and deletion of users in the Django Admin (accounts/       *)
(* admin.py, accounts/validators.py) next to the task service              *)
(* (TaskRequests).  The form's clean() looks for active tasks of the user; *)
(* the account is saved afterwards, in the same transaction, which locks   *)
(* none of them.  Nothing in the task service asks whether an assignee is  *)
(* active; that he exists is what the foreign keys say.                    *)
(***************************************************************************)
EXTENDS TaskRequests

VARIABLES
    exists,   \* the users with a row
    active,   \* active[u]: User.is_active, FALSE without a row
    form,     \* the users whose deactivation has passed clean() and is not saved
    seen,     \* auxiliary: seen[u][t], the length of t's history when clean()
              \* last let u go
    gone      \* auxiliary: the users who have ever been deleted

accountVars == <<exists, active, form, seen, gone>>
allVars == <<vars, accountVars>>

\* The foreign keys of a task and of its watchers.
References(t, users) ==
    /\ db[t] # NoRow => {db[t].assignee, db[t].opened_by} \ {None} \subseteq users
    /\ watchers[t] \subseteq users

AccTypeOK ==
    /\ TypeOK
    /\ \A t \in Task : References(t, exists)
    /\ active \in [User -> BOOLEAN]
    /\ \A u \in User : active[u] => u \in exists
    /\ form \subseteq User
    /\ seen \in [User -> [Task -> 0 .. MaxSaves]]
    /\ User \ exists \subseteq gone /\ gone \subseteq User

AccInit ==
    /\ Init
    /\ exists = User
    /\ active = [u \in User |-> TRUE]
    /\ form = {}
    /\ seen = [u \in User |-> [t \in Task |-> 0]]
    /\ gone = {}

-----------------------------------------------------------------------------
Holds(u, t, statuses) ==
    /\ db[t] # NoRow
    /\ db[t].assignee = u
    /\ db[t].status \in statuses

\* A way to get the next definition wrong: a waiting task is not looked for.
assert_can_deactivate_but_waiting(u) ==
    \A t \in Task : ~ Holds(u, t, ACTIVE_STATUSES \ {"waiting"})

assert_can_deactivate(u) == \A t \in Task : ~ Holds(u, t, ACTIVE_STATUSES)

\* UserChangeFormWithGuard.clean, of a form that unticks is_active.
clean(u) ==
    /\ \E admin \in Staff : active[admin]
    /\ active[u]
    /\ u \notin form
    /\ assert_can_deactivate(u)
    /\ form' = form \cup {u}
    /\ seen' = [seen EXCEPT ![u] = [t \in Task |-> Len(history[t])]]
    /\ UNCHANGED <<vars, exists, active, gone>>

\* A user who was deleted meanwhile is inserted again.
save_user(u) ==
    /\ u \in form
    /\ form' = form \ {u}
    /\ exists' = exists \cup {u}
    /\ active' = [active EXCEPT ![u] = FALSE]
    /\ UNCHANGED <<vars, seen, gone>>

\* The form is saved with is_active ticked: clean() lets it pass.
reactivate(u) ==
    /\ \E admin \in Staff : active[admin]
    /\ u \in exists
    /\ ~ active[u]
    /\ active' = [active EXCEPT ![u] = TRUE]
    /\ UNCHANGED <<vars, exists, form, seen, gone>>

Opened(u) == {t \in Task : db[t] # NoRow /\ db[t].opened_by = u}

\* The history table's history_user is SET_NULL.
unsigned(rows, u) ==
    [i \in 1 .. Len(rows) |->
        IF rows[i].by = u THEN [rows[i] EXCEPT !.by = None] ELSE rows[i]]

deleted(u) ==
    /\ exists' = exists \ {u}
    /\ gone' = gone \cup {u}
    /\ active' = [active EXCEPT ![u] = FALSE]
    /\ watchers' = [t \in Task |-> watchers[t] \ {u}]
    /\ history' = [t \in Task |-> unsigned(history[t], u)]
    /\ UNCHANGED <<req, form, seen>>

\* A way to get the next definition wrong: on_delete=CASCADE.
delete_user_and_tasks(u) ==
    /\ \E admin \in Staff : active[admin]
    /\ u \in exists
    /\ Opened(u) = {}
    /\ db' = [t \in Task |-> IF db[t] # NoRow /\ db[t].assignee = u THEN NoRow
                             ELSE db[t]]
    /\ deleted(u)

(* PROTECT of whoever opened a task, SET_NULL of its assignee: an UPDATE   *)
(* behind the back of Task.save(), so without a history row.  The history  *)
(* goes on naming him as assignee; as the author of a change he is erased. *)
delete_user(u) ==
    /\ \E admin \in Staff : active[admin]
    /\ u \in exists
    /\ Opened(u) = {}
    /\ db' = [t \in Task |-> IF db[t] # NoRow /\ db[t].assignee = u
                             THEN [db[t] EXCEPT !.assignee = None] ELSE db[t]]
    /\ deleted(u)

\* A session of an inactive user authenticates nobody; a request that is
\* under way goes on.  A write that names a user who is gone, as assignee,
\* opener, watcher or author of the history row, violates a foreign key.
Requests ==
    /\ \E w \in Worker :
        \/ \E u \in User, t \in Task :
               /\ active[u]
               /\ \/ load(w, u, t) \/ create_task(w, u, t)
                  \/ admin_add(w, u, t) \/ admin_revert(w, u, t)
        \/ \E new \in Status, blocker \in Blocker :
               change_status(w, new, blocker)
        \/ \E a \in Assignee : assign_task(w, a)
        \/ update_task_fields(w)
        \/ admin_change(w)
        \/ admin_delete(w)
        \/ drop_request(w)
    /\ UNCHANGED accountVars
    /\ \A t \in Task :
           /\ References(t, exists)'
           /\ history'[t] # history[t] => history'[t][Len(history'[t])].by \in exists

AccNext ==
    \/ Requests
    \/ \E u \in User : clean(u) \/ save_user(u) \/ reactivate(u) \/ delete_user(u)

AccSpec == AccInit /\ [][AccNext]_allVars

-----------------------------------------------------------------------------
Orphan(t, u) == ~ active[u] /\ Holds(u, t, ACTIVE_STATUSES)

(* An active task of an inactive user was written after the guard looked   *)
(* at it: by a request between clean() and the save of the account, or     *)
(* later, when an inactive user is assigned or his closed task reopened.   *)
(* Deactivation itself orphans nothing (validators.py 9-23, admin.py       *)
(* 13-18).                                                                 *)
OrphansMadeLater ==
    \A t \in Task : \A u \in User :
        Orphan(t, u) => Len(history[t]) > seen[u][t]

(* With one worker the newest history row of a task is the task, but for   *)
(* an assignee who was deleted while it was his: nobody can see when or    *)
(* why the task lost him, and no stale instance brings him back            *)
(* (tasks/models.py 45-51, 66).                                            *)
OnlyUserDeletionIsUnlogged ==
    \A t \in Task : history[t] # <<>> =>
        LET last == history[t][Len(history[t])]
        IN  IF last.type = "-" THEN db[t] = NoRow
            ELSE \/ db[t] = last.row
                 \/ /\ db[t] = [last.row EXCEPT !.assignee = None]
                    /\ last.row.assignee \in gone

(* "User deactivation: blocked while the user holds active tasks, rather   *)
(* than silently orphaning them" (README.md 89-90).                        *)
NoOrphans == \A t \in Task : \A u \in User : ~ Orphan(t, u)
=============================================================================
