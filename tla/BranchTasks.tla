----------------------------- MODULE BranchTasks -----------------------------
(***************************************************************************)
(* The application: the task service (TaskRequests) and the notifications  *)
(* its transactions create (Notifications), with the daily alert job.      *)
(* Each action of a request is one of TaskRequests together with the       *)
(* triggers its handler pulls before it commits.  The job works through    *)
(* what its queries returned, one transaction for each notice.             *)
(***************************************************************************)
EXTENDS TaskRequests, Notifications

CONSTANTS
    AlertInput,   \* bound: the alerts for which the job finds tasks
    AdminKind     \* bound: the kinds of notices edited in the Admin

ASSUME KindBounds == AlertInput \subseteq AlertKind /\ AdminKind \subseteq Kind

VARIABLE queue        \* the notices the run of the job has yet to create

appVars == <<db, watchers, history, req, notice, queue>>

AppInit == Init /\ NoticeInit /\ queue = {}

-----------------------------------------------------------------------------
Load(w, u, t) == load(w, u, t) /\ UNCHANGED notice

\* `if assignee: notify_assigned`, then `if priority == URGENT: notify_urgent`.
Create(w, u, t) ==
    /\ create_task(w, u, t)
    /\ LET told == notify_assigned(notice, t, db'[t].assignee, u)
       IN  notice' = IF db'[t].priority = 4
                     THEN notify_urgent(told, t, db'[t].assignee, u)
                     ELSE told

\* A way to get the next definition wrong: nobody tells the watchers.
ChangeStatusSilently(w, new, blocker) ==
    change_status(w, new, blocker) /\ UNCHANGED notice

\* The watchers are read from the database, not from the instance.
ChangeStatus(w, new, blocker) ==
    /\ change_status(w, new, blocker)
    /\ notice' = notify_watchers_status_changed(
                     notice, req[w].task, watchers[req[w].task], req[w].user)

\* Two ways to get the next definition wrong: the new owner is not told, and
\* the alerts of the old one stay.
AssignUntold(w, a) ==
    /\ assign_task(w, a)
    /\ notice' = prune_stale_alerts(notice, req[w].task, req[w].inst.assignee)

AssignUnpruned(w, a) ==
    /\ assign_task(w, a)
    /\ notice' = notify_reassigned(notice, req[w].task, a, req[w].user)

\* The previous assignee is that of the instance, as it was loaded.
Assign(w, a) ==
    /\ assign_task(w, a)
    /\ LET t == req[w].task
           pruned == prune_stale_alerts(notice, t, req[w].inst.assignee)
       IN  notice' = notify_reassigned(pruned, t, a, req[w].user)

Update(w) == update_task_fields(w) /\ UNCHANGED notice

\* The Admin saves models, not services: it pulls no trigger.
AdminAdd(w, u, t) == admin_add(w, u, t) /\ UNCHANGED notice
AdminChange(w) == admin_change(w) /\ UNCHANGED notice
AdminRevert(w, u, t) == admin_revert(w, u, t) /\ UNCHANGED notice
AdminDelete(w) == admin_delete(w) /\ notice' = cascade(notice, req[w].task)

Drop(w) == drop_request(w) /\ UNCHANGED notice

\* Of the requests about a task, none looks at the job.
Serve(w) ==
    /\ \/ \E u \in User, t \in Task :
              \/ Load(w, u, t) \/ Create(w, u, t)
              \/ AdminAdd(w, u, t) \/ AdminRevert(w, u, t)
       \/ \E new \in Status, blocker \in Blocker :
              ChangeStatus(w, new, blocker)
       \/ \E a \in Assignee : Assign(w, a)
       \/ Update(w)
       \/ AdminChange(w)
       \/ AdminDelete(w)
       \/ Drop(w)
    /\ UNCHANGED queue

\* The bell of any user; it involves no task.
Bell(u) ==
    /\ mark_read(u) \/ mark_all_read(u)
    /\ UNCHANGED <<vars, queue>>

\* Notices in the Admin; the foreign key asks for the task.
AdminNotice(u) ==
    LET edited == {k \in Key : k[3] \in AdminKind}
    IN  /\ u \in Staff
        /\ \/ \E gone \in SUBSET edited : delete_notices(gone)
           \/ \E old, new \in edited, state \in {"unread", "read"} :
                  db[new[1]] # NoRow /\ save_notice(old, new, state)
        /\ UNCHANGED <<vars, queue>>

-----------------------------------------------------------------------------
Active(t) == db[t] # NoRow /\ db[t].status \in ACTIVE_STATUSES

(* The daily job.  One of its two queries returns some of the open tasks,  *)
(* as due dates are free here: AlertJob has the calendar.  One run at a    *)
(* time: Transactions has two that overlap.                                *)
SelectAlerts ==
    /\ queue = {}
    /\ \E kind \in AlertInput, tasks \in SUBSET {t \in Task : Active(t)} :
           queue' = alert_notices(kind, tasks, [t \in tasks |-> db[t].assignee])
    /\ UNCHANGED <<vars, notice>>

\* notify() for the next of them, whatever has become of the task since.
NotifyNext ==
    \E k \in queue :
        /\ db[k[1]] # NoRow
        /\ notice' = notify(notice, k[1], {k[2]}, k[3])
        /\ queue' = queue \ {k}
        /\ UNCHANGED vars

\* A task that is gone, or a kill, ends the run and nobody else is told.
AbandonRun ==
    /\ queue # {}
    /\ queue' = {}
    /\ UNCHANGED <<vars, notice>>

RunTaskAlerts == SelectAlerts \/ NotifyNext \/ AbandonRun

AppNext ==
    \/ \E w \in Worker : Serve(w)
    \/ \E u \in User : Bell(u) \/ AdminNotice(u)
    \/ RunTaskAlerts

AppSpec == AppInit /\ [][AppNext]_appVars

-----------------------------------------------------------------------------
AppTypeOK == TypeOK /\ NoticeTypeOK /\ queue \subseteq Key

(* The assignee of a task has been told about it, or has himself saved it  *)
(* while it was his, as whoever takes a task does: even when a stale write *)
(* brings a former assignee back, he knows from before (services.py        *)
(* 102-105, 119-120).  The services only: the Admin tells nobody.          *)
AssigneeTold ==
    \A t \in Task : \A u \in User :
        (db[t] # NoRow /\ db[t].assignee = u)
            => \/ Has(t, u, "assigned") \/ Has(t, u, "reassigned")
               \/ \E i \in 1 .. Len(history[t]) :
                      history[t][i].by = u /\ history[t][i].row.assignee = u

(* The request of w assigns task t in this step, and u is the assignee it  *)
(* replaces, or believed to replace when it loaded the task.               *)
Replaces(w, t, u) ==
    /\ Loaded(w) /\ req'[w] # req[w]
    /\ req[w].task = t /\ req[w].inst.assignee = u
    /\ can_reassign(req[w].user)
    /\ Saved(t) /\ NextBy(t) = req[w].user
    /\ db'[t] = [db[t] EXCEPT !.assignee = db'[t].assignee]

(* A notice disappears only with its task, or as an unread alert of the    *)
(* assignee whom the writer of that very step replaced, or believed to     *)
(* replace (notifications/services.py 100-113): nothing read is ever       *)
(* hidden, no other kind is ever withdrawn, and nobody else's.  Of the     *)
(* services, the bell and the job; the Admin deletes what it likes.        *)
NoticesWithdrawnOnlyByReassignment ==
    [][\A k \in Key : (notice[k] # "none" /\ notice'[k] = "none")
           => \/ db'[k[1]] = NoRow
              \/ /\ k[3] \in AlertKind
                 /\ notice[k] = "unread"
                 /\ \E w \in Worker : Replaces(w, k[1], k[2])]_appVars

\* The task goes back to a version, which tells nobody.
Reverted(t) == \E w \in Worker, u \in User : admin_revert(w, u, t)

(* After every change of status but a revert in the Admin, each watcher    *)
(* but its author has a notice of it, or kept an earlier one               *)
(* (notifications/services.py 90-97).                                      *)
WatchersTold ==
    [][\A t \in Task : (StatusMoves(t) /\ ~ Reverted(t))
           => \A u \in watchers'[t] \ {NextBy(t)} :
                  notice'[<<t, u, "status_changed">>] # "none"]_appVars

\* An unread due_soon alert of somebody who is not the assignee.
Misplaced(t, u) ==
    /\ notice[<<t, u, "due_soon">>] = "unread"
    /\ db[t] # NoRow => db[t].assignee # u

\* The job has just told u, who was the assignee when it asked.
ToldLate(t, u) == <<t, u, "due_soon">> \in queue \ queue'

(* Reassignment takes the pending alerts of the previous assignee away: a  *)
(* write from an instance that is up to date never leaves one with anybody *)
(* but the assignee (notifications/services.py 100-105).  Two others do: a *)
(* write from a stale instance, which prunes the alerts of the wrong       *)
(* person or changes the assignee unseen, and the daily job, which tells   *)
(* whoever was the assignee when its query ran.  The Admin is left out.    *)
AlertsMoveWithTheTask ==
    [][(\A w \in Worker : req'[w] # req[w] => Fresh(w))
           => \A t \in Task : \A u \in User :
                  Misplaced(t, u)' => Misplaced(t, u) \/ ToldLate(t, u)]_appVars
=============================================================================
