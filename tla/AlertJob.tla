------------------------------- MODULE AlertJob -------------------------------
(***************************************************************************)
(* The daily alert job (tasks/management/commands/run_task_alerts.py) over *)
(* the days, step by step, while users keep working.  Each of its two      *)
(* halves takes its tasks from one query and then notifies from that       *)
(* snapshot, each notice in a transaction of its own; nothing catches an   *)
(* error, so the first one ends the run.                                   *)
(*                                                                         *)
(* A user's request is one step here (TaskRequests has its interleavings)  *)
(* and changes what the job's queries read: whether the task is active,    *)
(* its assignee and its due date.                                          *)
(***************************************************************************)
EXTENDS Notifications, FiniteSets

CONSTANTS
    NoTask,       \* a key not yet used
    Deleted,      \* the key of a deleted task, which is not used again
    DueInput,     \* due dates that users set
    LastDay,      \* bound: this and all later days
    MaxKills      \* bound: runs that die without a reason in the data

ASSUME Calendar ==
    /\ LastDay \in Nat
    /\ DueInput \subseteq (0 .. LastDay) \cup {None}
    /\ MaxKills \in Nat

VARIABLES
    today,     \* timezone.localdate()
    task,      \* task[t]: NoTask, Deleted or what the queries read of the row
    phase,     \* "off", or the half the job is in
    queue,     \* the pairs <<task, user>> that half has yet to notify
    current,   \* the task with recipients told and others not yet, or None
    kills,
    \* Auxiliary variables: the tasks changed since the present run began,
    \* those that a complete run of today has dealt with and nobody changed
    \* since, and, for a withdrawn due_soon alert, who the task went to.
    touched, settled, heir

jobVars == <<phase, queue, current, kills>>
vars == <<today, task, notice, jobVars, touched, settled, heir>>

Queried == [active : BOOLEAN, assignee : Assignee, due_date : DueInput]

TypeOK ==
    /\ NoticeTypeOK
    /\ today \in 0 .. LastDay
    /\ task \in [Task -> Queried \cup {NoTask, Deleted}]
    /\ phase \in {"off", "due_soon", "overdue"}
    /\ queue \subseteq Task \X User
    /\ phase = "off" => queue = {}
    /\ current \in Task \cup {None}
    /\ kills \in 0 .. MaxKills
    /\ touched \subseteq Task /\ settled \subseteq Task
    /\ heir \in [Task -> Assignee]

Init ==
    /\ NoticeInit
    /\ today = 0
    /\ task = [t \in Task |-> NoTask]
    /\ phase = "off"
    /\ queue = {}
    /\ current = None
    /\ kills = 0
    /\ touched = {}
    /\ settled = {}
    /\ heir = [t \in Task |-> None]

-----------------------------------------------------------------------------
(* The queries.                                                            *)
Exists(t) == task[t] \notin {NoTask, Deleted}
Active(t) == Exists(t) /\ task[t].active

tasks_due_soon == {t \in Task : Active(t) /\ task[t].due_date = today + 2}

tasks_overdue ==
    {t \in Task : /\ Active(t)
                  /\ task[t].due_date # None
                  /\ task[t].due_date < today}

\* The loop bodies: the assignee of a task due soon, the recipients of one
\* past due.
due_soon_recipients(t) == {task[t].assignee} \ {None}
overdue_recipients(t) ==
    ({task[t].assignee} \ {None}) \cup {u \in User : is_manager(u)}

-----------------------------------------------------------------------------
(* The job.                                                                *)
start ==
    /\ phase = "off"
    /\ phase' = "due_soon"
    /\ queue' = UNION {{t} \X due_soon_recipients(t) : t \in tasks_due_soon}
    /\ UNCHANGED <<today, task, notice, current, kills, touched, settled, heir>>

\* The second query, and the list of managers, wait for the first half.
start_overdue ==
    /\ phase = "due_soon"
    /\ queue = {}
    /\ phase' = "overdue"
    /\ queue' = UNION {{t} \X overdue_recipients(t) : t \in tasks_overdue}
    /\ UNCHANGED <<today, task, notice, current, kills, touched, settled, heir>>

\* All recipients of a task come before the next task.
Turn(q) == q \in queue /\ current \in {None, q[1]}

\* A way to get the next definition wrong: a run that ends leaves its rest.
off_with_queue ==
    /\ phase' = "off"
    /\ current' = None
    /\ touched' = {}
    /\ UNCHANGED queue

off ==
    /\ phase' = "off"
    /\ queue' = {}
    /\ current' = None
    /\ touched' = {}

notify_next ==
    \E q \in queue :
        /\ Turn(q)
        /\ Exists(q[1])
        /\ notice' = notify(notice, q[1], {q[2]}, phase)
        /\ queue' = queue \ {q}
        /\ current' = IF \E r \in queue' : r[1] = q[1] THEN q[1] ELSE None
        /\ UNCHANGED <<today, task, phase, kills, touched, settled, heir>>

\* Two ways to get the next definition wrong: the run tries the same notice
\* for ever, and the error is swallowed so that the run passes for complete.
fail_waits ==
    /\ \E q \in queue : Turn(q) /\ ~ Exists(q[1])
    /\ UNCHANGED vars

fail_quietly ==
    /\ \E q \in queue : Turn(q) /\ ~ Exists(q[1])
    /\ off
    /\ settled' = Task \ touched
    /\ UNCHANGED <<today, task, notice, kills, heir>>

\* The INSERT of a notice for a task that is gone violates the foreign key.
fail ==
    /\ \E q \in queue : Turn(q) /\ ~ Exists(q[1])
    /\ off
    /\ UNCHANGED <<today, task, notice, kills, settled, heir>>

kill ==
    /\ phase # "off"
    /\ kills < MaxKills
    /\ kills' = kills + 1
    /\ off
    /\ UNCHANGED <<today, task, notice, settled, heir>>

finish ==
    /\ phase = "overdue"
    /\ queue = {}
    /\ off
    /\ settled' = Task \ touched
    /\ UNCHANGED <<today, task, notice, kills, heir>>

-----------------------------------------------------------------------------
(* The users, and the night.                                               *)
Touch(t) ==
    /\ touched' = IF phase = "off" THEN {} ELSE touched \cup {t}
    /\ settled' = settled \ {t}

create_task(t) ==
    /\ task[t] = NoTask
    /\ \E a \in Assignee, d \in DueInput :
           task' = [task EXCEPT ![t] =
                       [active |-> TRUE, assignee |-> a, due_date |-> d]]
    /\ Touch(t)
    /\ UNCHANGED <<today, notice, jobVars, heir>>

\* Only whether the task is active changes for the job.
change_status(t) ==
    /\ Exists(t)
    /\ task' = [task EXCEPT ![t].active = ~ @]
    /\ Touch(t)
    /\ UNCHANGED <<today, notice, jobVars, heir>>

assign_task(t, a) ==
    /\ Exists(t)
    /\ LET old == task[t].assignee
       IN  /\ task' = [task EXCEPT ![t].assignee = a]
           /\ notice' = prune_stale_alerts(notice, t, old)
           /\ heir' = [heir EXCEPT ![t] =
                          IF /\ a # old /\ old # None
                             /\ notice[<<t, old, "due_soon">>] = "unread"
                          THEN a ELSE None]
    /\ Touch(t)
    /\ UNCHANGED <<today, jobVars>>

set_due_date(t) ==
    /\ Exists(t)
    /\ \E d \in DueInput \ {task[t].due_date} :
           task' = [task EXCEPT ![t].due_date = d]
    /\ heir' = [heir EXCEPT ![t] = None]
    /\ Touch(t)
    /\ UNCHANGED <<today, notice, jobVars>>

admin_delete(t) ==
    /\ Exists(t)
    /\ task' = [task EXCEPT ![t] = Deleted]
    /\ notice' = cascade(notice, t)
    /\ heir' = [heir EXCEPT ![t] = None]
    /\ Touch(t)
    /\ UNCHANGED <<today, jobVars>>

bell(u) ==
    /\ mark_read(u)
    /\ UNCHANGED <<today, task, jobVars, touched, settled, heir>>

\* The job takes seconds; cron may have missed a day.
midnight ==
    /\ phase = "off"
    /\ today < LastDay
    /\ today' = today + 1
    /\ settled' = {}
    /\ UNCHANGED <<task, notice, jobVars, touched, heir>>

Job == start \/ start_overdue \/ notify_next \/ fail \/ kill \/ finish

Users ==
    \/ \E t \in Task :
           \/ create_task(t)
           \/ change_status(t)
           \/ set_due_date(t)
           \/ admin_delete(t)
           \/ \E a \in Assignee : assign_task(t, a)
    \/ \E u \in User : bell(u)

Next == Job \/ Users \/ midnight

Spec == Init /\ [][Next]_vars

(* Cron starts the job again and again, and a run that has work to do does *)
(* it.  Nothing is assumed of the users, and the night falls.              *)
Fairness ==
    /\ WF_vars(start)
    /\ WF_vars(start_overdue)
    /\ WF_vars(notify_next)
    /\ WF_vars(fail)
    /\ WF_vars(finish)
    /\ WF_vars(midnight)

FairSpec == Spec /\ Fairness

-----------------------------------------------------------------------------
ConcernedBy(t, u) == u = task[t].assignee \/ is_manager(u)
DaysLeft(t, days) == task[t].due_date # None /\ task[t].due_date = today + days
Late(t) == Active(t) /\ \E d \in 1 .. LastDay : DaysLeft(t, -d)

(* When a run has completed, every task nobody has changed since it began  *)
(* has all the alerts of the day: nothing falls between the two queries or *)
(* out of the snapshots (run_task_alerts.py 38-67).                        *)
RunComplete ==
    \A t \in settled : \A u \in User :
        /\ (Active(t) /\ DaysLeft(t, 2) /\ u = task[t].assignee)
               => Has(t, u, "due_soon")
        /\ (Late(t) /\ ConcernedBy(t, u)) => Has(t, u, "overdue")

(* "Running this command twice in the same day is a no-op the second time" *)
(* (run_task_alerts.py 13-14), even after users have read their alerts,    *)
(* for every task that did not change in between.                          *)
SecondRunIsNoop ==
    [][Job => \A k \in Key : k[1] \in settled => notice'[k] = notice[k]]_vars

(* Whoever should hear that a task is overdue eventually does, or the      *)
(* reason goes away: runs that fail or are killed are made up for by later *)
(* ones.  What ends the failures here is that Task and MaxKills are finite *)
(* and no key is used twice.                                               *)
OverdueReachesEveryone ==
    \A t \in Task : \A u \in User :
        (Late(t) /\ ConcernedBy(t, u))
            ~> (Has(t, u, "overdue") \/ ~ Late(t) \/ ~ ConcernedBy(t, u))

(* "so the new owner gets their own" (notifications/services.py 103): once *)
(* the due_soon alert of the old owner is withdrawn, the new one gets a    *)
(* due_soon alert, unless the task moves on before that.                   *)
NewOwnerGetsTheirOwn ==
    \A t \in Task : \A u \in User :
        heir[t] = u ~> \/ Has(t, u, "due_soon")
                       \/ heir[t] # u
                       \/ ~ Active(t)
=============================================================================
