------------------------------ MODULE Dashboard ------------------------------
(***************************************************************************)
(* What is read from the task table: the lists, the alert job's queries,   *)
(* the dashboard and the KPIs (tasks/selectors.py).  "Open", "overdue" and *)
(* "closed" are computed anew in every query, never stored; the properties *)
(* say that all the queries agree, whatever the table and the day.         *)
(*                                                                         *)
(* SQL's null compares as neither true nor false, so a filter drops it.    *)
(***************************************************************************)
EXTENDS TaskPolicy, FiniteSetsExt

CONSTANTS
    NoRow,
    Branch,          \* names of branches, which are unique
    full_name,       \* full_name[u], which need not be
    DueInput, PriorityInput,
    LastDay,         \* bound: the last day
    DaysPerMonth, KpiDays, KpiMonths

ASSUME Bounds ==
    /\ LastDay \in Nat /\ KpiDays \in Nat /\ KpiMonths \in Nat
    /\ DaysPerMonth \in Nat \ {0}
    /\ DueInput \subseteq Int \cup {None} /\ PriorityInput \subseteq 1 .. 4

ASSUME NullIsNoNumber == None \notin Int
ASSUME NullIsNoBranch == None \notin Branch
ASSUME TablesAreFinite == IsFiniteSet(Task) /\ IsFiniteSet(User)

VARIABLES
    today,    \* timezone.localdate()
    table     \* table[t]: the columns of the row the queries read, or NoRow

vars == <<today, table>>

TaskRow == [status : Status, priority : 1 .. 4, assignee : Assignee,
            branch : Branch, due_date : DueInput,
            created_at : 0 .. LastDay, completed_at : (0 .. LastDay) \cup {None}]

ASSUME NoRowIsNotARow == NoRow \notin TaskRow

\* No stamp is of the future, and the constraint completed_only_when_done holds.
\* A task may be done before it was created: see admin_revert.
TypeOK ==
    /\ today \in 0 .. LastDay
    /\ table \in [Task -> TaskRow \cup {NoRow}]
    /\ \A t \in Task : table[t] # NoRow =>
           /\ table[t].created_at <= today
           /\ table[t].completed_at \in
                  IF table[t].status = "done" THEN 0 .. today ELSE {None}

Init == today = 0 /\ table = [t \in Task |-> NoRow]

-----------------------------------------------------------------------------
(* The queries.  Each returns a set of tasks, a number, or a set of rows.  *)
All == {t \in Task : table[t] # NoRow}
Inactive(t) == table[t].status \in INACTIVE_STATUSES
DueBefore(t, day) == table[t].due_date # None /\ table[t].due_date < day
CountBy(S, P(_)) == Cardinality({t \in S : P(t)})

annotate_overdue == {t \in All : DueBefore(t, today) /\ ~ Inactive(t)}

(* One parameter of the list after another; one that was not sent is {},   *)
(* None or FALSE.  The table has no column for category, opened_by and q.  *)
filter_tasks(q) ==
    {t \in All :
        /\ q.branch # None => table[t].branch = q.branch
        /\ q.status # {} => table[t].status \in q.status
        /\ q.assignee # None => table[t].assignee = q.assignee
        /\ q.priority_min # None => table[t].priority >= q.priority_min
        /\ q.overdue => DueBefore(t, today) /\ ~ Inactive(t)
        /\ q.due_before # None => DueBefore(t, q.due_before)
        /\ q.due_after # None => /\ table[t].due_date # None
                                 /\ table[t].due_date > q.due_after}

\* The query string of a request; ?overdue counts when it is "1".
NoParams == [branch |-> None, status |-> {}, assignee |-> None,
             priority_min |-> None, overdue |-> "",
             due_before |-> None, due_after |-> None]

apply_query_params(q) == filter_tasks([q EXCEPT !.overdue = (@ = "1")])

\* The page "My tasks", which narrows its list before the parameters do.
my_tasks(u, q) ==
    {t \in apply_query_params(q) :
        table[t].assignee = u /\ table[t].status \in ACTIVE_STATUSES}

\* A way to get the next definition wrong: due today counts as past due.
tasks_overdue_inclusive == {t \in All : DueBefore(t, today + 1) /\ ~ Inactive(t)}

tasks_overdue == {t \in All : DueBefore(t, today) /\ ~ Inactive(t)}

\* Two ways to get the next definition wrong: only 'done' closes a task, and
\* everything that is not open is closed.
counters_done_only ==
    [open    |-> CountBy(All, LAMBDA t : table[t].status # "done"),
     closed  |-> CountBy(All, LAMBDA t : table[t].status = "done"),
     overdue |-> CountBy(All, LAMBDA t : ~ Inactive(t) /\ DueBefore(t, today)),
     urgent  |-> CountBy(All, LAMBDA t : ~ Inactive(t) /\ table[t].priority = 4)]

counters_all_closed ==
    [counters_done_only EXCEPT
        !.open = CountBy(All, LAMBDA t : ~ Inactive(t)),
        !.closed = CountBy(All, Inactive)]

dashboard_counters ==
    [open    |-> CountBy(All, LAMBDA t : ~ Inactive(t)),
     closed  |-> CountBy(All, LAMBDA t : table[t].status = "done"),
     overdue |-> CountBy(All, LAMBDA t : ~ Inactive(t) /\ DueBefore(t, today)),
     urgent  |-> CountBy(All, LAMBDA t : ~ Inactive(t) /\ table[t].priority = 4)]

dashboard_breakdown(field) ==
    {[group |-> table[t][field], status |-> table[t].status,
      n |-> CountBy(All, LAMBDA x : /\ table[x][field] = table[t][field]
                                    /\ table[x].status = table[t].status)] :
        t \in {x \in All : ~ Inactive(x)}}

breakdown_by_status ==
    {[status |-> table[t].status,
      n |-> CountBy(All, LAMBDA x : table[x].status = table[t].status)] :
        t \in All}

\* GROUP BY the name of the assignee, not the key.
breakdown_by_assignee ==
    LET held == {t \in All : ~ Inactive(t) /\ table[t].assignee # None}
        name(t) == full_name[table[t].assignee]
    IN  {[assignee |-> n,
          open_tasks |-> CountBy(held, LAMBDA t : name(t) = n),
          overdue |-> CountBy(held, LAMBDA t : name(t) = n /\ DueBefore(t, today))] :
            n \in {name(t) : t \in held}}

needs_attention ==
    {t \in All : ~ Inactive(t) /\ (table[t].priority = 4 \/ DueBefore(t, today))}

days_late(t) == IF DueBefore(t, today) THEN today - table[t].due_date ELSE 0

-----------------------------------------------------------------------------
(* The KPIs.  An average is its sum and its count; None when it is empty.  *)
Duration(t) == table[t].completed_at - table[t].created_at
Average(S) ==
    IF S = {} THEN None
    ELSE [sum |-> SumFunction([t \in S |-> Duration(t)]), n |-> Cardinality(S)]

Done == {t \in All : table[t].status = "done"}

kpi_avg_days_to_close ==
    Average({t \in Done : table[t].completed_at >= today - KpiDays})

Month(t) == table[t].created_at \div DaysPerMonth

\* The latest KpiMonths months in which a task was created.
kpi_opened_vs_closed_by_month ==
    LET months == {Month(t) : t \in All}
        shown == {m \in months :
                     Cardinality({x \in months : x > m}) < KpiMonths}
    IN  {[month |-> m,
          opened |-> CountBy(All, LAMBDA t : Month(t) = m),
          closed |-> CountBy(Done, LAMBDA t : Month(t) = m)] : m \in shown}

\* A way to get the next definition wrong: cancelled tasks count as closed.
on_time_with_cancelled ==
    LET due == {t \in All : Inactive(t) /\ table[t].due_date # None}
    IN  IF due = {} THEN None
        ELSE [on_time |-> CountBy(due, LAMBDA t :
                              /\ table[t].completed_at # None
                              /\ table[t].completed_at <= table[t].due_date),
              of |-> Cardinality(due)]

kpi_on_time_closure_rate ==
    LET due == {t \in Done : table[t].due_date # None}
    IN  IF due = {} THEN None
        ELSE [on_time |-> CountBy(due, LAMBDA t :
                              table[t].completed_at <= table[t].due_date),
              of |-> Cardinality(due)]

kpi_performance_by_branch ==
    {[branch |-> b,
      closed |-> CountBy(Done, LAMBDA t : table[t].branch = b),
      open |-> CountBy(All, LAMBDA t : table[t].branch = b /\ ~ Inactive(t)),
      avg |-> Average({t \in Done : table[t].branch = b})] :
        b \in {table[t].branch : t \in All}}

-----------------------------------------------------------------------------
(* What changes the table: the services and the Admin, at the grain of a   *)
(* transaction, and the calendar.  created_at is set by every INSERT.      *)
insert(t, status, completed_at) ==
    /\ table[t] = NoRow
    /\ \E a \in Assignee, b \in Branch, d \in DueInput, p \in PriorityInput :
           table' = [table EXCEPT ![t] =
                       [status |-> status, priority |-> p, assignee |-> a,
                        branch |-> b, due_date |-> d, created_at |-> today,
                        completed_at |-> completed_at]]
    /\ UNCHANGED today

create_task(t) == insert(t, "new", None)

\* The form of a new task has a status but no stamps, so the constraints accept
\* only the open ones.
admin_add(t) == \E s \in ACTIVE_STATUSES : insert(t, s, None)

\* A way to get the next definition wrong: a task that is reopened keeps its
\* stamp.
change_status_keeps_stamp(t, s) ==
    /\ table[t] # NoRow
    /\ s \in TRANSITIONS[table[t].status]
    /\ table' = [table EXCEPT
                    ![t].status = s,
                    ![t].completed_at = IF s = "done" THEN today ELSE @]
    /\ UNCHANGED today

change_status(t, s) ==
    /\ table[t] # NoRow
    /\ s \in TRANSITIONS[table[t].status]
    /\ table' = [table EXCEPT
                    ![t].status = s,
                    ![t].completed_at = IF s = "done" THEN today ELSE None]
    /\ UNCHANGED today

assign_task(t, a) ==
    /\ table[t] # NoRow
    /\ table' = [table EXCEPT ![t].assignee = a]
    /\ UNCHANGED today

update_task_fields(t) ==
    /\ table[t] # NoRow
    /\ \E d \in DueInput, p \in PriorityInput :
           table' = [table EXCEPT ![t].due_date = d, ![t].priority = p]
    /\ UNCHANGED today

(* The history page of the Admin saves a version of the task, with the     *)
(* status and the stamps it had, of which there may be any: versions are   *)
(* not recorded here, nor are the two lives of a task that was deleted.    *)
(* One that is gone is inserted again.  Its remaining columns change in    *)
(* assign_task and update_task_fields, and are left alone here.            *)
admin_revert(t) ==
    \E s \in Status, completed \in 0 .. today, created \in 0 .. today :
        LET stamp == IF s = "done" THEN completed ELSE None
        IN  \/ insert(t, s, stamp)
            \/ /\ table[t] # NoRow
               /\ table' = [table EXCEPT ![t].status = s,
                                         ![t].completed_at = stamp,
                                         ![t].created_at = created]
               /\ UNCHANGED today

admin_delete(t) ==
    /\ table[t] # NoRow
    /\ table' = [table EXCEPT ![t] = NoRow]
    /\ UNCHANGED today

midnight ==
    /\ today < LastDay
    /\ today' = today + 1
    /\ UNCHANGED table

Next ==
    \/ \E t \in Task :
           \/ create_task(t)
           \/ \E s \in Status : change_status(t, s)
           \/ \E a \in Assignee : assign_task(t, a)
           \/ update_task_fields(t)
           \/ admin_add(t)
           \/ admin_revert(t)
           \/ admin_delete(t)
    \/ midnight

Spec == Init /\ [][Next]_vars

-----------------------------------------------------------------------------
(* One notion of overdue: the flag on a list row, the list filtered by it, *)
(* or by the open statuses and today's date, the alert job, the counter,   *)
(* the load of the assignees and the days in the needs-attention table     *)
(* single out the same tasks (selectors.py 48, 93, 111, 124, 169, 195).    *)
OverdueAgrees ==
    LET late == annotate_overdue
        held == {t \in late : table[t].assignee # None}
    IN  /\ tasks_overdue = late
        /\ apply_query_params([NoParams EXCEPT !.overdue = "1"]) = late
        /\ apply_query_params([NoParams EXCEPT !.status = ACTIVE_STATUSES,
                                              !.due_before = today]) = late
        /\ {t \in needs_attention : days_late(t) > 0} = late
        /\ dashboard_counters.overdue = Cardinality(late)
        /\ SumFunction([r \in breakdown_by_assignee |-> r.overdue]) = Cardinality(held)

Open == [NoParams EXCEPT !.status = ACTIVE_STATUSES]

(* One notion of open: the counter is the sum of each breakdown, and what  *)
(* it counts can be listed, by everybody for himself and the rest by all,  *)
(* or branch by branch                                                     *)
(* (selectors.py 81, 122, 145, 164, 269; views.py 112-127).                *)
OpenAgrees ==
    LET open == dashboard_counters.open
        unassigned == {t \in apply_query_params(Open) : table[t].assignee = None}
    IN  /\ Cardinality(apply_query_params(Open)) = open
        /\ SumFunction([u \in User |-> Cardinality(my_tasks(u, NoParams))])
               + Cardinality(unassigned) = open
        /\ \A field \in {"branch", "priority"} :
               SumFunction([r \in dashboard_breakdown(field) |-> r.n]) = open
        /\ SumFunction([r \in {x \in breakdown_by_status :
                                 x.status \in ACTIVE_STATUSES} |-> r.n]) = open
        /\ SumFunction([r \in breakdown_by_assignee |-> r.open_tasks])
               + Cardinality(unassigned) = open
        /\ SumFunction([r \in kpi_performance_by_branch |-> r.open]) = open
        /\ \A r \in kpi_performance_by_branch :
               Cardinality(apply_query_params([Open EXCEPT !.branch = r.branch]))
                   = r.open
        /\ dashboard_counters.urgent =
               Cardinality(apply_query_params([Open EXCEPT !.priority_min = 4]))

(* One notion of closed, in which a cancelled task has no part: the        *)
(* counter, the branches and the months agree, unless there are more       *)
(* months than the chart shows (selectors.py 123, 229-242, 268).           *)
ClosedAgrees ==
    LET closed == dashboard_counters.closed
        cohorts == kpi_opened_vs_closed_by_month
    IN  /\ Cardinality(apply_query_params([NoParams EXCEPT !.status = {"done"}]))
               = closed
        /\ SumFunction([r \in kpi_performance_by_branch |-> r.closed]) = closed
        /\ SumFunction([r \in cohorts |-> r.closed]) <= closed
        /\ Cardinality({Month(t) : t \in All}) <= KpiMonths =>
               /\ SumFunction([r \in cohorts |-> r.closed]) = closed
               /\ SumFunction([r \in cohorts |-> r.opened]) = Cardinality(All)

Cancels == \E t \in Task : change_status(t, "cancelled")

(* "cancelled is excluded from both numerator and denominator"             *)
(* (selectors.py 248): to cancel a task moves no KPI of closed tasks,      *)
(* since a task that is done has to be reopened first.  Not so the Admin,  *)
(* which may put a done task back to a version that is cancelled.          *)
CancelKeepsKpis ==
    [][Cancels => /\ kpi_on_time_closure_rate' = kpi_on_time_closure_rate
                  /\ kpi_avg_days_to_close' = kpi_avg_days_to_close]_vars
=============================================================================
