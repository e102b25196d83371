----------------------------- MODULE Transactions -----------------------------
(***************************************************************************)
(* One task and the rows that hang on it, at the grain of SQL statements:  *)
(* what concurrent requests and runs of the alert job do to each other in  *)
(* PostgreSQL, at READ COMMITTED, Django's default.                        *)
(*                                                                         *)
(* A key is a row that may exist.  A transaction owns every key it has     *)
(* inserted, updated or deleted until it ends, and nobody else sees what   *)
(* it did; a statement that needs a key of somebody else waits.  Foreign   *)
(* keys are DEFERRABLE INITIALLY DEFERRED: the commit checks them.         *)
(*                                                                         *)
(* A process runs one request, or one run of the job.  Its `todo` is the   *)
(* statements it still has to execute, in the order of the source; what    *)
(* the columns of the task hold is the subject of TaskRequests.            *)
(***************************************************************************)
EXTENDS Integers, Sequences

CONSTANTS
    Process,        \* web workers and runs of the alert job
    User,           \* primary keys, in whose order a statement visits rows
    Reachable,      \* those with an address, or nobody without EMAIL_ENABLED
    AssignInput,    \* pairs of the assignee in the instance and the new one
    WatcherInput,   \* lists of watchers that clients send
    Nobody          \* the owner of a key that no transaction has touched

ASSUME UsersAreOrdered == User \subseteq Nat
ASSUME Inputs ==
    /\ Reachable \subseteq User
    /\ AssignInput \subseteq User \X User
    /\ WatcherInput \subseteq SUBSET User
ASSUME NobodyIsNoProcess == Nobody \notin Process

\* One kind of alert stands for due_soon and overdue.
Kind == {"alert", "reassigned", "status_changed"}

TaskRow == <<"task", 0>>
Watchers(users) == {"watcher"} \X users
Notices(kinds, users) == kinds \X users
NoticeKey == Notices(Kind, User)
Child == Watchers(User) \cup NoticeKey
Key == {TaskRow} \cup Child

VARIABLES
    table,      \* the keys with a committed row
    now,        \* the keys with a row in the eyes of whoever owns them
    owner,      \* owner[k]: the process whose transaction holds k, or Nobody
    handler,    \* handler[p]: what process p runs or has run
    todo,       \* todo[p]: the statements it has yet to execute
    dead,       \* the processes that were refused or killed
    made,       \* made[p]: the notices it has created and committed
    mailed      \* mailed[p]: the notices it has sent an email about

rows == <<table, now, owner>>
vars == <<rows, handler, todo, dead, made, mailed>>

Handler == {"change_status", "assign_task", "update_task_fields",
            "admin_change", "admin_delete", "run_task_alerts"}
Op == {"save", "save_column", "insert_task", "delete_task", "set_watchers",
       "add", "delete", "remove", "read_watchers", "tell", "insert",
       "get_again", "mail", "commit"}

TypeOK ==
    /\ table \subseteq Key /\ now \subseteq Key
    /\ owner \in [Key -> Process \cup {Nobody}]
    /\ \A k \in Key : owner[k] = Nobody => (k \in now <=> k \in table)
    /\ handler \in [Process -> Handler \cup {"idle"}]
    /\ \A p \in Process : \A i \in 1 .. Len(todo[p]) :
           todo[p][i] \in Op \X SUBSET Key
    /\ dead \subseteq Process
    /\ \A p \in Process : made[p] \cup mailed[p] \subseteq NoticeKey

\* The task is there, with any watchers, and may have been alerted about.
Init ==
    /\ \E us, vs \in SUBSET User :
           table = {TaskRow} \cup Watchers(us) \cup Notices({"alert"}, vs)
    /\ now = table
    /\ owner = [k \in Key |-> Nobody]
    /\ handler = [p \in Process |-> "idle"]
    /\ todo = [p \in Process |-> <<>>]
    /\ dead = {}
    /\ made = [p \in Process |-> {}]
    /\ mailed = [p \in Process |-> {}]

-----------------------------------------------------------------------------
(* The requests, as the statements they start from.                        *)
Save == <<"save", {TaskRow}>>
Commit == <<"commit", {}>>
SetWatchers(users) == <<"set_watchers", Watchers(users)>>
Tell(kind, users) == <<"tell", Notices({kind}, users)>>

\* Two ways to get the next definition wrong: the first user is made a watcher
\* after the save, and the watchers are read before it.
change_status_subscribes ==
    <<Save, <<"add", Watchers({1})>>, <<"read_watchers", {}>>, Commit>>

change_status_reads_first == <<<<"read_watchers", {}>>, Save, Commit>>

change_status == <<Save, <<"read_watchers", {}>>, Commit>>

assign_task(previous, new) ==
    <<<<"save_column", {TaskRow}>>,
      <<"delete", Notices({"alert"}, {previous})>>,
      Tell("reassigned", {new}), Commit>>

\* Watchers that were sent are written before the task.
update_task_fields(sent) == sent \o <<Save, Commit>>

\* save_model, then save_related.
admin_change(users) == <<Save, SetWatchers(users), Commit>>

\* The Collector deletes what hangs on the task first, table by table.
admin_delete ==
    <<<<"delete", Watchers(User)>>, <<"delete", NoticeKey>>,
      <<"delete_task", {TaskRow}>>, Commit>>

\* The job has no transaction of its own: each notice gets one.
run_task_alerts == <<Tell("alert", User)>>

begin(p, name, program) ==
    /\ handler[p] = "idle"
    /\ handler' = [handler EXCEPT ![p] = name]
    /\ todo' = [todo EXCEPT ![p] = program]
    /\ UNCHANGED <<rows, dead, made, mailed>>

receive(p) ==
    \/ begin(p, "change_status", change_status)
    \/ \E a \in AssignInput :
           begin(p, "assign_task", assign_task(a[1], a[2]))
    \/ \E sent \in {<<>>} \cup {<<SetWatchers(ws)>> : ws \in WatcherInput} :
           begin(p, "update_task_fields", update_task_fields(sent))
    \/ \E ws \in WatcherInput : begin(p, "admin_change", admin_change(ws))
    \/ begin(p, "admin_delete", admin_delete)
    \/ begin(p, "run_task_alerts", run_task_alerts)

-----------------------------------------------------------------------------
(* Rows and locks.                                                         *)
Running(p) == todo[p] # <<>>
op(p) == Head(todo[p])[1]
keys(p) == Head(todo[p])[2]
rest(p) == Tail(todo[p])

owned(p) == {k \in Key : owner[k] = p}
seen(p) == (table \ owned(p)) \cup (now \cap owned(p))
first(K) == CHOOSE k \in K : \A j \in K : k[2] <= j[2]

newChildren(p) == {k \in owned(p) \cap Child : k \in now \ table}

(* The key the next statement has to own: an UPDATE or DELETE that of a    *)
(* row it sees, an INSERT its own.  A commit checks the parent of each new *)
(* row, and waits when somebody is about to delete it.                     *)
wanted(p) ==
    CASE op(p) \in {"save", "save_column", "delete_task", "remove"} ->
             {first(keys(p))} \cap seen(p)
      [] op(p) \in {"insert_task", "add", "insert"} -> {first(keys(p))}
      [] op(p) = "commit" /\ newChildren(p) # {} -> {TaskRow} \cap (table \ now)
      [] OTHER -> {}

WaitsFor(p, q) ==
    /\ Running(p)
    /\ p # q
    /\ \E k \in wanted(p) : owner[k] = q

executes(p, statement) ==
    /\ Running(p)
    /\ op(p) = statement
    /\ \A q \in Process : ~ WaitsFor(p, q)

take(p, k, there) ==
    /\ owner' = [owner EXCEPT ![k] = p]
    /\ now' = IF there THEN now \cup {k} ELSE now \ {k}

\* The statement goes on with the keys K, if any, before the others.
more(statement, K, others) ==
    IF K = {} THEN others ELSE <<<<statement, K>>>> \o others

next(p, statements) == todo' = [todo EXCEPT ![p] = statements]

release(p) == owner' = [k \in Key |-> IF owner[k] = p THEN Nobody ELSE owner[k]]

\* A way to get the next definition wrong: no transaction.atomic.
abort_without_atomic(p) ==
    /\ release(p)
    /\ next(p, <<>>)
    /\ dead' = dead \cup {p}
    /\ UNCHANGED <<table, now, handler, made, mailed>>

(* ROLLBACK, and the end of the request or run: an error that nothing      *)
(* catches, a deadlock's victim, a killed process.                         *)
abort(p) ==
    /\ now' = (now \ owned(p)) \cup (table \cap owned(p))
    /\ release(p)
    /\ next(p, <<>>)
    /\ dead' = dead \cup {p}
    /\ UNCHANGED <<table, handler, made, mailed>>

-----------------------------------------------------------------------------
(* Task.save(): an UPDATE, and an INSERT when it finds no row.             *)
save(p) ==
    /\ executes(p, "save")
    /\ IF TaskRow \in seen(p)
       THEN take(p, TaskRow, TRUE) /\ next(p, rest(p))
       ELSE /\ next(p, <<<<"insert_task", {TaskRow}>>>> \o rest(p))
            /\ UNCHANGED <<owner, now>>
    /\ UNCHANGED <<table, handler, dead, made, mailed>>

insert_task(p) ==
    /\ executes(p, "insert_task")
    /\ IF TaskRow \in seen(p) THEN abort(p)
       ELSE /\ take(p, TaskRow, TRUE)
            /\ next(p, rest(p))
            /\ UNCHANGED <<table, handler, dead, made, mailed>>

\* save(update_fields=...) raises DatabaseError when it finds no row.
save_column(p) ==
    /\ executes(p, "save_column")
    /\ IF TaskRow \notin seen(p) THEN abort(p)
       ELSE /\ take(p, TaskRow, TRUE)
            /\ next(p, rest(p))
            /\ UNCHANGED <<table, handler, dead, made, mailed>>

delete_task(p) ==
    /\ executes(p, "delete_task")
    /\ IF TaskRow \in seen(p) THEN take(p, TaskRow, FALSE)
       ELSE UNCHANGED <<owner, now>>
    /\ next(p, rest(p))
    /\ UNCHANGED <<table, handler, dead, made, mailed>>

\* watchers.set(): a SELECT, and what it calls for.
set_watchers(p) ==
    /\ executes(p, "set_watchers")
    /\ LET old == seen(p) \cap Watchers(User)
       IN  next(p, more("remove", old \ keys(p),
                        more("add", keys(p) \ old, rest(p))))
    /\ UNCHANGED <<rows, dead, handler, made, mailed>>

\* INSERT ... ON CONFLICT DO NOTHING, row by row.
add(p) ==
    /\ executes(p, "add")
    /\ LET k == first(keys(p))
       IN  /\ IF k \in seen(p) THEN UNCHANGED <<owner, now>>
              ELSE take(p, k, TRUE)
           /\ next(p, more("add", keys(p) \ {k}, rest(p)))
    /\ UNCHANGED <<table, dead, handler, made, mailed>>

\* A DELETE is about the rows there are when it starts; one that is gone when
\* its turn comes is passed over.
delete(p) ==
    /\ executes(p, "delete")
    /\ next(p, more("remove", keys(p) \cap seen(p), rest(p)))
    /\ UNCHANGED <<rows, dead, handler, made, mailed>>

remove(p) ==
    /\ executes(p, "remove")
    /\ LET k == first(keys(p))
       IN  /\ IF k \in seen(p) THEN take(p, k, FALSE)
              ELSE UNCHANGED <<owner, now>>
           /\ next(p, more("remove", keys(p) \ {k}, rest(p)))
    /\ UNCHANGED <<table, dead, handler, made, mailed>>

read_watchers(p) ==
    /\ executes(p, "read_watchers")
    /\ next(p, more("tell",
                    {k \in Notices({"status_changed"}, User) :
                         <<"watcher", k[2]>> \in seen(p)}, rest(p)))
    /\ UNCHANGED <<rows, dead, handler, made, mailed>>

\* notify() for one after another: get_or_create looks for the row first.
tell(p) ==
    /\ executes(p, "tell")
    /\ \E k \in keys(p) :
           LET others == more("tell", keys(p) \ {k}, rest(p))
           IN  next(p, IF k \in seen(p) THEN others
                       ELSE <<<<"insert", {k}>>>> \o others)
    /\ UNCHANGED <<rows, dead, handler, made, mailed>>

Job(p) == handler[p] = "run_task_alerts"

\* Two ways to get the next definition wrong: whatever becomes of the INSERT,
\* a mail is sent, and the job sends its mails at the end of its run.
insert_mails_anyway(p) ==
    /\ executes(p, "insert")
    /\ LET k == first(keys(p))
           mail == IF k[2] \in Reachable THEN <<<<"mail", {k}>>>> ELSE <<>>
       IN  IF k \in seen(p)
           THEN next(p, mail \o rest(p)) /\ UNCHANGED <<owner, now>>
           ELSE /\ take(p, k, TRUE)
                /\ next(p, (IF Job(p) THEN <<Commit>> \o mail ELSE mail)
                               \o rest(p))
    /\ UNCHANGED <<table, dead, handler, made, mailed>>

insert_mails_last(p) ==
    /\ executes(p, "insert")
    /\ LET k == first(keys(p))
           mail == IF k[2] \in Reachable THEN <<<<"mail", {k}>>>> ELSE <<>>
       IN  IF k \in seen(p)
           THEN /\ next(p, <<<<"get_again", {k}>>>> \o rest(p))
                /\ UNCHANGED <<owner, now>>
           ELSE /\ take(p, k, TRUE)
                /\ next(p, IF Job(p) THEN <<Commit>> \o rest(p) \o mail
                           ELSE mail \o rest(p))
    /\ UNCHANGED <<table, dead, handler, made, mailed>>

(* get_or_create's INSERT, under UNIQUE(task, user, kind): it waits for    *)
(* whoever holds the key, and looks again when a row has turned up.  Only  *)
(* a row it created is mailed: in a service before the transaction         *)
(* commits, in the job afterwards.                                         *)
insert(p) ==
    /\ executes(p, "insert")
    /\ LET k == first(keys(p))
           mail == IF k[2] \in Reachable THEN <<<<"mail", {k}>>>> ELSE <<>>
       IN  IF k \in seen(p)
           THEN /\ next(p, <<<<"get_again", {k}>>>> \o rest(p))
                /\ UNCHANGED <<owner, now>>
           ELSE /\ take(p, k, TRUE)
                /\ next(p, (IF Job(p) THEN <<Commit>> \o mail ELSE mail)
                               \o rest(p))
    /\ UNCHANGED <<table, dead, handler, made, mailed>>

get_again(p) ==
    /\ executes(p, "get_again")
    /\ IF keys(p) \subseteq seen(p)
       THEN next(p, rest(p)) /\ UNCHANGED <<rows, dead, handler, made, mailed>>
       ELSE abort(p)

\* send_mail, with fail_silently: delivered or refused, the code goes on.
mail(p) ==
    /\ executes(p, "mail")
    /\ mailed' = [mailed EXCEPT ![p] = @ \cup keys(p)]
    /\ next(p, rest(p))
    /\ UNCHANGED <<rows, dead, handler, made>>

\* A child without its task: a new one, or one left behind.
dangling(p) ==
    IF TaskRow \in seen(p) THEN {}
    ELSE IF owner[TaskRow] = p THEN seen(p) \cap Child ELSE newChildren(p)

commit(p) ==
    /\ executes(p, "commit")
    /\ IF dangling(p) # {} THEN abort(p)
       ELSE /\ table' = seen(p)
            /\ made' = [made EXCEPT ![p] = @ \cup (newChildren(p) \cap NoticeKey)]
            /\ release(p)
            /\ next(p, rest(p))
            /\ UNCHANGED <<now, dead, handler, mailed>>

-----------------------------------------------------------------------------
(* A worker is killed, by the deployment or by gunicorn for taking more    *)
(* than 30 seconds, as a request does that waits for a mail server which   *)
(* does not answer; a run of the job is killed by its host.                *)
kill(p) == Running(p) /\ abort(p)

Deadlocked(S) == S # {} /\ \A p \in S : \E q \in S : WaitsFor(p, q)

\* PostgreSQL looks for deadlocks, and ends one of them.
break_deadlock ==
    \E S \in SUBSET Process : Deadlocked(S) /\ \E p \in S : abort(p)

step(p) ==
    \/ save(p) \/ insert_task(p) \/ save_column(p) \/ delete_task(p)
    \/ set_watchers(p) \/ add(p) \/ delete(p) \/ remove(p)
    \/ read_watchers(p) \/ tell(p) \/ insert(p) \/ get_again(p)
    \/ mail(p) \/ commit(p)

Next ==
    \/ \E p \in Process : receive(p) \/ step(p) \/ kill(p)
    \/ break_deadlock

Spec == Init /\ [][Next]_vars

-----------------------------------------------------------------------------
(* Without the Django Admin, which takes the same rows in another order,   *)
(* and with one request at a time that writes the list of watchers, no     *)
(* requests and no runs of the job ever deadlock: all of them take the     *)
(* watchers' rows before the task's and that before the notices'           *)
(* (services.py 74, 116-120, 143-146 against admin.py).                    *)
DeadlocksExplained ==
    \A S \in SUBSET Process : Deadlocked(S) =>
        \/ \E p \in S : handler[p] \in {"admin_change", "admin_delete"}
        \/ \E p, q \in S :
               /\ p # q
               /\ handler[p] = "update_task_fields"
               /\ handler[q] = "update_task_fields"

Ends(p) == Running(p) /\ todo'[p] = <<>>

(* Whoever watches the task when a change of status commits has a notice   *)
(* of it: a list of watchers cannot be committed in between, since all its *)
(* writers hold the task's row then (notifications/services.py 90-97).     *)
WatchersToldAtCommit ==
    [][\A p \in Process :
        (Ends(p) /\ handler[p] = "change_status" /\ p \notin dead')
            => \A u \in User : <<"watcher", u>> \in table'
                   => <<"status_changed", u>> \in table']_vars

Withdrawn ==
    \E p \in Process :
        /\ handler[p] \in {"assign_task", "admin_delete"}
        /\ ~ Running(p) /\ p \notin dead

(* Two runs of the job may overlap: still nobody is mailed an alert twice, *)
(* unless it was withdrawn in between, and nobody is mailed one that is    *)
(* not in his bell (notifications/services.py 46-51).                      *)
AlertsMailedOnce ==
    \A p \in Process : Job(p) =>
        /\ mailed[p] \subseteq made[p]
        /\ \A q \in Process \ {p} :
               (Job(q) /\ ~ Withdrawn) => mailed[p] \cap mailed[q] = {}

(* Every notice that is kept is mailed to a user who can be reached, but   *)
(* for at most one that a killed run of the job had just committed: it     *)
(* will never be created, and so never be mailed, again                    *)
(* (notifications/services.py 47-51).                                      *)
KeptNoticesMailed ==
    \A p \in Process : ~ Running(p) =>
        LET unsent == {k \in made[p] \ mailed[p] : k[2] \in Reachable}
        IN  \/ unsent = {}
            \/ Job(p) /\ p \in dead /\ \E k \in NoticeKey : unsent = {k}

(* "a dead SMTP server must never roll back the in-app notification that   *)
(* was already committed" (notifications/services.py 21-23): whoever is    *)
(* killed while he waits for the mail server leaves the notice behind.     *)
NoticeSurvivesMail ==
    [][\A p \in Process :
        (Ends(p) /\ op(p) = "mail" /\ p \in dead')
            => keys(p) \subseteq table']_vars
=============================================================================
