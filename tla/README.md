# Branch tasks: TLA+ models and proofs

This directory is a verification development for the branch task management
system (the Django project it lies beside). It contains TLA+ modules that model
the program, TLC configurations that model-check them on small instances, and
proofs checked by TLAPS. `PROJECT.json` maps every definition to the lines it
models and lists the runs, the mutants that show each property can fail, the
theorems and the hazards the properties are for.

## 1. The system

A web application for the tasks of a four-branch organisation: a Django project
with a JSON API, HTML pages with small in-place controls, the Django Admin, one
daily command and one nightly shell script. The only shared state is the
database (PostgreSQL in production, SQLite in development) and the media volume.

| Part | State it keeps | Operations | Correct when |
| --- | --- | --- | --- |
| Task policy (`accounts/permissions.py`, `tasks/services.py` 21-41, `tasks/models.py` 68-84) | none | permission predicates, transition table, CHECK constraints | the checks of a status change imply the constraints |
| Task service (`tasks/services.py`) and its callers (`tasks/api.py`, `tasks/views.py`, `tasks/admin.py`) | task rows, watchers, history rows; a loaded instance in each request | create, change status, assign, edit, Admin add/change/delete/revert | the status follows the table by entitled users unless the Admin reverts a task, only managers reassign, the history tells what happened |
| Notifications (`notifications/`) | one row per (task, user, kind), unread or read | five triggers, pruning on reassignment, read one, read all, edits in the Admin | whoever is concerned has been told, once; nothing read disappears |
| Daily alert job (`run_task_alerts.py`) | none; two snapshots while it runs | due-soon half, overdue half | a complete run has told everybody, a second one does nothing, failed runs are made up for |
| Attachments and backup (`attach_file`, `scripts/backup.sh`) | rows, files, dumps, archives | upload, delete, dump, archive, retention, restore | rows have their files, there is always a pair to restore from |
| Email (`notifications/services.py` 18-51) | none | one mail per created notice, inside the services' transactions, after each commit in the job | what is kept is mailed, nothing is mailed twice |
| Read side (`tasks/selectors.py`, `tasks/filters.py`, `core/pagination.py`) | none | lists, pages, export, counters, breakdowns, KPIs | all queries agree on open, overdue and closed; all ways to page through a list show the same tasks |
| Accounts (`accounts/validators.py`, `accounts/admin.py`, the foreign keys of `tasks/models.py`) | users, `is_active` | deactivate, reactivate, delete | no active task belongs to an inactive user, none refers to a user who is gone |
| Comments, shapes of CSV and JSON, lookups, templates, settings, migrations | | | not modelled, see section 7 |

How they interact: the views and the API call the service functions; the
service functions call the notification triggers inside their own transaction;
the alert job and the dashboard read the task table through the selectors; the
Admin saves models and calls none of this, also when its history page saves an
earlier version of a task; the deactivation guard reads the
task table; deleting a task cascades to notices, comments and attachments;
deleting a user takes him off the tasks he was assigned or watched, and is
refused to whoever opened one.

What is hard here: every request loads the task *before* the transaction that
checks and saves it, nothing locks the row, and `Task.save()` writes every
column. Watchers, task and notices are rows of three tables that different
handlers lock in different orders, and mails are sent while they are locked. The
container image starts gunicorn without options, that is with one
synchronous worker, and then requests are serial; `vercel.json` deploys the
same code as concurrent instances. The alert job and the cron backup are
processes of their own in either case, and nothing keeps two runs of the job
apart. Files and rows are changed by no common
transaction. No code catches an error in the alert job.

## 2. Modules

| Module | Models | Extends |
| --- | --- | --- |
| `TaskPolicy` | roles, permissions, transition table, effect of a move, constraints; constants only | |
| `TaskLifecycle` | the abstract specification: what the service promises about one task over its life | `TaskPolicy` |
| `TaskRequests` | the task service and the Admin: requests of concurrent workers | `TaskPolicy` |
| `Notifications` | the notice table and the triggers, as operators on the table | `TaskPolicy` |
| `BranchTasks` | the application: `TaskRequests` with its triggers, the bell and the job | both |
| `AlertJob` | the daily job notice by notice, over a calendar | `Notifications` |
| `Transactions` | the same requests and runs of the job, SQL statement by SQL statement: row locks, deferred foreign keys, mails, deadlocks, kills | |
| `TaskRefs` | how a new task gets its number: two writes under a unique index; how a revert takes it away | |
| `Attachments` | uploads, deletions, the backup script and the restore | |
| `Dashboard` | the queries of `selectors.py` | `TaskPolicy` |
| `Lists` | orderings, the pages of the API and of the HTML list, the export | `Dashboard` |
| `Accounts` | the deactivation guard and the deletion of users next to the task service | `TaskRequests` |
| `TaskRequestsProofs`, `BranchTasksProofs`, `AlertJobProofs`, `TransactionsProofs`, `TaskRefsProofs`, `AttachmentsProofs`, `DashboardProofs`, `AccountsProofs` | theorems, about the module of that name (`DashboardProofs` about `Lists` too) | |
| `MC*` | small values of the constants for TLC | |

**TaskRequests.** `db[t]` is the row, `NoRow` when there is none; `watchers[t]`
and `history[t]` are the rows of their tables; `req[w]` is the task instance a
worker holds. `load` is the `get_object` of a handler. Each service function is
one step: its guard is the function's checks *of the loaded instance*, its
effect the save. A transaction can be one step because nothing that it writes to
the task and its history depends on what it reads in the database: the first
statement about the task locks its row, and from there to the commit nobody else
writes it. (An edit with a list of watchers writes these before it takes the row;
that, and everything else that statements of several transactions do to each
other, is in `Transactions`.) `save` keeps
the two facts about Django that matter: without `update_fields` it writes every
column, and it inserts the row when the UPDATE finds none. `assign_task` writes one column, but
copies the whole instance to the history table, as simple-history does.
`admin_revert` is the history page of the Admin: `TaskAdmin` is a
`SimpleHistoryAdmin`, and nothing disables its button. It saves any version in the
history table, with the status and the stamps it had and the rest as the form says,
whether the task has moved since or is deleted. A PATCH
that has an assignee and other fields runs two transactions on one instance:
stage `"assigned"`. `drop_request` is everything that leaves no trace: a
refused check, a violated constraint, a read, a killed worker. `FormInput` is what the Admin's form for a task may
say. Columns that no
check, constraint or trigger reads (title, branch, description) are left out.
Stamps are null or set; a blocker is blank or text.

**Notifications, BranchTasks.** `notice[<<t, u, k>>]` is a row of the table with
its unique constraint. A trigger maps the table before to the table after;
`BranchTasks` conjoins each action of `TaskRequests` with the triggers its
handler pulls. The previous assignee that `prune_stale_alerts` gets is that of
the instance, the watchers are those of the database. The job works as the code
does, from a snapshot and one committed notice at a time: `SelectAlerts` is a query,
with any due dates, and fills `queue`; `NotifyNext` tells the next in it, whatever
became of the task meanwhile; `AbandonRun` is the foreign-key error on a task
deleted in between, or a kill. `AdminNotice` is what the Admin does to notices.

**AlertJob.** `queue` is the snapshot of the half that runs, `current` makes the
recipients of one task come together. `fail` is the foreign-key error on a task
deleted meanwhile, `kill` any other end. A user's request is one step here, since
its interleavings are the subject of `TaskRequests`. `touched`, `settled` and
`heir` are auxiliary variables that only the properties read.

**Transactions.** A key is a row that may exist: the task, a watcher, a notice.
`table` is what is committed, `now` what whoever owns a key sees in it, `owner`
who that is; `todo[p]` is what process `p` still has to execute, a sequence of
pairs of an operation and the keys it is about, in the order of the source. A
statement that needs a key of somebody else waits (`WaitsFor`), which is
PostgreSQL at READ COMMITTED: a process sees what is committed and what it did
itself, an UPDATE or DELETE waits for the rows it sees, an INSERT, with ON CONFLICT
DO NOTHING too, for its key, and a commit for the parent of what it inserted, as
foreign keys are deferred there. Statements about several rows visit them one by
one in the order of their keys, which the code does not ask for but the queries
give. `break_deadlock` ends somebody in a cycle of waits, `kill` anybody at any
time: gunicorn does so to a request that waits 30 seconds for a mail server.
`mail` is a step of its own: in a service it comes before the commit, in the
job after. What the columns of the task hold is left out; so are creation (of whose
keys only the number concerns anybody else: `TaskRefs`), comments and attachments (rows of their own), and the
actor, who is told nothing about what he does himself. The bell only updates
notices that are committed. One kind stands for `due_soon` and `overdue`.

**TaskRefs.** `seq` is the sequence behind the primary keys, which no rollback sets
back; `doing[p]` and `task[p]` are the next statement and the instance of a
request. `Task.save()` inserts a task with a blank number and then replaces it; the
column is unique, so the blank key is taken (`holds`) until the transaction, which
is all of `create_task`, ends, and other creations wait (`WaitsFor`). `notify` is
where numbers leave the system before they are committed; `named` is an auxiliary
variable. A load, a save and a deletion of a task that exists are a step each: they
hold none of the keys a creation inserts. `history` has the versions the Admin can
revert to, of which the first one of each task has the blank number, as a
creation saves twice; `Restorer` are the workers that serve that page. A restored dump also sets the sequence back; the loss
of both volumes is the subject of `Attachments`, not of this module.

**Attachments.** An upload writes its file, then commits its row, or not. The
script is one step per command, `backup_fail` is `set -e`. `tar` may or may not
pick up files that appear while it runs. `-mtime +N` counts full days, so a backup
*may* go after N+1 nights and *must* after N+2, each file on its own. `lose` and
`restore` stand for the disaster the script exists for, and for the runbook in
its header. `cascade` is the deletion of a task or a comment, `destroy` that of one
attachment; neither touches a file. The operator restores a dump and an archive of one timestamp, both
whole.

**Dashboard.** Every query is an operator on the present table; the services
and the Admin's operations that change the table are one step each. `admin_revert`
gives a task any status and any stamps that are not of the future: versions are not
recorded here, and a task that comes back after its deletion is created anew, so
that it may be done before it was created. SQL's null handling is explicit
(`DueBefore`). The list can be filtered by branch, status, assignee, priority and
dates; the table has no columns for category, opener and text.

**Lists.** `api_list`, `html_list` and `export` return the *set* of responses
the server may give: rows that ORDER BY does not tell apart come in any order, in
each query anew, and every page is a query. `api_walks` and `html_walks` are what a
client gets who asks for page after page; the two lists have page sizes of their
own (`PageSize`, `HtmlPageSize`). An ordering outside the whitelist is an error 400 in
the API and an error 500 in the HTML list, where nothing handles it.

**Accounts.** `clean` and `save_user` are the two halves of the Admin's request.
Requests that were under way when their user was deactivated go on; new ones
are refused. `delete_user` is what the foreign keys say: openers are protected,
an assignee becomes null by an UPDATE that bypasses `save()` and so the history,
a watcher is dropped, and the history forgets the author of a change
(`unsigned`). A user who is deleted while the form that deactivates him
is being saved is inserted again. Authors of comments and attachments are
protected like openers, and are left out with these. `seen` and `gone` are
auxiliary variables.

## 3. Runs

Each row is a `.cfg` file, checked with `tlc -config <run>.cfg <module>`.

| Run | Shows |
| --- | --- |
| `BranchTasks_race` | two workers, the bell and the job, notice by notice, on one task, a member and an admin, up to 3 saves: `StatusSaveAccepted` (no legal move ends in an IntegrityError, however stale), `WaitingHasBlocker`, `AssigneeGranted`, `AssigneeTold`, `FreshStepsLegal` (only stale writes leave the lifecycle), `NoticesWithdrawnOnlyByReassignment` (nothing goes but an unread alert of the assignee whom the writer of that step replaced or believed to replace), `AlertsMoveWithTheTask` (an alert is left with a former assignee only by a stale write, or by the job when it asked before the reassignment) |
| `BranchTasks_admin` | one worker and the Admin, with its reverts and its edits of notices, watchers, urgent tasks: the application implements `TaskLifecycle` (`LifecycleSpec`), `AuditCurrent`, `WatchersTold` (every change of status but a revert) |
| `Transactions` | three requests or runs of the job: `DeadlocksExplained` (only the Admin, or several writers of the list of watchers, can deadlock), `AlertsMailedOnce` (also when runs overlap), `KeptNoticesMailed` (all but the one a killed run had just committed), `WatchersToldAtCommit` |
| `AlertJob` | `RunComplete`, `SecondRunIsNoop`, and, under fairness, `OverdueReachesEveryone` |
| `Attachments` | `RowsHaveFiles`, `PairKept` |
| `Dashboard` | `OverdueAgrees`, `OpenAgrees`, `ClosedAgrees`, `CancelKeepsKpis`, `PagesAreTheExport` (of the API and of the HTML list; a task is on no page only if one it ties with is on two) |
| `Accounts` | `OrphansMadeLater`, `OnlyUserDeletionIsUnlogged` (the newest history row is the task, but for an assignee who was deleted) |
| `TaskRequests_ReopenIsAdminOnly` | violated: a member's edit of a stale copy reopens a closed task |
| `TaskRefs_NoBlankRef` | violated: the Admin reverts a task to its first version, and a row with a blank number is there for all to read |
| `AlertJob_NewOwnerGetsTheirOwn` | violated: after a reassignment later on the day of the alert, the new owner never gets one |
| `Accounts_NoOrphans` | violated: an assignment between the guard and the save, or to an inactive user, orphans a task |
| `Transactions_NoticeSurvivesMail` | violated: a request that is killed while it waits for the mail server takes its notice with it |

The type invariant of each module that a passing run checks is among the
properties of that run. `TaskRefs` has none: its other invariants are
proved (section 4), for any number of workers and tasks.

**Bounds, and why they are enough.** Tasks never influence one another, except
in the job's queue and in the counts: one task everywhere, two in `AlertJob`
and `Dashboard`. One user of each role (the manager is left out where the admin
has all his rights) shows every difference a permission makes. Two workers
show every race: a stale write needs one writer and one who overtakes him, and
`MaxSaves` 3 leaves room for the creation, the overtaking and the stale write.
The notice table is finite. `BranchTasks_race` has no watchers and one priority
that is accepted, `BranchTasks_admin` has both with one worker: `WatchersTold` is
about the one step that changes the status. `MaxSaves` 3 lets a task there be created,
closed and reopened, or created, deleted and reverted to its only version; one
form that changes every column it has (`FormInput`) shows what the Admin overrides, and
of the notices it edits those of one kind (`AdminKind`), the one `WatchersTold` is
about. The job of `BranchTasks_race` looks for `due_soon` only (`AlertInput`); both
kinds are in `AlertJob` and in the theorems. In `Accounts` `MaxSaves` is
2, a creation and a change, or a creation and a deletion: with one worker a
property of the newest row needs no more, and `OrphansMadeLater` is proved for
every bound. `TaskRefs_NoBlankRef` has two workers and two numbers. In `Transactions` each of three processes runs once: a deadlock of the
services would need two, an alert mailed twice two runs and somebody who
withdraws it, and two users give statements several rows to visit. In `AlertJob`
`LastDay` 3 has a due date (day 2) two days off, tomorrow, today and past, and
`LastDay` itself stands for that and all later days; a manager who may also be
the assignee is the only user, because a second one is beyond TLC's time, and
the run that needs two users (`NewOwnerGetsTheirOwn`) has one task. `MaxKills`
bounds the runs that die for no reason. In `Attachments` two uploads let one be
in a backup and the other not, and four nights with a retention of one let pairs
expire, wholly and by halves. `Dashboard` has two branches, two users of one
name, two days that are two months, with a chart of one month and a window of the
present day: what is due, created or closed is so today or before, in this month
or the last. Pages have one row or two: two tasks fill two pages, or share one.

Workers, processes, files and branches are interchangeable and declared
symmetric where the run has no liveness property.

Deadlock is checked where the bound cannot end the system. It is not in
`BranchTasks_admin` and `Accounts`, where users of the Admin delete a task and
no key is left, in `Transactions`, where all processes come to their end, nor in
`Attachments`, where a loss before the first pair of backups is the end in
reality too. A deadlock among transactions is no deadlock of the model:
`break_deadlock` can always end it, and `DeadlocksExplained` says who can be in one.

**Fairness** is assumed in `AlertJob` only, and only of the job and the
calendar: cron starts the job again and again (`start`), a run does its next
step when it can, and the night falls. Nothing is assumed of users. That
failures end is not a fairness assumption: a run fails on a deleted task only
while one is in its snapshot, keys are not used twice, and `MaxKills` bounds the
rest. A task that is deleted during *every* run for ever would, in the real
system, defeat the job.

## 4. Proofs

Checked by `tlapm`, for all values of the constants.

*`TaskRequestsProofs`.* `TypeCorrect`; `StatusSavesAccepted`;
`WaitingTasksHaveBlockers`; `AssigneesAlwaysGranted`. `StatusSaveAccepted` is
not inductive: it needs that every row in the table and in a request satisfies
the constraints (`checks` holds of what is loaded because it held of what was saved).
`WaitingHasBlocker` needs the same of instances in memory. `AssigneeGranted` needs
that the assignee of every loaded instance is one that the history had granted
when it was loaded; since histories only grow, it stays granted however stale the
instance becomes. `WaitingHasBlocker` is proved under `Staff = {}`, as the Admin
may blank a blocker.

The refinement: `FreshStepsAreLegal`, every step of a worker whose instance
is up to date is a step of `TaskLifecycle` under the mapping `Facts`. From it,
`SerialImplementsLifecycle`: with a single worker the instance is always up to
date, so the service with its Admin implements the abstract specification, where a
revert goes back to a status the task has had (`past`, which the history
is mapped to; `StatusLogged` says that the status in the table is among them); and
`SerialAuditIsCurrent`: with a single worker the newest history row is what the
table holds. There the freshness of instances (`AllFresh`) is the strengthening
needed, and only `assign_task` needs it: it writes one column and logs a copy of the
whole instance, while a full save logs what it writes whether stale or not.

*`BranchTasksProofs`.* `AppImplementsService`: the application does to the tasks what
the service alone may do, so every theorem of `TaskRequestsProofs` holds of it.
`WithdrawalsAreReassignments` follows from the steps and the types. It and
`UntouchedAssigneesTold` assume `NoticesLeftAlone`: there are no users of the Admin, or they
do not edit notices. `AssigneesAlwaysTold`
needs `AssigneesKnown`: that everybody who is the assignee in the table has been told, or
assigned himself, is not inductive, since saving a stale instance puts a former
assignee back without a word; so it must hold of the instances in memory too, and
goes on to hold of them because only alerts are ever withdrawn. It assumes
`Staff = {}`, as the Admin pulls no trigger; `UntouchedAssigneesTold` says what is left
with the Admin. `AlertsAlwaysMove` assumes `Staff = {}`, too. `FreshMovesHeard`, about any
number of workers, says a change of status through an instance that is up to date
is told to all watchers, unless it is a revert, and gives `SerialWatchersTold` for one worker, whose
instances always are.

*`AlertJobProofs`.* `TypeCorrect`, `RunsAreComplete`, `SecondRunsAreNoops`. The
inductive invariant is about the progress of a run (`Progress`): whomever a half has
yet to tell about a task nobody touched is in its queue (`FirstHalf`, `SecondHalf`),
and whoever is in the queue is still to be told (`QueueCurrent`); the tasks of a
complete run are told, until somebody works on them or the night falls (`SettledTold`).

*`AttachmentsProofs`.* `TypeCorrect`, `RowsAlwaysHaveFiles`, `PairAlwaysKept`. The
inductive invariant has four parts: `Volumes` (rows and uploads under way have
files), `Pairs` (in a whole pair the rows' files are in the archive), `Tonight`
(how far the present run has come, and what its phase guarantees) and `Unmade`
(nights to come have no backups). `Tonight` is the one that matters: the
dump's rows are on the volume when `tar` starts because files are never deleted,
and the retention is reached only when tonight's pair is whole, which is too
young to expire whatever the retention.

*`AccountsProofs`.* `AccTypeCorrect`; `OrphansAlwaysLater`;
`SerialTrailLosesOnlyAssignees`. A foreign key holds
because every request that names a user who is gone is refused, and the deletion
clears the others. `OrphansMadeLater` is not inductive: between `clean` and
`save_user` the user is active, and an active task of his counts only when he no
longer is. The strengthening `LookedAt` says of whoever has passed the form, saved
or not, that his active tasks were written after the guard looked; it stays true
because every write of an assignee or a status appends to the history, whose
length `Bounded` keeps within `MaxSaves`. `SerialTrailLosesOnlyAssignees` assumes one
worker and needs that the instance it loaded is the stored row still, but for an
assignee who was deleted while it was his (`InstancesKept`): `assign_task`
logs a copy of the whole instance, and that of the stored row differs from it in no
column but the one it writes.

*`TransactionsProofs`.* `TypeCorrect`; `DeadlocksAlwaysExplained`, for any number
of users, requests and runs. The inductive invariant `IInv` has, next to the
types, one part for the task's row (`DeleterInv`: only the Admin's deletion takes
it away) and one for each process (`ProcessInv`): what a handler still has to
execute is among the statements of its kind; a service that does not own the
task's row yet has watchers, then the task, then notices ahead of it (`InOrder`)
and owns at most watchers; one that owns it has only notices ahead; the job owns
nothing but the notice it is about to commit. Each operation has a lemma, from a
few about rewriting the head of a process. The argument about deadlocks is the
usual one about an order of locks: whoever owns a notice owns the task as well, or is
about to commit and waits for nobody; so an owner of the task waits for nobody in
the set, and nobody waits for a watcher, as only one process writes them.

The other theorems say what is mailed and told: `KeptNoticesAlwaysMailed`,
`AlertsNeverMailedTwice`, `WatchersAlwaysTold`. Their proofs see a process as the set of
statements it has yet to execute (`Agenda`) and a step by the statements it may
add to them (`Follows`), so that most steps can be treated alike. `MailsInv`:
the notices of a process that are not mailed yet are those it is about to mail or
has not committed; the job has at most one of these. `AlertsInv`: unless a
reassignment or a deletion has committed (`Withdrawn`), the alerts a run created
are in the table and no two runs created the same (`RunsApart`). `LocksInv`: from the reading of
the watchers to the commit, everybody who watches the task has his notice in the table,
inserted or still to come (`Covered`). It is preserved as the service
owns the task's row all that time: a list of watchers is written before the
row is taken, the Admin saves the task before its watchers, and its deletion takes
the watchers and notices with the row.

*`TaskRefsProofs`.* `TypeCorrect`, `RefsAlwaysIdentify`, `RefsNeverReused`, `OnlyRevertsBlank`. Nothing in
the database remembers the numbers of deleted tasks and of creations rolled
back, so these cannot be compared with new ones. The strengthening is that every
number, in a row, in an instance that may be saved and in what anybody was told, is
the one made of its task's key, or blank; numbers of different keys differ, and the index
lets no second blank one in. `OnlyRevertsBlank` is `NoBlankRef`, which a run
violates, under `Restorer = {}`: the two writes of a creation are not to blame.

*`DashboardProofs`.* `TypeCorrect`, `CancelsKeepKpis`, `OverdueAlwaysAgrees`,
`OpenAlwaysAgrees`, `ClosedAlwaysAgrees`, `PagesAreAlwaysTheExport`, for any finite number of tasks and users. The queries have
no state of their own, so the invariant is the type of the table: a task has a
time of completion just when it is done, and no stamp lies in the future. A request that cancels
leaves the done tasks alone, as the transition table has no such move, hence the
KPIs too, whatever they compute. That breakdowns add up to the counters is a statement about
sums over sets, which are defined by recursion: `SumsAreUnique` shows, by induction
over subsets (`SubsetInduction`, from the well-foundedness of strict inclusion), that any
function that satisfies the recursion is the sum, and `PartsAddUp` that the sizes of
the groups of a GROUP BY add up to the whole. For the pages: ORDER BY is a weak order, in which tasks
are tied just when they agree in every column (`Ranks`), for any list of columns and with
nulls last; so two sortings of the same rows have tied rows in the same place
(`SamePlaceTied`, by the pigeonhole principle). Each place of the list is on one page
(`PageIsUnique`) and the pages joined are a list of as many rows as there are
tasks (`PagesGot`), each place filled from the sorting of its own query. When a task
is missing, the places of those it ties with are filled by one task less, so
that one of them has two places, which are on two pages, as no
sorting repeats a row (`MissedForATie`).

The assumptions are those the modules state next to their constants: the roles
are disjoint, `None`, `Idle` and `NoRow` are no ordinary values, the bounds are
numbers. `Dashboard` adds that null is no number and no branch, and that there are finitely
many tasks and users, `Lists` that keys are numbers and that nobody orders by `updated_at`,
a column the model leaves out. A theorem that assumes more, one worker, no users of the
Admin, or none who edits notices, says so in its statement, and the paragraphs above say why.

## 5. Only model-checked

Liveness: `OverdueReachesEveryone` is outside the prover's reach. Every other
property of the passing runs is a theorem. Where a theorem assumes `Staff = {}` or one worker, the
run that checks the property makes the same choice, since the property is false without it.

## 6. What the checks found

The five violated runs above. Three of them come from the same habit: a
decision made on what was read earlier (a request's instance, the guard's query,
the job's "exactly two days") and used later without looking again. The fourth is
the history page of the Admin, which saves the version of a task from before its
number was filled in: the row with the blank number is what a docstring says nobody
can ever read, and while it is there no task can be created. The fifth is the mail that is sent before its
notice is committed: a server that refuses does no harm, one that does not answer
takes the change with it. Met while modelling the read side: the answer to a
write shows whether the task *was* overdue, as `refresh_from_db` does not reload an
annotation. Met while modelling the numbers of tasks: the README of the project says they need no
"locked counter table" (95-98), and they are indeed never wrong; but the blank number
every new task starts with, being unique, is held like one, so concurrent
creations run one after another, mails included. Beyond these, TLC shows that with two workers
the history's newest row need not be the task's state (`assign_task` copies a
stale instance), and that with the Admin an assignee may have been told nothing;
no document says otherwise, so they are recorded as hazards. Two things were met
that contradict a docstring and have no run: raising the priority of an existing task to Urgent
tells nobody (only `create_task` calls `notify_urgent`), though
`notifications/services.py` 75 says "priority set to Urgent notifies the assignee plus
every manager/admin"; and a revert in the Admin writes a status, though `tasks/admin.py` 42-45
says no admin action may do so directly. `TaskLifecycle` states what is left of the
second: a revert gives a task no status it has not had.

## 7. Not modelled

Comments append rows nobody decides by. What a mail, a CSV file or a JSON answer
looks like, forms, templates, text search and demo data carry no state.
Branches and categories are carried along by tasks. Login, sessions and CSRF are
Django's. Roles are constant in the model. The size and type rules of uploads are
left out: they refuse a request before it does anything. The deletion of a user
deletes his notices; the users of `BranchTasks` and `Transactions` are constant, and
`Accounts` has no notices. A revert in the Admin is several transactions in
simple-history, as nothing makes the page atomic; it is one step here, and left out of
`Transactions` and `AlertJob`. Lists are read from a table
that does not change between two pages; when it does, any page may be off by what
changed. Settings and deployment files choose the instances checked (one worker or
several). Migrations are generated from the models. SQLite, the development
database, locks as a whole: `Transactions` is about PostgreSQL.

## 8. Plan

Done, in this order: policy and task service; lifecycle and refinement;
notifications and their composition; alert job; attachments and backup; read side;
accounts; proofs about the task service and the attachments; transactions with
mails and locks; lists; deletion of users; proofs about accounts and transactions; numbers of
tasks; proofs about the application, the job, the notices of transactions, the
read side and the history next to deletions of users; reverts in the Admin and the
job notice by notice in the application.

Next, in order of importance:

1. Changes of role while requests are under way.
2. Comments together with the attachments that hang on them: the API accepts
   a comment of any task for an attachment (`tasks/serializers.py` 67-83), so the
   deletion of one task can cascade to an attachment of another.
3. The deletion of a user together with his notices.
