---------------------------- MODULE AccountsProofs ----------------------------
(***************************************************************************)
(* Proofs about Accounts, for any number of users, tasks and workers and   *)
(* any bound on the history.                                               *)
(***************************************************************************)
EXTENDS Accounts, TaskRequestsProofs

-----------------------------------------------------------------------------
(* A write of the task service or of the Admin appends to the history of   *)
(* its task, and touches no other one.                                     *)
LEMMA LogGrows ==
    ASSUME TypeOK, NEW x \in Task, NEW row, NEW u, NEW type,
           Log(x, row, u, type)
    PROVE  /\ \A t \in Task \ {x} : history'[t] = history[t]
           /\ Len(history[x]) \in Nat
           /\ Len(history'[x]) = Len(history[x]) + 1
           /\ Len(history'[x]) <= MaxSaves
<1> DEFINE e == [row |-> row, by |-> u, type |-> type]
<1>1. history[x] \in Seq(HistoryRow \cup {e})
  BY DEF TypeOK
<1>2. history'[x] = Append(history[x], e)
  BY DEF TypeOK, Log
<1>3. \A t \in Task \ {x} : history'[t] = history[t]
  BY DEF TypeOK, Log
<1>4. Len(history[x]) \in Nat /\ Len(history[x]) < MaxSaves
  BY <1>1 DEF Log
<1>. QED
  BY <1>1, <1>2, <1>3, <1>4, MaxSavesBounds

\* What a step may do to task t: nothing, or one more row of history.
Written(t) ==
    \/ db'[t] = db[t] /\ history'[t] = history[t]
    \/ /\ Len(history'[t]) = Len(history[t]) + 1
       /\ Len(history'[t]) <= MaxSaves

LEMMA LogWrites ==
    ASSUME TypeOK, NEW x \in Task, NEW row, NEW u, NEW type, NEW new,
           db' = [db EXCEPT ![x] = new], Log(x, row, u, type)
    PROVE  \A t \in Task : Written(t)
BY LogGrows DEF TypeOK, Written

LEMMA SaveWrites ==
    ASSUME TypeOK, NEW x \in Task, NEW inst, NEW u, save(x, inst, u)
    PROVE  \A t \in Task : Written(t)
BY LogWrites DEF save

LEMMA NextWrites ==
    ASSUME TypeOK, [Next]_vars
    PROVE  \A t \in Task : Written(t)
<1>1. ASSUME NEW w \in Worker, NEW u \in User, NEW t \in Task, load(w, u, t)
      PROVE  \A x \in Task : Written(x)
  BY <1>1 DEF load, Written
<1>2. ASSUME NEW w \in Worker, NEW u \in User, NEW t \in Task, create_task(w, u, t)
      PROVE  \A x \in Task : Written(x)
  BY <1>2, SaveWrites DEF create_task
<1>3. ASSUME NEW w \in Worker, NEW u \in User, NEW t \in Task,
             admin_add(w, u, t) \/ admin_revert(w, u, t)
      PROVE  \A x \in Task : Written(x)
  BY <1>3, AdminSaves, SaveWrites
<1>4. ASSUME NEW w \in Worker, NEW new \in Status, NEW blocker \in Blocker,
             change_status(w, new, blocker)
      PROVE  \A x \in Task : Written(x)
  BY <1>4, BusyType, SaveWrites DEF change_status, Loaded
<1>5. ASSUME NEW w \in Worker, NEW a \in Assignee, assign_task(w, a)
      PROVE  \A x \in Task : Written(x)
  <2>1. req[w].task \in Task
    BY <1>5, BusyType DEF assign_task, Loaded
  <2>2. db' = [db EXCEPT ![req[w].task] = [@ EXCEPT !.assignee = a]]
    BY <1>5 DEF assign_task
  <2>3. Log(req[w].task, [req[w].inst EXCEPT !.assignee = a], req[w].user, "~")
    BY <1>5 DEF assign_task
  <2>. QED
    BY <2>1, <2>2, <2>3, LogGrows DEF TypeOK, Written
<1>6. ASSUME NEW w \in Worker, update_task_fields(w)
      PROVE  \A x \in Task : Written(x)
  BY <1>6, BusyType, SaveWrites DEF update_task_fields
<1>7. ASSUME NEW w \in Worker, admin_change(w)
      PROVE  \A x \in Task : Written(x)
  BY <1>7, BusyType, SaveWrites DEF admin_change, Loaded
<1>8. ASSUME NEW w \in Worker, admin_delete(w)
      PROVE  \A x \in Task : Written(x)
  BY <1>8, BusyType, LogWrites DEF admin_delete, Loaded
<1>9. ASSUME NEW w \in Worker, drop_request(w)
      PROVE  \A x \in Task : Written(x)
  BY <1>9 DEF drop_request, Written
<1>10. CASE UNCHANGED vars
  BY <1>10 DEF vars, Written
<1>. QED
  BY <1>1, <1>2, <1>3, <1>4, <1>5, <1>6, <1>7, <1>8, <1>9, <1>10 DEF Next

-----------------------------------------------------------------------------
(* What clean() saw: it saw no more history than there is now, and when u  *)
(* is being deactivated, or is inactive, whatever active task he holds has *)
(* been written since.  The form must be in it: between clean() and the    *)
(* save of the account the user is still active.                           *)
LookedAt ==
    \A u \in User : \A t \in Task :
        /\ seen[u][t] <= Len(history[t])
        /\ ((u \in form \/ ~ active[u]) /\ Holds(u, t, ACTIVE_STATUSES))
               => seen[u][t] < Len(history[t])

Bounded == \A t \in Task : Len(history[t]) \in 0 .. MaxSaves

AccInv == AccTypeOK /\ Bounded /\ LookedAt

LEMMA AccInit_AccInv == AccInit => AccInv
<1> SUFFICES ASSUME AccInit PROVE AccInv
  OBVIOUS
<1>1. TypeOK
  BY TypeInit DEF AccInit
<1>2. \A t \in Task : db[t] = NoRow /\ watchers[t] = {} /\ history[t] = <<>>
  BY DEF AccInit, Init
<1>3. \A t \in Task : References(t, exists)
  BY <1>2 DEF References
<1>4. \A t \in Task : Len(history[t]) = 0
  <2>1. Len(<<>>) = 0
    OBVIOUS
  <2>. QED
    BY <1>2, <2>1
<1>5. Bounded
  <2> SUFFICES ASSUME NEW t \in Task PROVE Len(history[t]) \in 0 .. MaxSaves
    BY DEF Bounded
  <2>. QED
    BY <1>4, MaxSavesBounds
<1>6. LookedAt
  <2>1. \A u \in User : \A t \in Task : seen[u][t] = 0
    BY DEF AccInit
  <2> SUFFICES ASSUME NEW u \in User, NEW t \in Task
               PROVE  /\ seen[u][t] <= Len(history[t])
                      /\ ~ Holds(u, t, ACTIVE_STATUSES)
    BY DEF LookedAt
  <2>. QED
    BY <1>2, <1>4, <2>1 DEF Holds
<1>7. seen \in [User -> [Task -> 0 .. MaxSaves]]
  BY MaxSavesBounds DEF AccInit
<1>. QED
  BY <1>1, <1>3, <1>5, <1>6, <1>7 DEF AccInv, AccTypeOK, AccInit

(* The steps of the Django Admin on the account.                           *)
LEMMA CleanStep ==
    ASSUME AccInv, NEW u \in User, clean(u)
    PROVE  AccInv'
<1>1. /\ UNCHANGED <<db, watchers, history, req, exists, active, gone>>
      /\ form' = form \cup {u}
      /\ seen' = [seen EXCEPT ![u] = [t \in Task |-> Len(history[t])]]
      /\ \A t \in Task : ~ Holds(u, t, ACTIVE_STATUSES)
  BY DEF clean, vars, assert_can_deactivate
<1>2. TypeOK' /\ Bounded'
  BY <1>1 DEF AccInv, AccTypeOK, TypeOK, Bounded
<1>3. \A t \in Task : References(t, exists)'
  BY <1>1 DEF AccInv, AccTypeOK, References
<1>4. seen' \in [User -> [Task -> 0 .. MaxSaves]]
  BY <1>1 DEF AccInv, AccTypeOK, Bounded
<1>5. \A v \in User : \A t \in Task :
          seen'[v][t] = IF v = u THEN Len(history[t]) ELSE seen[v][t]
  BY <1>1 DEF AccInv, AccTypeOK
<1>6. \A v \in User : \A t \in Task :
          Holds(v, t, ACTIVE_STATUSES)' <=> Holds(v, t, ACTIVE_STATUSES)
  BY <1>1 DEF Holds
<1>7. \A t \in Task : Len(history[t]) \in Int
  <2> SUFFICES ASSUME NEW t \in Task PROVE Len(history[t]) \in Int
    OBVIOUS
  <2>. QED
    BY MaxSavesBounds DEF AccInv, Bounded
<1>8. LookedAt'
  BY <1>1, <1>5, <1>6, <1>7 DEF AccInv, LookedAt
<1>. QED
  BY <1>1, <1>2, <1>3, <1>4, <1>8 DEF AccInv, AccTypeOK

LEMMA SaveUserStep ==
    ASSUME AccInv, NEW u \in User, save_user(u)
    PROVE  AccInv'
<1>1. /\ UNCHANGED <<db, watchers, history, req, seen, gone>>
      /\ u \in form
      /\ form' = form \ {u}
      /\ exists' = exists \cup {u}
      /\ active' = [active EXCEPT ![u] = FALSE]
  BY DEF save_user, vars
<1>2. TypeOK' /\ Bounded'
  BY <1>1 DEF AccInv, AccTypeOK, TypeOK, Bounded
<1>3. \A t \in Task : References(t, exists)'
  BY <1>1 DEF AccInv, AccTypeOK, References
<1>4. \A v \in User : active'[v] = IF v = u THEN FALSE ELSE active[v]
  BY <1>1 DEF AccInv, AccTypeOK
<1>5. \A v \in User : active'[v] => v \in exists'
  BY <1>1, <1>4 DEF AccInv, AccTypeOK
<1>6. \A v \in User : (v \in form' \/ ~ active'[v]) => (v \in form \/ ~ active[v])
  BY <1>1, <1>4
<1>7. LookedAt'
  BY <1>1, <1>6 DEF AccInv, LookedAt, Holds
<1>. QED
  BY <1>1, <1>2, <1>3, <1>5, <1>7 DEF AccInv, AccTypeOK

LEMMA ReactivateStep ==
    ASSUME AccInv, NEW u \in User, reactivate(u)
    PROVE  AccInv'
<1>1. /\ UNCHANGED <<db, watchers, history, req, exists, form, seen, gone>>
      /\ u \in exists
      /\ ~ active[u]
      /\ active' = [active EXCEPT ![u] = TRUE]
  BY DEF reactivate, vars
<1>2. TypeOK' /\ Bounded'
  BY <1>1 DEF AccInv, AccTypeOK, TypeOK, Bounded
<1>3. \A t \in Task : References(t, exists)'
  BY <1>1 DEF AccInv, AccTypeOK, References
<1>4. \A v \in User : active'[v] = IF v = u THEN TRUE ELSE active[v]
  BY <1>1 DEF AccInv, AccTypeOK
<1>5. \A v \in User : active'[v] => v \in exists'
  BY <1>1, <1>4 DEF AccInv, AccTypeOK
<1>6. \A v \in User : (v \in form' \/ ~ active'[v]) => (v \in form \/ ~ active[v])
  BY <1>1, <1>4
<1>7. LookedAt'
  BY <1>1, <1>6 DEF AccInv, LookedAt, Holds
<1>. QED
  BY <1>1, <1>2, <1>3, <1>5, <1>7 DEF AccInv, AccTypeOK

(* Taking a user's name off the history leaves the rest of it as it was.   *)
LEMMA Unsigned ==
    ASSUME TypeOK, NEW u \in User, deleted(u), NEW t \in Task
    PROVE  /\ history'[t] \in Seq(HistoryRow)
           /\ Len(history'[t]) = Len(history[t])
           /\ \A i \in 1 .. Len(history[t]) :
                  /\ history'[t][i].row = history[t][i].row
                  /\ history'[t][i].type = history[t][i].type
<1>1. PICK rows \in Seq(HistoryRow) : rows = history[t]
  BY DEF TypeOK
<1>2. history'[t] = unsigned(rows, u)
  BY <1>1 DEF deleted
<1>3. Len(rows) \in Nat /\ \A i \in 1 .. Len(rows) : rows[i] \in HistoryRow
  OBVIOUS
<1>4. ASSUME NEW i \in 1 .. Len(rows)
      PROVE  /\ unsigned(rows, u)[i] \in HistoryRow
             /\ unsigned(rows, u)[i].row = rows[i].row
             /\ unsigned(rows, u)[i].type = rows[i].type
  <2>1. rows[i] \in HistoryRow
    BY <1>3
  <2>2. unsigned(rows, u)[i] =
            IF rows[i].by = u THEN [rows[i] EXCEPT !.by = None] ELSE rows[i]
    BY DEF unsigned
  <2>. QED
    BY <2>1, <2>2 DEF HistoryRow, Assignee
<1>5. /\ unsigned(rows, u) \in Seq(HistoryRow)
      /\ Len(unsigned(rows, u)) = Len(rows)
  <2>1. unsigned(rows, u) \in [1 .. Len(rows) -> HistoryRow]
    BY <1>4 DEF unsigned
  <2>. QED
    BY <1>3, <2>1
<1>. QED
  BY <1>1, <1>2, <1>4, <1>5

(* Who is deleted opened no task that is left, watches none any more, and  *)
(* holds none: nothing refers to him.                                      *)
LEMMA DeleteUserStep ==
    ASSUME AccInv, NEW u \in User, delete_user(u)
    PROVE  AccInv'
<1>1. /\ UNCHANGED <<req, form, seen>>
      /\ history' = [t \in Task |-> unsigned(history[t], u)]
      /\ exists' = exists \ {u}
      /\ gone' = gone \cup {u}
      /\ active' = [active EXCEPT ![u] = FALSE]
      /\ watchers' = [t \in Task |-> watchers[t] \ {u}]
      /\ db' = [t \in Task |-> IF db[t] # NoRow /\ db[t].assignee = u
                               THEN [db[t] EXCEPT !.assignee = None] ELSE db[t]]
      /\ Opened(u) = {}
  BY DEF delete_user, deleted
<1> USE NoneIsNotAUser
<1>2. ASSUME NEW t \in Task
      PROVE  /\ db'[t] \in Row \cup {NoRow}
             /\ References(t, exists)'
             /\ \A v \in User : Holds(v, t, ACTIVE_STATUSES)'
                    => v # u /\ Holds(v, t, ACTIVE_STATUSES)
  <2>1. db[t] \in Row \cup {NoRow} /\ References(t, exists)
    BY DEF AccInv, AccTypeOK, TypeOK
  <2>2. watchers'[t] \subseteq exists'
    BY <1>1, <2>1 DEF References
  <2>3. CASE db[t] = NoRow
    <3>1. db'[t] = NoRow
      BY <1>1, <2>3
    <3>. QED
      BY <3>1, <2>2 DEF References, Holds
  <2>4. CASE db[t] # NoRow /\ db[t].assignee = u
    <3>1. db[t] \in Row /\ db[t].opened_by # u
      BY <1>1, <2>1, <2>4 DEF Opened
    <3>2. db'[t] = [db[t] EXCEPT !.assignee = None]
      BY <1>1, <2>4
    <3>3. /\ db'[t] \in Row
          /\ db'[t].assignee = None
          /\ db'[t].opened_by = db[t].opened_by
      BY <3>1, <3>2 DEF Row, Assignee
    <3>4. db'[t].opened_by = None \/ db'[t].opened_by \in exists'
      BY <1>1, <2>1, <2>4, <3>1, <3>3 DEF References
    <3>. QED
      BY <2>2, <3>3, <3>4 DEF References, Holds
  <2>5. CASE db[t] # NoRow /\ db[t].assignee # u
    <3>1. db[t] \in Row /\ db[t].opened_by # u
      BY <1>1, <2>1, <2>5 DEF Opened
    <3>2. db'[t] = db[t]
      BY <1>1, <2>5
    <3>3. {db'[t].assignee, db'[t].opened_by} \ {None} \subseteq exists'
      BY <1>1, <2>1, <2>5, <3>1, <3>2 DEF References
    <3>. QED
      BY <2>2, <2>5, <3>1, <3>2, <3>3 DEF References, Holds
  <2>. QED
    BY <2>3, <2>4, <2>5
<1>3. db' \in [Task -> Row \cup {NoRow}]
  BY <1>1, <1>2
<1>10. \A t \in Task : /\ history'[t] \in Seq(HistoryRow)
                       /\ Len(history'[t]) = Len(history[t])
  BY Unsigned DEF delete_user, AccInv, AccTypeOK
<1>11. history' \in [Task -> Seq(HistoryRow)]
  BY <1>1, <1>10
<1>12. watchers' \in [Task -> SUBSET User]
  BY <1>1 DEF AccInv, AccTypeOK, TypeOK
<1>4. TypeOK' /\ Bounded'
  BY <1>1, <1>3, <1>10, <1>11, <1>12 DEF AccInv, AccTypeOK, TypeOK, Bounded
<1>5. \A v \in User : active'[v] = IF v = u THEN FALSE ELSE active[v]
  BY <1>1 DEF AccInv, AccTypeOK
<1>6. \A v \in User : active'[v] => v \in exists'
  BY <1>1, <1>5 DEF AccInv, AccTypeOK
<1>7. LookedAt'
  <2> SUFFICES ASSUME NEW v \in User, NEW t \in Task
               PROVE  /\ seen[v][t] <= Len(history[t])
                      /\ ((v \in form \/ ~ active'[v])
                              /\ Holds(v, t, ACTIVE_STATUSES)')
                             => seen[v][t] < Len(history[t])
    <3>1. form' = form /\ seen' = seen
      BY <1>1
    <3>. QED
      BY <3>1, <1>10 DEF LookedAt
  <2>. QED
    BY <1>2, <1>5 DEF AccInv, LookedAt
<1>8. active' \in [User -> BOOLEAN]
  BY <1>1 DEF AccInv, AccTypeOK
<1>9. User \ exists' \subseteq gone' /\ gone' \subseteq User
  BY <1>1 DEF AccInv, AccTypeOK
<1>. QED
  BY <1>1, <1>2, <1>4, <1>6, <1>7, <1>8, <1>9 DEF AccInv, AccTypeOK

-----------------------------------------------------------------------------
(* A request leaves the accounts alone, and writes no task without a row   *)
(* of history.                                                             *)
LEMMA RequestsAreSteps == Requests => Next
BY DEF Requests, Next

LEMMA RequestStep ==
    ASSUME AccInv, Next, UNCHANGED accountVars,
           \A t \in Task : References(t, exists)'
    PROVE  AccInv'
<1>1. TypeOK'
  BY TypeNext DEF AccInv, AccTypeOK
<1>2. \A t \in Task : Written(t)
  BY NextWrites DEF AccInv, AccTypeOK
<1>3. \A t \in Task : /\ Len(history[t]) \in 0 .. MaxSaves
                      /\ Len(history'[t]) \in 0 .. MaxSaves
                      /\ Len(history[t]) <= Len(history'[t])
  BY <1>2, MaxSavesBounds DEF AccInv, Bounded, Written
<1>4. ASSUME NEW u \in User, NEW t \in Task
      PROVE  /\ seen[u][t] <= Len(history'[t])
             /\ ((u \in form \/ ~ active[u]) /\ Holds(u, t, ACTIVE_STATUSES)')
                    => seen[u][t] < Len(history'[t])
  <2>1. seen[u][t] \in Int /\ seen[u][t] <= Len(history[t])
    BY DEF AccInv, AccTypeOK, LookedAt
  <2>2. CASE db'[t] = db[t] /\ history'[t] = history[t]
    BY <2>1, <2>2 DEF AccInv, LookedAt, Holds
  <2>3. CASE Len(history'[t]) = Len(history[t]) + 1
    BY <2>1, <2>3, <1>3
  <2>. QED
    BY <1>2, <2>2, <2>3 DEF Written
<1>5. LookedAt'
  BY <1>4 DEF LookedAt, accountVars
<1>. QED
  BY <1>1, <1>3, <1>5 DEF AccInv, AccTypeOK, Bounded, accountVars

LEMMA StutterStep ==
    ASSUME AccInv, UNCHANGED allVars
    PROVE  AccInv'
BY DEF AccInv, AccTypeOK, TypeOK, Bounded, LookedAt, References, Holds,
       allVars, vars, accountVars

LEMMA AccNext_AccInv == AccInv /\ [AccNext]_allVars => AccInv'
<1> SUFFICES ASSUME AccInv, [AccNext]_allVars PROVE AccInv'
  OBVIOUS
<1>1. CASE Requests
  <2>1. UNCHANGED accountVars /\ \A t \in Task : References(t, exists)'
    BY <1>1 DEF Requests
  <2>. QED
    BY <1>1, <2>1, RequestsAreSteps, RequestStep
<1>2. ASSUME NEW u \in User,
             clean(u) \/ save_user(u) \/ reactivate(u) \/ delete_user(u)
      PROVE  AccInv'
  BY <1>2, CleanStep, SaveUserStep, ReactivateStep, DeleteUserStep
<1>. QED
  BY <1>1, <1>2, StutterStep DEF AccNext

LEMMA AccSpec_AccInv == AccSpec => []AccInv
BY AccInit_AccInv, AccNext_AccInv, PTL DEF AccSpec

(* Tasks, watchers and accounts have the right types, and no task refers   *)
(* to a user who is gone (tasks/models.py 42-56, accounts/admin.py).       *)
THEOREM AccTypeCorrect == AccSpec => []AccTypeOK
<1>1. AccInv => AccTypeOK
  BY DEF AccInv
<1>. QED
  BY <1>1, AccSpec_AccInv, PTL

(* The guard orphans nothing: whatever the users, the tasks and the number *)
(* of concurrent requests, an active task of an inactive user was written  *)
(* after the guard looked at it (accounts/validators.py 9-23).             *)
THEOREM OrphansAlwaysLater == AccSpec => []OrphansMadeLater
<1>1. AccInv => OrphansMadeLater
  BY DEF AccInv, AccTypeOK, Bounded, LookedAt, OrphansMadeLater, Orphan
<1>. QED
  BY <1>1, AccSpec_AccInv, PTL

-----------------------------------------------------------------------------
(* The audit trail next to the deletion of users.  A row that was read, or *)
(* logged, is still the stored one, but for an assignee who was deleted    *)
(* while it was his.  With one worker that holds for the instance of the   *)
(* request under way too, which is why it logs what it leaves behind.      *)
Kept(row, stored) ==
    \/ stored = row
    \/ stored = [row EXCEPT !.assignee = None] /\ row.assignee \in gone

InstancesKept == \A w \in Worker : Busy(w) => Kept(req[w].inst, db[req[w].task])

TrailInv == InstancesKept /\ OnlyUserDeletionIsUnlogged

LEMMA AssignKept ==
    ASSUME NEW row \in Row, NEW stored, Kept(row, stored), NEW a
    PROVE  [stored EXCEPT !.assignee = a] = [row EXCEPT !.assignee = a]
<1>1. CASE stored = row
  BY <1>1
<1>2. CASE stored = [row EXCEPT !.assignee = None]
  BY <1>2 DEF Row
<1>. QED
  BY <1>1, <1>2 DEF Kept

LEMMA TrailWrite ==
    ASSUME TypeOK, OnlyUserDeletionIsUnlogged, UNCHANGED gone,
           NEW x \in Task, NEW e \in HistoryRow, Appended(x, e),
           \A t \in Task \ {x} : db'[t] = db[t],
           IF db'[x] = NoRow THEN e.type = "-"
           ELSE e.type # "-" /\ e.row = db'[x]
    PROVE  OnlyUserDeletionIsUnlogged'
<1>1. history'[x][Len(history'[x])] = e
  BY AppendedHistory
<1>2. \A t \in Task \ {x} : history'[t] = history[t]
  BY AppendedHistory
<1>. QED
  BY <1>1, <1>2 DEF OnlyUserDeletionIsUnlogged

LEMMA TrailSave ==
    ASSUME TypeOK, OnlyUserDeletionIsUnlogged, UNCHANGED gone,
           NEW t \in Task, NEW inst \in Row, NEW u \in User, save(t, inst, u)
    PROVE  OnlyUserDeletionIsUnlogged'
<1> DEFINE e == Entry(t, inst, u)
<1>1. /\ e \in HistoryRow /\ e.row = inst /\ Appended(t, e)
      /\ db'[t] = inst /\ \A x \in Task \ {t} : db'[x] = db[x]
  BY SaveAppends
<1>2. e.type # "-" /\ db'[t] # NoRow
  BY <1>1, NoRowIsNotARow DEF Entry
<1> HIDE DEF e
<1>. QED
  BY <1>1, <1>2, TrailWrite

(* assign_task writes one column and logs the instance: they agree, since  *)
(* at most that column of the instance was out of date.                    *)
LEMMA TrailAssign ==
    ASSUME TypeOK, TrailInv, UNCHANGED gone,
           NEW w \in Worker, NEW a \in Assignee, assign_task(w, a)
    PROVE  /\ OnlyUserDeletionIsUnlogged'
           /\ req[w].task \in Task /\ req[w].inst \in Row
           /\ db'[req[w].task] = [req[w].inst EXCEPT !.assignee = a]
<1>1. Busy(w)
  BY DEF assign_task, Loaded
<1>2. PICK t \in Task, u \in User, inst \in Row :
          t = req[w].task /\ u = req[w].user /\ inst = req[w].inst
  BY <1>1, BusyType
<1> DEFINE row == [inst EXCEPT !.assignee = a]
           e == [row |-> row, by |-> u, type |-> "~"]
<1>3. row \in Row
  BY DEF Row
<1>4. e \in HistoryRow /\ Appended(t, e)
  BY <1>2, <1>3 DEF assign_task, Log, Appended, HistoryRow, Assignee
<1>5. db'[t] = row /\ \A x \in Task \ {t} : db'[x] = db[x]
  <2>1. db' = [db EXCEPT ![t] = [@ EXCEPT !.assignee = a]]
    BY <1>2 DEF assign_task
  <2>2. [db[t] EXCEPT !.assignee = a] = row
    BY <1>1, <1>2, AssignKept DEF TrailInv, InstancesKept
  <2>. QED
    BY <2>1, <2>2 DEF TypeOK
<1>6. e.row = row /\ e.type # "-" /\ row # NoRow
  BY <1>3, NoRowIsNotARow
<1> HIDE DEF e
<1>7. OnlyUserDeletionIsUnlogged'
  BY <1>4, <1>5, <1>6, TrailWrite DEF TrailInv
<1>. QED
  BY <1>2, <1>5, <1>7

LEMMA TrailRequest ==
    ASSUME TypeOK, TrailInv, Next, UNCHANGED gone
    PROVE  OnlyUserDeletionIsUnlogged'
<1> USE Inputs DEF TrailInv
<1>1. ASSUME db' = db, history' = history
      PROVE  OnlyUserDeletionIsUnlogged'
  BY <1>1 DEF OnlyUserDeletionIsUnlogged
<1>2. ASSUME NEW w \in Worker, NEW u \in User, NEW t \in Task, create_task(w, u, t)
      PROVE  OnlyUserDeletionIsUnlogged'
  <2>1. PICK row \in Row : save(t, row, u)
    BY <1>2 DEF create_task, Row, Status, Stamp, Blocker
  <2>. QED
    BY <2>1, TrailSave
<1>3. ASSUME NEW w \in Worker, NEW u \in User, NEW t \in Task,
             admin_add(w, u, t) \/ admin_revert(w, u, t)
      PROVE  OnlyUserDeletionIsUnlogged'
  BY <1>3, AdminSaves, TrailSave
<1>4. ASSUME NEW w \in Worker, NEW new \in Status, NEW blocker \in Blocker,
             change_status(w, new, blocker)
      PROVE  OnlyUserDeletionIsUnlogged'
  BY <1>4, BusyType, MovedIsRow, TrailSave DEF change_status, Loaded
<1>5. ASSUME NEW w \in Worker, NEW a \in Assignee, assign_task(w, a)
      PROVE  OnlyUserDeletionIsUnlogged'
  BY <1>5, TrailAssign
<1>6. ASSUME NEW w \in Worker, update_task_fields(w)
      PROVE  OnlyUserDeletionIsUnlogged'
  <2>1. PICK p \in PriorityInput \cup {req[w].inst.priority} :
            save(req[w].task, [req[w].inst EXCEPT !.priority = p], req[w].user)
    BY <1>6 DEF update_task_fields
  <2>2. req[w].task \in Task /\ req[w].user \in User
            /\ [req[w].inst EXCEPT !.priority = p] \in Row
    BY <1>6, BusyType DEF update_task_fields, Row
  <2>. QED
    BY <2>1, <2>2, TrailSave
<1>7. ASSUME NEW w \in Worker, admin_change(w)
      PROVE  OnlyUserDeletionIsUnlogged'
  <2>1. PICK sent \in FormInput :
            save(req[w].task, filled(req[w].inst, sent), req[w].user)
    BY <1>7 DEF admin_change
  <2>2. req[w].task \in Task /\ req[w].user \in User /\ req[w].inst \in Row
    BY <1>7, BusyType DEF admin_change, Loaded
  <2>3. filled(req[w].inst, sent) \in Row
    BY <2>2, FilledIsRow
  <2>. QED
    BY <2>1, <2>2, <2>3, TrailSave
<1>8. ASSUME NEW w \in Worker, admin_delete(w)
      PROVE  OnlyUserDeletionIsUnlogged'
  <2> DEFINE e == [row |-> req[w].inst, by |-> req[w].user, type |-> "-"]
  <2>1. req[w].task \in Task /\ e \in HistoryRow /\ Appended(req[w].task, e)
    BY <1>8, BusyType
       DEF admin_delete, Loaded, Log, Appended, HistoryRow, Assignee
  <2>2. /\ db'[req[w].task] = NoRow
        /\ \A x \in Task \ {req[w].task} : db'[x] = db[x]
    BY <1>8, <2>1 DEF admin_delete, TypeOK
  <2>3. e.type = "-"
    OBVIOUS
  <2> HIDE DEF e
  <2>. QED
    BY <2>1, <2>2, <2>3, TrailWrite
<1>. QED
  BY <1>1, <1>2, <1>3, <1>4, <1>5, <1>6, <1>7, <1>8 DEF Next, load, drop_request

LEMMA SerialInstances ==
    ASSUME NEW w0, Worker = {w0}, TypeOK, TrailInv, Next, UNCHANGED gone
    PROVE  InstancesKept'
<1>1. ASSUME NEW w \in Worker, finish(w)
      PROVE  InstancesKept'
  BY <1>1 DEF finish, TypeOK, InstancesKept, Busy
<1>2. ASSUME NEW w \in Worker, NEW u \in User, NEW t \in Task, load(w, u, t)
      PROVE  InstancesKept'
  BY <1>2 DEF load, TypeOK, InstancesKept, Kept
<1>3. ASSUME NEW w \in Worker, req[w] = Idle, req' = req
      PROVE  InstancesKept'
  BY <1>3 DEF InstancesKept, Busy
<1>4. ASSUME NEW w \in Worker, NEW a \in Assignee, assign_task(w, a)
      PROVE  InstancesKept'
  <2>1. CASE finish(w)
    BY <1>1, <2>1
  <2>2. CASE req' = [req EXCEPT ![w].stage = "assigned",
                                ![w].inst = [req[w].inst EXCEPT !.assignee = a]]
    <3>1. req[w] \in Request
      BY <1>4, BusyType DEF assign_task, Loaded
    <3>2. /\ req'[w].task = req[w].task
          /\ req'[w].inst = [req[w].inst EXCEPT !.assignee = a]
      BY <2>2, <3>1 DEF TypeOK, Request
    <3>3. db'[req[w].task] = [req[w].inst EXCEPT !.assignee = a]
      BY <1>4, TrailAssign
    <3>. QED
      BY <3>2, <3>3 DEF InstancesKept, Kept
  <2>. QED
    BY <1>4, <2>1, <2>2 DEF assign_task
<1>. QED
  BY <1>1, <1>2, <1>3, <1>4
     DEF Next, create_task, admin_add, admin_revert, change_status,
         update_task_fields, admin_change, admin_delete, drop_request

(* Whoever is deleted is taken out of the stored row, and of no other      *)
(* copy of it.                                                             *)
LEMMA TrailDelete ==
    ASSUME TypeOK, TrailInv, NEW u \in User, delete_user(u)
    PROVE  TrailInv'
<1>1. /\ UNCHANGED req /\ gone' = gone \cup {u}
      /\ db' = [t \in Task |-> IF db[t] # NoRow /\ db[t].assignee = u
                               THEN [db[t] EXCEPT !.assignee = None] ELSE db[t]]
  BY DEF delete_user, deleted
<1>2. ASSUME NEW t \in Task, NEW row \in Row, Kept(row, db[t])
      PROVE  Kept(row, db[t])'
  <2>1. CASE db[t] = [row EXCEPT !.assignee = None] /\ row.assignee \in gone
    <3>1. db[t].assignee = None
      BY <2>1 DEF Row
    <3>2. db'[t] = db[t]
      BY <1>1, <3>1, NoneIsNotAUser
    <3>. QED
      BY <1>1, <2>1, <3>2 DEF Kept
  <2>2. CASE db[t] = row
    <3>1. db'[t] = row \/ (db'[t] = [row EXCEPT !.assignee = None]
                              /\ row.assignee = u)
      BY <1>1, <2>2
    <3>. QED
      BY <1>1, <3>1 DEF Kept
  <2>. QED
    BY <1>2, <2>1, <2>2 DEF Kept
<1>3. InstancesKept'
  <2> SUFFICES ASSUME NEW w \in Worker, Busy(w)
               PROVE  Kept(req[w].inst, db[req[w].task])'
    BY <1>1 DEF InstancesKept, Busy
  <2>1. req[w].task \in Task /\ req[w].inst \in Row
    BY BusyType
  <2>2. Kept(req[w].inst, db[req[w].task])
    BY DEF TrailInv, InstancesKept
  <2> DEFINE t == req[w].task
             row == req[w].inst
  <2>3. t' = t /\ row' = row
    BY <1>1
  <2>4. Kept(row, db[t])'
    BY <1>1, <1>2, <2>1, <2>2, <2>3 DEF Kept
  <2>. QED
    BY <2>4
<1>4. OnlyUserDeletionIsUnlogged'
  <2> SUFFICES ASSUME NEW t \in Task, history'[t] # <<>>
               PROVE  LET last == history'[t][Len(history'[t])]
                      IN  IF last.type = "-" THEN db'[t] = NoRow
                          ELSE \/ db'[t] = last.row
                               \/ /\ db'[t] = [last.row EXCEPT !.assignee = None]
                                  /\ last.row.assignee \in gone'
    BY DEF OnlyUserDeletionIsUnlogged
  <2> DEFINE last == history[t][Len(history[t])]
             now == history'[t][Len(history'[t])]
  <2>1. last \in HistoryRow /\ now.row = last.row /\ now.type = last.type
    <3>1. /\ history[t] \in Seq(HistoryRow)
          /\ history'[t] \in Seq(HistoryRow)
          /\ Len(history'[t]) = Len(history[t])
          /\ \A i \in 1 .. Len(history[t]) :
                 /\ history'[t][i].row = history[t][i].row
                 /\ history'[t][i].type = history[t][i].type
      BY Unsigned DEF delete_user, TypeOK
    <3>2. Len(history[t]) \in 1 .. Len(history[t])
      BY <3>1
    <3>. QED
      BY <3>1, <3>2
  <2>2. last.row \in Row
    BY <2>1 DEF HistoryRow
  <2>3. IF last.type = "-" THEN db[t] = NoRow ELSE Kept(last.row, db[t])
    <3>1. history[t] # <<>>
      BY Unsigned DEF delete_user, TypeOK
    <3>. QED
      BY <3>1 DEF TrailInv, OnlyUserDeletionIsUnlogged, Kept
  <2> HIDE DEF last, now
  <2>4. CASE last.type = "-"
    BY <1>1, <2>1, <2>3, <2>4 DEF now
  <2>5. CASE last.type # "-"
    <3>1. PICK row \in Row : row = last.row
      BY <2>2
    <3>2. Kept(row, db[t])
      BY <2>3, <2>5, <3>1
    <3>3. \/ db'[t] = row
          \/ db'[t] = [row EXCEPT !.assignee = None] /\ row.assignee \in gone'
      BY <1>2, <3>2 DEF Kept
    <3>4. now.row = row /\ now.type # "-"
      BY <2>1, <2>5, <3>1
    <3>. QED
      BY <3>3, <3>4 DEF now
  <2>. QED
    BY <2>4, <2>5
<1>. QED
  BY <1>3, <1>4 DEF TrailInv

(* With one worker the newest history row of a task is the task, or its    *)
(* deletion, but for an assignee who was deleted while it was his          *)
(* (tasks/models.py 45-51, 66).                                            *)
THEOREM SerialTrailLosesOnlyAssignees ==
    ASSUME NEW w0, Worker = {w0}
    PROVE  AccSpec => []OnlyUserDeletionIsUnlogged
<1>1. AccInit => TrailInv
  BY DEF AccInit, Init, TrailInv, InstancesKept, OnlyUserDeletionIsUnlogged, Busy
<1>2. AccInv /\ TrailInv /\ [AccNext]_allVars => TrailInv'
  <2> SUFFICES ASSUME AccInv, TrailInv, [AccNext]_allVars PROVE TrailInv'
    OBVIOUS
  <2>1. TypeOK
    BY DEF AccInv, AccTypeOK
  <2>2. CASE Requests
    <3>1. Next /\ UNCHANGED gone
      BY <2>2, RequestsAreSteps DEF Requests, accountVars
    <3>. QED
      BY <2>1, <3>1, TrailRequest, SerialInstances DEF TrailInv
  <2>3. ASSUME NEW u \in User, delete_user(u) PROVE TrailInv'
    BY <2>1, <2>3, TrailDelete
  <2>4. CASE UNCHANGED <<vars, gone>>
    BY <2>4 DEF vars, TrailInv, InstancesKept, OnlyUserDeletionIsUnlogged,
                Kept, Busy
  <2>. QED
    BY <2>2, <2>3, <2>4
       DEF AccNext, clean, save_user, reactivate, allVars, accountVars
<1>3. TrailInv => OnlyUserDeletionIsUnlogged
  BY DEF TrailInv
<1>. QED
  BY <1>1, <1>2, <1>3, AccSpec_AccInv, PTL DEF AccSpec
=============================================================================
