-------------------------- MODULE TaskRequestsProofs --------------------------
(***************************************************************************)
(* Proofs about TaskRequests, for any number of users, tasks, workers and  *)
(* any bound on the history.                                               *)
(***************************************************************************)
EXTENDS TaskRequests, TLAPS

(* A status change keeps a row a row.                                      *)
LEMMA MovedIsRow ==
    ASSUME NEW inst \in Row, NEW new \in Status, NEW blocker \in Blocker
    PROVE  moved(inst, new, blocker) \in Row
BY DEF moved, Row, Status, Stamp, Blocker

(* A status change that passes its checks keeps the CHECK constraints: the *)
(* stamps follow the status whatever the move (services.py 61-72).         *)
LEMMA MovedPassesChecks ==
    ASSUME NEW inst \in Row, NEW new \in Status, NEW blocker \in Blocker,
           checks(inst), new \in TRANSITIONS[inst.status]
    PROVE  checks(moved(inst, new, blocker))
<1>1. moved(inst, new, blocker).priority = inst.priority
  BY DEF moved, Row
<1>2. /\ inst.status \in Status
      /\ inst.completed_at \in Stamp
      /\ inst.cancelled_at \in Stamp
  BY DEF Row
<1>3. new # inst.status
  BY <1>2 DEF TRANSITIONS, Status
<1>4. /\ moved(inst, new, blocker).status = new
      /\ moved(inst, new, blocker).completed_at =
            IF new = "done" THEN "set"
            ELSE IF inst.status = "done" THEN "null" ELSE inst.completed_at
      /\ moved(inst, new, blocker).cancelled_at =
            IF new = "cancelled" THEN "set"
            ELSE IF inst.status = "cancelled" THEN "null" ELSE inst.cancelled_at
  BY DEF moved, Row
<1>5. completed_only_when_done(moved(inst, new, blocker))
  BY <1>2, <1>3, <1>4 DEF checks, completed_only_when_done, Stamp
<1>6. cancelled_only_when_cancelled(moved(inst, new, blocker))
  BY <1>2, <1>3, <1>4 DEF checks, cancelled_only_when_cancelled, Stamp
<1>. QED
  BY <1>1, <1>5, <1>6 DEF checks, task_priority_between_1_4

(* The Admin's form overrides some columns of an instance, never the status. *)
LEMMA FilledIsRow ==
    ASSUME NEW inst \in Row, NEW form \in FormInput
    PROVE  /\ filled(inst, form) \in Row
           /\ filled(inst, form).status = inst.status
           /\ filled(inst, form).assignee = form.assignee
           /\ filled(inst, form).opened_by = form.opened_by
           /\ form.assignee \in Assignee /\ form.opened_by \in User
BY Inputs DEF filled, Row

LEMMA BlankIsRow ==
    ASSUME NEW s \in Status, NEW u \in User
    PROVE  blank(s, u) \in Row /\ blank(s, u).status = s
BY DEF blank, Row, Stamp, Blocker, Assignee

LEMMA VersionIsRow ==
    ASSUME TypeOK, NEW t \in Task, NEW i \in 1 .. Len(history[t])
    PROVE  history[t][i].row \in Row
<1>1. history[t] \in Seq(HistoryRow)
  BY DEF TypeOK
<1>2. history[t][i] \in HistoryRow
  BY <1>1
<1>. QED
  BY <1>2 DEF HistoryRow

(* What an addition and a revert have in common: a worker that holds no    *)
(* instance saves a row for a user of the Admin.                           *)
LEMMA AdminSaves ==
    ASSUME TypeOK, NEW w \in Worker, NEW u \in User, NEW t \in Task,
           admin_add(w, u, t) \/ admin_revert(w, u, t)
    PROVE  /\ u \in Staff /\ req[w] = Idle /\ req' = req
           /\ \E row \in Row : save(t, row, u)
           /\ \E ws \in SUBSET User : watchers' = [watchers EXCEPT ![t] = ws]
<1> USE Inputs
<1>1. CASE admin_add(w, u, t)
  <2>1. PICK s \in Status, form \in FormInput, ws \in WatcherInput :
            /\ save(t, filled(blank(s, u), form), u)
            /\ watchers' = [watchers EXCEPT ![t] = ws]
    BY <1>1 DEF admin_add
  <2>2. filled(blank(s, u), form) \in Row
    BY BlankIsRow, FilledIsRow
  <2>. QED
    BY <1>1, <2>1, <2>2 DEF admin_add
<1>2. CASE admin_revert(w, u, t)
  <2>1. PICK i \in 1 .. Len(history[t]), form \in FormInput,
             ws \in WatcherInput :
            /\ save(t, filled(history[t][i].row, form), u)
            /\ watchers' = [watchers EXCEPT ![t] = ws]
    BY <1>2 DEF admin_revert
  <2>2. filled(history[t][i].row, form) \in Row
    BY VersionIsRow, FilledIsRow
  <2>. QED
    BY <1>2, <2>1, <2>2 DEF admin_revert
<1>. QED
  BY <1>1, <1>2

-----------------------------------------------------------------------------
(* What the saving operators do to the state, with the types they need.    *)
LEMMA SaveType ==
    ASSUME TypeOK, NEW t \in Task, NEW inst \in Row, NEW u \in User,
           save(t, inst, u)
    PROVE  /\ db' \in [Task -> Row \cup {NoRow}]
           /\ history' \in [Task -> Seq(HistoryRow)]
<1>1. db' \in [Task -> Row \cup {NoRow}]
  BY DEF TypeOK, save
<1>2. [row |-> inst, by |-> u, type |-> IF db[t] = NoRow THEN "+" ELSE "~"]
          \in HistoryRow
  BY DEF HistoryRow, Assignee
<1>3. history' = [history EXCEPT ![t] = Append(@,
          [row |-> inst, by |-> u, type |-> IF db[t] = NoRow THEN "+" ELSE "~"])]
  BY DEF save, Log
<1>. QED
  BY <1>1, <1>2, <1>3 DEF TypeOK

LEMMA BusyType ==
    ASSUME TypeOK, NEW w \in Worker, Busy(w)
    PROVE  /\ req[w] \in Request
           /\ req[w].user \in User
           /\ req[w].task \in Task
           /\ req[w].inst \in Row
BY DEF TypeOK, Busy, Request

LEMMA FinishType ==
    ASSUME TypeOK, NEW w \in Worker, finish(w)
    PROVE  req' \in [Worker -> Request \cup {Idle}]
BY DEF TypeOK, finish

LEMMA TypeInit == Init => TypeOK
BY DEF Init, TypeOK

LEMMA TypeNext == TypeOK /\ [Next]_vars => TypeOK'
<1> SUFFICES ASSUME TypeOK, [Next]_vars PROVE TypeOK'
  OBVIOUS
<1> USE Inputs
<1>1. ASSUME NEW w \in Worker, NEW u \in User, NEW t \in Task, load(w, u, t)
      PROVE  TypeOK'
  <2>1. db[t] \in Row
    BY <1>1 DEF load, TypeOK
  <2>2. [stage |-> "loaded", user |-> u, task |-> t, inst |-> db[t]] \in Request
    BY <2>1 DEF Request
  <2>. QED
    BY <1>1, <2>2 DEF load, TypeOK
<1>2. ASSUME NEW w \in Worker, NEW u \in User, NEW t \in Task, create_task(w, u, t)
      PROVE  TypeOK'
  <2>1. PICK a \in Assignee, p \in PriorityInput, ws \in WatcherInput :
            /\ save(t, [status |-> "new", completed_at |-> "null",
                        cancelled_at |-> "null", blocker |-> "blank",
                        assignee |-> a, opened_by |-> u, priority |-> p], u)
            /\ watchers' = [watchers EXCEPT ![t] = ws]
    BY <1>2 DEF create_task
  <2>2. [status |-> "new", completed_at |-> "null", cancelled_at |-> "null",
         blocker |-> "blank", assignee |-> a, opened_by |-> u,
         priority |-> p] \in Row
    BY DEF Row, Status, Stamp, Blocker
  <2>. QED
    BY <1>2, <2>1, <2>2, SaveType DEF create_task, TypeOK
<1>3. ASSUME NEW w \in Worker, NEW u \in User, NEW t \in Task,
             admin_add(w, u, t) \/ admin_revert(w, u, t)
      PROVE  TypeOK'
  <2>1. PICK row \in Row, ws \in SUBSET User :
            save(t, row, u) /\ watchers' = [watchers EXCEPT ![t] = ws]
    BY <1>3, AdminSaves
  <2>. QED
    BY <1>3, <2>1, AdminSaves, SaveType DEF TypeOK
<1>4. ASSUME NEW w \in Worker, NEW new \in Status, NEW blocker \in Blocker,
             change_status(w, new, blocker)
      PROVE  TypeOK'
  <2>1. Busy(w)
    BY <1>4 DEF change_status, Loaded
  <2>2. moved(req[w].inst, new, blocker) \in Row
    BY <2>1, BusyType, MovedIsRow
  <2>. QED
    BY <1>4, <2>1, <2>2, BusyType, SaveType, FinishType
       DEF change_status, TypeOK
<1>5. ASSUME NEW w \in Worker, NEW a \in Assignee, assign_task(w, a)
      PROVE  TypeOK'
  <2> DEFINE inst == [req[w].inst EXCEPT !.assignee = a]
  <2>1. Busy(w)
    BY <1>5 DEF assign_task, Loaded
  <2>2. inst \in Row
    BY <2>1, BusyType DEF Row
  <2>3. db' \in [Task -> Row \cup {NoRow}]
    <3>1. db[req[w].task] \in Row
      BY <1>5, <2>1, BusyType DEF assign_task, TypeOK
    <3>2. [db[req[w].task] EXCEPT !.assignee = a] \in Row
      BY <3>1 DEF Row
    <3>3. db' = [db EXCEPT ![req[w].task] = [@ EXCEPT !.assignee = a]]
      BY <1>5 DEF assign_task
    <3>. QED
      BY <3>2, <3>3, <2>1, BusyType DEF TypeOK
  <2>4. history' \in [Task -> Seq(HistoryRow)]
    <3>1. [row |-> inst, by |-> req[w].user, type |-> "~"] \in HistoryRow
      BY <2>1, <2>2, BusyType DEF HistoryRow, Assignee
    <3>2. history' = [history EXCEPT ![req[w].task] =
              Append(@, [row |-> inst, by |-> req[w].user, type |-> "~"])]
      BY <1>5 DEF assign_task, Log
    <3>. QED
      BY <3>1, <3>2, <2>1, BusyType DEF TypeOK
  <2>5. req' \in [Worker -> Request \cup {Idle}]
    <3>1. CASE finish(w)
      BY <3>1, FinishType
    <3>2. CASE req' = [req EXCEPT ![w].stage = "assigned", ![w].inst = inst]
      <4>1. [req[w] EXCEPT !.stage = "assigned", !.inst = inst] \in Request
        BY <2>1, <2>2, BusyType DEF Request
      <4>. QED
        BY <3>2, <4>1 DEF TypeOK
    <3>. QED
      BY <1>5, <3>1, <3>2 DEF assign_task
  <2>. QED
    BY <1>5, <2>3, <2>4, <2>5 DEF assign_task, TypeOK
<1>6. ASSUME NEW w \in Worker, update_task_fields(w)
      PROVE  TypeOK'
  <2>1. Busy(w)
    BY <1>6 DEF update_task_fields
  <2>2. PICK p \in PriorityInput \cup {req[w].inst.priority} :
            save(req[w].task, [req[w].inst EXCEPT !.priority = p], req[w].user)
    BY <1>6 DEF update_task_fields
  <2>3. [req[w].inst EXCEPT !.priority = p] \in Row
    BY <2>1, BusyType DEF Row
  <2>4. watchers' \in [Task -> SUBSET User]
    <3>1. CASE UNCHANGED watchers
      BY <3>1 DEF TypeOK
    <3>2. ASSUME NEW ws \in WatcherInput,
                 watchers' = [watchers EXCEPT ![req[w].task] = ws]
          PROVE  watchers' \in [Task -> SUBSET User]
      BY <3>2 DEF TypeOK
    <3>. QED
      BY <1>6, <3>1, <3>2 DEF update_task_fields
  <2>. QED
    BY <1>6, <2>1, <2>2, <2>3, <2>4, BusyType, SaveType, FinishType
       DEF update_task_fields, TypeOK
<1>7. ASSUME NEW w \in Worker, admin_change(w)
      PROVE  TypeOK'
  <2>1. Busy(w)
    BY <1>7 DEF admin_change, Loaded
  <2>2. PICK form \in FormInput, ws \in WatcherInput :
            /\ save(req[w].task, filled(req[w].inst, form), req[w].user)
            /\ watchers' = [watchers EXCEPT ![req[w].task] = ws]
    BY <1>7 DEF admin_change
  <2>3. filled(req[w].inst, form) \in Row
    BY <2>1, BusyType, FilledIsRow
  <2>. QED
    BY <1>7, <2>1, <2>2, <2>3, BusyType, SaveType, FinishType
       DEF admin_change, TypeOK
<1>8. ASSUME NEW w \in Worker, admin_delete(w)
      PROVE  TypeOK'
  <2>1. Busy(w)
    BY <1>8 DEF admin_delete, Loaded
  <2>2. [row |-> req[w].inst, by |-> req[w].user, type |-> "-"] \in HistoryRow
    BY <2>1, BusyType DEF HistoryRow, Assignee
  <2>3. history' \in [Task -> Seq(HistoryRow)]
    BY <1>8, <2>1, <2>2, BusyType DEF admin_delete, Log, TypeOK
  <2>. QED
    BY <1>8, <2>1, <2>3, BusyType, FinishType DEF admin_delete, TypeOK
<1>9. ASSUME NEW w \in Worker, drop_request(w)
      PROVE  TypeOK'
  BY <1>9, FinishType DEF drop_request, TypeOK
<1>10. CASE UNCHANGED vars
  BY <1>10 DEF vars, TypeOK
<1>. QED
  BY <1>1, <1>2, <1>3, <1>4, <1>5, <1>6, <1>7, <1>8, <1>9, <1>10 DEF Next

(* Type correctness.                                                       *)
THEOREM TypeCorrect == Spec => []TypeOK
BY TypeInit, TypeNext, PTL DEF Spec

-----------------------------------------------------------------------------
(* Every row, in the table and in the memory of a worker, satisfies the    *)
(* CHECK constraints, and without the Admin a waiting one has a blocker.   *)
(* The instances must be included: a stale one is written back whole, so   *)
(* what the table holds next is what some worker has held for a while.     *)
Good(row) ==
    /\ checks(row)
    /\ Staff = {} => (row.status = "waiting" => row.blocker = "text")

RowsGood ==
    /\ \A t \in Task : db[t] # NoRow => Good(db[t])
    /\ \A w \in Worker : Busy(w) => Good(req[w].inst)

LEMMA MovedIsGood ==
    ASSUME NEW inst \in Row, NEW u \in User,
           NEW new \in Status, NEW blocker \in Blocker,
           Good(inst), may_change_status(u, inst, new, blocker)
    PROVE  Good(moved(inst, new, blocker))
<1>1. checks(moved(inst, new, blocker))
  BY MovedPassesChecks DEF Good, may_change_status, entitled
<1>2. /\ moved(inst, new, blocker).status = new
      /\ new = "waiting" => moved(inst, new, blocker).blocker = blocker
  BY DEF moved, Row
<1>. QED
  BY <1>1, <1>2 DEF Good, may_change_status, Blocker

(* Writing a good row, and ending or keeping the request that wrote it.    *)
LEMMA GoodWrite ==
    ASSUME TypeOK, RowsGood, NEW t \in Task, NEW row \in Row, Good(row),
           db' = [db EXCEPT ![t] = row],
           \A w \in Worker : req'[w] = req[w] \/ req'[w] = Idle
    PROVE  RowsGood'
BY DEF TypeOK, RowsGood, Busy, Good

LEMMA FinishEnds ==
    ASSUME TypeOK, NEW w \in Worker, finish(w)
    PROVE  \A v \in Worker : req'[v] = req[v] \/ req'[v] = Idle
BY DEF TypeOK, finish

LEMMA RowsGoodNext == TypeOK /\ RowsGood /\ [Next]_vars => RowsGood'
<1> SUFFICES ASSUME TypeOK, RowsGood, [Next]_vars PROVE RowsGood'
  OBVIOUS
<1> USE Inputs
<1>1. ASSUME NEW w \in Worker, NEW u \in User, NEW t \in Task, load(w, u, t)
      PROVE  RowsGood'
  <2>1. Good(db[t])
    BY <1>1 DEF load, RowsGood
  <2>2. req'[w].inst = db[t] /\ \A v \in Worker \ {w} : req'[v] = req[v]
    BY <1>1 DEF load, TypeOK
  <2>. QED
    BY <1>1, <2>1, <2>2 DEF load, RowsGood, Busy, Good
<1>2. ASSUME NEW w \in Worker, NEW u \in User, NEW t \in Task, create_task(w, u, t)
      PROVE  RowsGood'
  <2>1. PICK a \in Assignee, p \in PriorityInput :
            save(t, [status |-> "new", completed_at |-> "null",
                     cancelled_at |-> "null", blocker |-> "blank",
                     assignee |-> a, opened_by |-> u, priority |-> p], u)
    BY <1>2 DEF create_task
  <2> DEFINE row == [status |-> "new", completed_at |-> "null",
                     cancelled_at |-> "null", blocker |-> "blank",
                     assignee |-> a, opened_by |-> u, priority |-> p]
  <2>2. row \in Row
    BY DEF Row, Status, Stamp, Blocker
  <2>3. Good(row) /\ db' = [db EXCEPT ![t] = row]
    BY <2>1 DEF save, Good
  <2>4. req' = req
    BY <1>2 DEF create_task
  <2> HIDE DEF row
  <2>. QED
    BY <2>2, <2>3, <2>4, GoodWrite
<1>3. ASSUME NEW w \in Worker, NEW u \in User, NEW t \in Task,
             admin_add(w, u, t) \/ admin_revert(w, u, t)
      PROVE  RowsGood'
  <2>1. PICK row \in Row : save(t, row, u)
    BY <1>3, AdminSaves
  <2>2. Staff # {} /\ req' = req
    BY <1>3, AdminSaves
  <2>3. Good(row) /\ db' = [db EXCEPT ![t] = row]
    BY <2>1, <2>2 DEF save, Good
  <2>. QED
    BY <2>2, <2>3, GoodWrite
<1>4. ASSUME NEW w \in Worker, NEW new \in Status, NEW blocker \in Blocker,
             change_status(w, new, blocker)
      PROVE  RowsGood'
  <2>1. Busy(w)
    BY <1>4 DEF change_status, Loaded
  <2>2. Good(req[w].inst)
    BY <2>1 DEF RowsGood
  <2>3. Good(moved(req[w].inst, new, blocker))
    BY <1>4, <2>1, <2>2, BusyType, MovedIsGood DEF change_status
  <2>4. moved(req[w].inst, new, blocker) \in Row
    BY <2>1, BusyType, MovedIsRow
  <2>. QED
    BY <1>4, <2>1, <2>3, <2>4, BusyType, FinishEnds, GoodWrite
       DEF change_status, save
<1>5. ASSUME NEW w \in Worker, NEW a \in Assignee, assign_task(w, a)
      PROVE  RowsGood'
  <2> DEFINE inst == [req[w].inst EXCEPT !.assignee = a]
             row == [db[req[w].task] EXCEPT !.assignee = a]
  <2>1. Busy(w) /\ req[w].task \in Task
    BY <1>5, BusyType DEF assign_task, Loaded
  <2>2. db[req[w].task] \in Row /\ Good(db[req[w].task])
    BY <1>5, <2>1 DEF assign_task, TypeOK, RowsGood
  <2>3. row \in Row /\ Good(row)
    BY <2>2 DEF Row, Good, checks, task_priority_between_1_4,
                completed_only_when_done, cancelled_only_when_cancelled
  <2>4. inst \in Row /\ Good(inst)
    <3>1. req[w].inst \in Row /\ Good(req[w].inst)
      BY <2>1, BusyType DEF RowsGood
    <3>. QED
      BY <3>1 DEF Row, Good, checks, task_priority_between_1_4,
                  completed_only_when_done, cancelled_only_when_cancelled
  <2>5. db' = [db EXCEPT ![req[w].task] = row]
    BY <1>5 DEF assign_task
  <2>6. CASE finish(w)
    <3> HIDE DEF row
    <3>. QED
      BY <2>1, <2>3, <2>5, <2>6, FinishEnds, GoodWrite
  <2>7. CASE req' = [req EXCEPT ![w].stage = "assigned", ![w].inst = inst]
    <3>1. req'[w].inst = inst /\ \A v \in Worker \ {w} : req'[v] = req[v]
      <4>1. req[w] \in Request
        BY <2>1, BusyType
      <4>. QED
        BY <2>7, <4>1 DEF TypeOK, Request
    <3>2. \A t \in Task : db'[t] = IF t = req[w].task THEN row ELSE db[t]
      BY <2>5 DEF TypeOK
    <3> HIDE DEF row, inst
    <3>. QED
      BY <2>3, <2>4, <3>1, <3>2 DEF RowsGood, Busy, Good
  <2>. QED
    BY <1>5, <2>6, <2>7 DEF assign_task
<1>6. ASSUME NEW w \in Worker, update_task_fields(w)
      PROVE  RowsGood'
  <2>1. Busy(w)
    BY <1>6 DEF update_task_fields
  <2>2. PICK p \in PriorityInput \cup {req[w].inst.priority} :
            save(req[w].task, [req[w].inst EXCEPT !.priority = p], req[w].user)
    BY <1>6 DEF update_task_fields
  <2> DEFINE row == [req[w].inst EXCEPT !.priority = p]
  <2>3. row \in Row
    BY <2>1, BusyType DEF Row
  <2>4. row.status = req[w].inst.status /\ row.blocker = req[w].inst.blocker
    BY <2>1, BusyType DEF Row
  <2>5. Good(row) /\ db' = [db EXCEPT ![req[w].task] = row]
    BY <2>1, <2>2, <2>4 DEF save, Good, RowsGood
  <2> HIDE DEF row
  <2>. QED
    BY <1>6, <2>1, <2>3, <2>5, BusyType, FinishEnds, GoodWrite
       DEF update_task_fields
<1>7. ASSUME NEW w \in Worker, admin_change(w)
      PROVE  RowsGood'
  <2>1. Busy(w) /\ Staff # {}
    BY <1>7 DEF admin_change, Loaded
  <2>2. PICK form \in FormInput :
            save(req[w].task, filled(req[w].inst, form), req[w].user)
    BY <1>7 DEF admin_change
  <2> DEFINE row == filled(req[w].inst, form)
  <2>3. row \in Row
    BY <2>1, BusyType, FilledIsRow
  <2>4. Good(row) /\ db' = [db EXCEPT ![req[w].task] = row]
    BY <2>1, <2>2 DEF save, Good
  <2> HIDE DEF row
  <2>. QED
    BY <1>7, <2>1, <2>3, <2>4, BusyType, FinishEnds, GoodWrite
       DEF admin_change
<1>8. ASSUME NEW w \in Worker, admin_delete(w)
      PROVE  RowsGood'
  <2>1. Busy(w)
    BY <1>8 DEF admin_delete, Loaded
  <2>. QED
    BY <1>8, <2>1, BusyType, FinishEnds
       DEF admin_delete, RowsGood, TypeOK, Busy, Good
<1>9. ASSUME NEW w \in Worker, drop_request(w)
      PROVE  RowsGood'
  BY <1>9, FinishEnds DEF drop_request, RowsGood, Busy, Good
<1>10. CASE UNCHANGED vars
  BY <1>10 DEF vars, RowsGood, Busy, Good
<1>. QED
  BY <1>1, <1>2, <1>3, <1>4, <1>5, <1>6, <1>7, <1>8, <1>9, <1>10 DEF Next

LEMMA RowsAlwaysGood == Spec => []RowsGood
<1>1. Init => RowsGood
  BY DEF Init, RowsGood, Busy
<1>. QED
  BY <1>1, RowsGoodNext, TypeCorrect, PTL DEF Spec

(* No status change that the service accepts is refused by the database.   *)
THEOREM StatusSavesAccepted == Spec => []StatusSaveAccepted
<1>1. TypeOK /\ RowsGood => StatusSaveAccepted
  <2> SUFFICES ASSUME TypeOK, RowsGood,
                      NEW w \in Worker, NEW new \in Status,
                      NEW blocker \in Blocker, Loaded(w),
                      may_change_status(req[w].user, req[w].inst, new, blocker)
               PROVE  checks(moved(req[w].inst, new, blocker))
    BY DEF StatusSaveAccepted
  <2>. QED
    BY BusyType, MovedPassesChecks
       DEF Loaded, RowsGood, Good, may_change_status, entitled
<1>. QED
  BY <1>1, TypeCorrect, RowsAlwaysGood, PTL

(* Without the Django Admin a task never waits without a blocker, however  *)
(* many workers race.                                                      *)
THEOREM WaitingTasksHaveBlockers ==
    ASSUME Staff = {}
    PROVE  Spec => []WaitingHasBlocker
<1>1. RowsGood => WaitingHasBlocker
  BY DEF RowsGood, Good, WaitingHasBlocker
<1>. QED
  BY <1>1, RowsAlwaysGood, PTL

-----------------------------------------------------------------------------
(* AssigneeGranted speaks of the history only; inductively, the assignee   *)
(* in the table and in each instance must have been granted as well, since *)
(* either can become the next history row.                                 *)
Granted(t, a) == GrantedBy(t, a, Len(history[t]))

AssigneesGranted ==
    /\ AssigneeGranted
    /\ \A t \in Task : db[t] # NoRow => Granted(t, db[t].assignee)
    /\ \A w \in Worker : Busy(w) => Granted(req[w].task, req[w].inst.assignee)

(* One more row in the history of x leaves every grant in place.           *)
Appended(x, e) == history' = [history EXCEPT ![x] = Append(@, e)]

LEMMA AppendedHistory ==
    ASSUME TypeOK, NEW x \in Task, NEW e \in HistoryRow, Appended(x, e)
    PROVE  /\ \A t \in Task \ {x} : history'[t] = history[t]
           /\ Len(history[x]) \in Nat
           /\ Len(history'[x]) = Len(history[x]) + 1
           /\ \A i \in 1 .. Len(history[x]) : history'[x][i] = history[x][i]
           /\ history'[x][Len(history[x]) + 1] = e
<1>1. history[x] \in Seq(HistoryRow)
  BY DEF TypeOK
<1>2. history'[x] = Append(history[x], e)
  BY DEF TypeOK, Appended
<1>3. \A t \in Task \ {x} : history'[t] = history[t]
  BY DEF TypeOK, Appended
<1>. QED
  BY <1>1, <1>2, <1>3

LEMMA GrantKept ==
    ASSUME TypeOK, NEW x \in Task, NEW e \in HistoryRow, Appended(x, e),
           NEW t \in Task, NEW a, NEW n \in 1 .. Len(history[t]),
           GrantedBy(t, a, n)
    PROVE  /\ GrantedBy(t, a, n)'
           /\ Granted(t, a)'
<1>1. \A j \in 1 .. n : history'[t][j] = history[t][j]
  BY AppendedHistory
<1>2. Len(history[t]) \in Nat /\ n <= Len(history'[t])
        /\ Len(history'[t]) \in Nat
  <2>1. history[t] \in Seq(HistoryRow)
    BY DEF TypeOK
  <2>. QED
    BY <2>1, AppendedHistory
<1>. QED
  BY <1>1, <1>2 DEF GrantedBy, Granted

LEMMA GrantInHistory ==
    ASSUME TypeOK, NEW t \in Task, NEW a, Granted(t, a)
    PROVE  Len(history[t]) \in 1 .. Len(history[t])
<1>1. history[t] \in Seq(HistoryRow)
  BY DEF TypeOK
<1>. QED
  BY <1>1 DEF Granted, GrantedBy

(* A history row whose assignee is granted, by itself or by an earlier     *)
(* row, together with a table and instances that hold nothing else.        *)
LEMMA GrantWrite ==
    ASSUME TypeOK, AssigneesGranted,
           NEW x \in Task, NEW e \in HistoryRow, Appended(x, e),
           \/ Granted(x, e.row.assignee)
           \/ Len(history[x]) = 0
           \/ can_reassign(e.by)
           \/ e.by \in Staff,
           \A t \in Task \ {x} : db'[t] = db[t],
           db'[x] # NoRow => db'[x].assignee = e.row.assignee,
           \A w \in Worker :
               \/ req'[w] = req[w]
               \/ req'[w] = Idle
               \/ req'[w].task = x /\ req'[w].inst.assignee = e.row.assignee
    PROVE  AssigneesGranted'
<1>1. PICK n \in Nat \ {0} :
          /\ n = Len(history[x]) + 1
          /\ Len(history'[x]) = n
          /\ history'[x][n] = e
  BY AppendedHistory
<1>2. GrantedBy(x, e.row.assignee, n)'
  <2>1. CASE Granted(x, e.row.assignee)
    <3>1. Len(history[x]) \in 1 .. Len(history[x])
      BY <2>1, GrantInHistory
    <3>2. Granted(x, e.row.assignee)'
      BY <2>1, <3>1, GrantKept DEF Granted
    <3>. QED
      BY <3>2, <1>1 DEF Granted
  <2>2. CASE \/ Len(history[x]) = 0
             \/ can_reassign(e.by)
             \/ e.by \in Staff
    <3>1. n \in 1 .. n /\ (Len(history[x]) = 0 => n = 1)
      BY <1>1
    <3>. QED
      BY <2>2, <3>1, <1>1 DEF GrantedBy
  <2>. QED
    BY <2>1, <2>2
<1>3. Granted(x, e.row.assignee)'
  BY <1>1, <1>2 DEF Granted
<1>4. AssigneeGranted'
  <2> SUFFICES ASSUME NEW t \in Task, NEW i \in 1 .. Len(history'[t])
               PROVE  GrantedBy(t, history[t][i].row.assignee, i)'
    BY DEF AssigneeGranted
  <2>1. CASE t = x /\ i = n
    BY <2>1, <1>1, <1>2
  <2>2. CASE ~(t = x /\ i = n)
    <3>1. i \in 1 .. Len(history[t]) /\ history'[t][i] = history[t][i]
      BY <2>2, <1>1, AppendedHistory
    <3>2. GrantedBy(t, history[t][i].row.assignee, i)
      BY <3>1 DEF AssigneesGranted, AssigneeGranted
    <3>. QED
      BY <3>1, <3>2, GrantKept
  <2>. QED
    BY <2>1, <2>2
<1>5. ASSUME NEW t \in Task, db'[t] # NoRow
      PROVE  Granted(t, db[t].assignee)'
  <2>1. CASE t = x
    BY <1>3, <1>5, <2>1
  <2>2. CASE t # x
    <3>1. Granted(t, db[t].assignee) /\ db'[t] = db[t]
      BY <1>5, <2>2 DEF AssigneesGranted
    <3>. QED
      BY <3>1, GrantInHistory, GrantKept DEF Granted
  <2>. QED
    BY <2>1, <2>2
<1>6. ASSUME NEW w \in Worker, Busy(w)'
      PROVE  Granted(req[w].task, req[w].inst.assignee)'
  <2>1. CASE req'[w] = req[w]
    <3>1. Granted(req[w].task, req[w].inst.assignee) /\ req[w].task \in Task
      BY <1>6, <2>1, BusyType DEF AssigneesGranted, Busy
    <3>. QED
      BY <2>1, <3>1, GrantInHistory, GrantKept DEF Granted
  <2>2. CASE req'[w].task = x /\ req'[w].inst.assignee = e.row.assignee
    BY <1>3, <2>2
  <2>. QED
    BY <1>6, <2>1, <2>2 DEF Busy
<1>. QED
  BY <1>4, <1>5, <1>6 DEF AssigneesGranted

(* The history row that a full save of inst by u appends.                  *)
Entry(t, inst, u) ==
    [row |-> inst, by |-> u, type |-> IF db[t] = NoRow THEN "+" ELSE "~"]

LEMMA SaveAppends ==
    ASSUME TypeOK, NEW t \in Task, NEW inst \in Row, NEW u \in User,
           save(t, inst, u)
    PROVE  /\ Entry(t, inst, u) \in HistoryRow
           /\ Entry(t, inst, u).row = inst
           /\ Entry(t, inst, u).by = u
           /\ Appended(t, Entry(t, inst, u))
           /\ db'[t] = inst
           /\ \A x \in Task \ {t} : db'[x] = db[x]
BY DEF TypeOK, save, Log, Appended, Entry, HistoryRow, Assignee

(* A full save of an instance whose assignee is granted, on behalf of a    *)
(* request that ends with it.                                              *)
LEMMA GrantSave ==
    ASSUME TypeOK, AssigneesGranted,
           NEW t \in Task, NEW inst \in Row, NEW u \in User,
           save(t, inst, u),
           \/ Granted(t, inst.assignee)
           \/ Len(history[t]) = 0
           \/ u \in Staff,
           \A w \in Worker : req'[w] = req[w] \/ req'[w] = Idle
    PROVE  AssigneesGranted'
<1> DEFINE e == Entry(t, inst, u)
<1>1. /\ e \in HistoryRow /\ e.row = inst /\ e.by = u
      /\ Appended(t, e)
      /\ db'[t] = inst /\ \A x \in Task \ {t} : db'[x] = db[x]
  BY SaveAppends
<1> HIDE DEF e
<1>. QED
  BY <1>1, GrantWrite

LEMMA AssigneesGrantedNext ==
    TypeOK /\ AssigneesGranted /\ [Next]_vars => AssigneesGranted'
<1> SUFFICES ASSUME TypeOK, AssigneesGranted, [Next]_vars
             PROVE  AssigneesGranted'
  OBVIOUS
<1>1. ASSUME NEW w \in Worker, NEW u \in User, NEW t \in Task, load(w, u, t)
      PROVE  AssigneesGranted'
  <2>1. Granted(t, db[t].assignee)
    BY <1>1 DEF load, AssigneesGranted
  <2>2. /\ req'[w].task = t /\ req'[w].inst = db[t]
        /\ \A v \in Worker \ {w} : req'[v] = req[v]
    BY <1>1 DEF load, TypeOK
  <2>3. history' = history /\ db' = db
    BY <1>1 DEF load
  <2>4. AssigneeGranted'
    BY <2>3 DEF AssigneesGranted, AssigneeGranted, GrantedBy
  <2>5. ASSUME NEW x \in Task, db'[x] # NoRow
        PROVE  Granted(x, db[x].assignee)'
    BY <2>3, <2>5 DEF AssigneesGranted, Granted, GrantedBy
  <2>6. ASSUME NEW v \in Worker, Busy(v)'
        PROVE  Granted(req[v].task, req[v].inst.assignee)'
    <3>1. Granted(req'[v].task, req'[v].inst.assignee)
      BY <2>1, <2>2, <2>6 DEF AssigneesGranted, Busy
    <3>. QED
      BY <2>3, <3>1 DEF Granted, GrantedBy
  <2>. QED
    BY <2>4, <2>5, <2>6 DEF AssigneesGranted
<1>2. ASSUME NEW w \in Worker, NEW u \in User, NEW t \in Task, create_task(w, u, t)
      PROVE  AssigneesGranted'
  <2>1. PICK a \in Assignee, p \in PriorityInput :
            save(t, [status |-> "new", completed_at |-> "null",
                     cancelled_at |-> "null", blocker |-> "blank",
                     assignee |-> a, opened_by |-> u, priority |-> p], u)
    BY <1>2 DEF create_task
  <2>2. [status |-> "new", completed_at |-> "null", cancelled_at |-> "null",
         blocker |-> "blank", assignee |-> a, opened_by |-> u,
         priority |-> p] \in Row
    BY Inputs DEF Row, Status, Stamp, Blocker
  <2>3. req' = req /\ Len(history[t]) = 0
    BY <1>2 DEF create_task, Unused
  <2>. QED
    BY <2>1, <2>2, <2>3, GrantSave
<1>3. ASSUME NEW w \in Worker, NEW u \in User, NEW t \in Task,
             admin_add(w, u, t) \/ admin_revert(w, u, t)
      PROVE  AssigneesGranted'
  <2>1. PICK row \in Row : save(t, row, u)
    BY <1>3, AdminSaves
  <2>2. u \in Staff /\ req' = req
    BY <1>3, AdminSaves
  <2>. QED
    BY <2>1, <2>2, GrantSave
<1>4. ASSUME NEW w \in Worker, NEW new \in Status, NEW blocker \in Blocker,
             change_status(w, new, blocker)
      PROVE  AssigneesGranted'
  <2>1. Busy(w)
    BY <1>4 DEF change_status, Loaded
  <2> DEFINE row == moved(req[w].inst, new, blocker)
  <2>2. row \in Row
    BY <2>1, BusyType, MovedIsRow
  <2>3. row.assignee = req[w].inst.assignee
    BY <2>1, BusyType DEF moved, Row
  <2>4. Granted(req[w].task, row.assignee)
    BY <2>1, <2>3 DEF AssigneesGranted
  <2>5. save(req[w].task, row, req[w].user)
    BY <1>4 DEF change_status
  <2> HIDE DEF row
  <2>. QED
    BY <1>4, <2>1, <2>2, <2>4, <2>5, BusyType, FinishEnds, GrantSave
       DEF change_status
<1>5. ASSUME NEW w \in Worker, NEW a \in Assignee, assign_task(w, a)
      PROVE  AssigneesGranted'
  <2> DEFINE inst == [req[w].inst EXCEPT !.assignee = a]
             e == [row |-> inst, by |-> req[w].user, type |-> "~"]
  <2>1. Busy(w) /\ req[w] \in Request
    BY <1>5, BusyType DEF assign_task, Loaded
  <2>2. inst \in Row /\ inst.assignee = a
    BY <2>1, BusyType DEF Row
  <2>3. /\ e \in HistoryRow /\ e.row = inst /\ can_reassign(e.by)
        /\ Appended(req[w].task, e)
    BY <1>5, <2>1, <2>2, BusyType DEF assign_task, HistoryRow, Assignee, Log, Appended
  <2>4. /\ db'[req[w].task].assignee = a
        /\ \A t \in Task \ {req[w].task} : db'[t] = db[t]
    <3>1. db[req[w].task] \in Row
      BY <1>5, <2>1, BusyType DEF assign_task, TypeOK
    <3>2. db' = [db EXCEPT ![req[w].task] = [@ EXCEPT !.assignee = a]]
      BY <1>5 DEF assign_task
    <3>. QED
      BY <2>1, <3>1, <3>2, BusyType DEF TypeOK, Row
  <2>5. \A v \in Worker :
            \/ req'[v] = req[v]
            \/ req'[v] = Idle
            \/ req'[v].task = req[w].task /\ req'[v].inst.assignee = a
    <3>1. CASE finish(w)
      BY <3>1, FinishEnds
    <3>2. CASE req' = [req EXCEPT ![w].stage = "assigned", ![w].inst = inst]
      <4>1. /\ req'[w] = [req[w] EXCEPT !.stage = "assigned", !.inst = inst]
            /\ \A v \in Worker \ {w} : req'[v] = req[v]
        BY <3>2 DEF TypeOK
      <4>2. req'[w].task = req[w].task /\ req'[w].inst = inst
        BY <2>1, <4>1 DEF Request
      <4>. QED
        BY <2>2, <4>1, <4>2
    <3>. QED
      BY <1>5, <3>1, <3>2 DEF assign_task
  <2> HIDE DEF e
  <2>6. e.row.assignee = a
    BY <2>2, <2>3
  <2>7. req[w].task \in Task
    BY <2>1, BusyType
  <2> HIDE DEF inst
  <2>. QED
    BY <2>3, <2>4, <2>5, <2>6, <2>7, GrantWrite
<1>6. ASSUME NEW w \in Worker, update_task_fields(w)
      PROVE  AssigneesGranted'
  <2>1. Busy(w)
    BY <1>6 DEF update_task_fields
  <2>2. PICK p \in PriorityInput \cup {req[w].inst.priority} :
            save(req[w].task, [req[w].inst EXCEPT !.priority = p], req[w].user)
    BY <1>6 DEF update_task_fields
  <2> DEFINE row == [req[w].inst EXCEPT !.priority = p]
  <2>3. row \in Row /\ row.assignee = req[w].inst.assignee
    BY Inputs, <2>1, BusyType DEF Row
  <2>4. Granted(req[w].task, row.assignee)
    BY <2>1, <2>3 DEF AssigneesGranted
  <2>5. save(req[w].task, row, req[w].user)
    BY <2>2
  <2> HIDE DEF row
  <2>. QED
    BY <1>6, <2>1, <2>3, <2>4, <2>5, BusyType, FinishEnds, GrantSave
       DEF update_task_fields
<1>7. ASSUME NEW w \in Worker, admin_change(w)
      PROVE  AssigneesGranted'
  <2>1. Busy(w)
    BY <1>7 DEF admin_change, Loaded
  <2>2. PICK form \in FormInput :
            save(req[w].task, filled(req[w].inst, form), req[w].user)
    BY <1>7 DEF admin_change
  <2>3. filled(req[w].inst, form) \in Row
    BY <2>1, BusyType, FilledIsRow
  <2>. QED
    BY <1>7, <2>1, <2>2, <2>3, BusyType, FinishEnds, GrantSave
       DEF admin_change
<1>8. ASSUME NEW w \in Worker, admin_delete(w)
      PROVE  AssigneesGranted'
  <2> DEFINE e == [row |-> req[w].inst, by |-> req[w].user, type |-> "-"]
  <2>1. Busy(w)
    BY <1>8 DEF admin_delete, Loaded
  <2>2. /\ e \in HistoryRow /\ e.row = req[w].inst
        /\ Appended(req[w].task, e)
    BY <1>8, <2>1, BusyType DEF admin_delete, HistoryRow, Assignee, Log, Appended
  <2>3. Granted(req[w].task, e.row.assignee)
    BY <2>1, <2>2 DEF AssigneesGranted
  <2>4. /\ db'[req[w].task] = NoRow
        /\ \A t \in Task \ {req[w].task} : db'[t] = db[t]
    BY <1>8, <2>1, BusyType DEF admin_delete, TypeOK
  <2> HIDE DEF e
  <2>. QED
    BY <1>8, <2>1, <2>2, <2>3, <2>4, BusyType, FinishEnds, GrantWrite
       DEF admin_delete
<1>9. ASSUME NEW w \in Worker, drop_request(w)
      PROVE  AssigneesGranted'
  BY <1>9, FinishEnds
     DEF drop_request, AssigneesGranted, AssigneeGranted, Granted, GrantedBy,
         Busy
<1>10. CASE UNCHANGED vars
  BY <1>10 DEF vars, AssigneesGranted, AssigneeGranted, Granted, GrantedBy, Busy
<1>. QED
  BY <1>1, <1>2, <1>3, <1>4, <1>5, <1>6, <1>7, <1>8, <1>9, <1>10 DEF Next

(* Nobody becomes the assignee of a task without the word of its creator,  *)
(* a manager or the Admin, in any interleaving of any number of requests.  *)
THEOREM AssigneesAlwaysGranted == Spec => []AssigneeGranted
<1>1. Init => AssigneesGranted
  BY DEF Init, AssigneesGranted, AssigneeGranted, Busy
<1>2. AssigneesGranted => AssigneeGranted
  BY DEF AssigneesGranted
<1>. QED
  BY <1>1, <1>2, AssigneesGrantedNext, TypeCorrect, PTL DEF Spec

-----------------------------------------------------------------------------
(* TaskRequests implements TaskLifecycle as far as no stale instance is    *)
(* written, and implements it outright with a single worker, whose audit   *)
(* trail is then current as well.                                          *)

\* The state of the lifecycle, under the names its INSTANCE substitutes.
taskBar == [t \in Task |-> Facts(t)]
byBar == [t \in Task |-> LastBy(t)]
pastBar == [t \in Task |-> Past(t)]

(* The instance carries its own copies of the policy operators.            *)
LEMMA SamePolicy ==
    /\ Lifecycle!Status = Status
    /\ Lifecycle!ACTIVE_STATUSES = ACTIVE_STATUSES
    /\ Lifecycle!Assignee = Assignee
    /\ Lifecycle!User = User
    /\ \A u : Lifecycle!can_reassign(u) = can_reassign(u)
    /\ \A u, old, new :
           Lifecycle!entitled(u, old, new) = entitled(u, old, new)
<1>1. Lifecycle!Status = Status /\ Lifecycle!ACTIVE_STATUSES = ACTIVE_STATUSES
  BY DEF Lifecycle!Status, Status, Lifecycle!ACTIVE_STATUSES, ACTIVE_STATUSES
<1>2. Lifecycle!Assignee = Assignee /\ Lifecycle!User = User
  BY DEF Lifecycle!Assignee, Assignee, Lifecycle!User, User
<1>3. \A u : Lifecycle!can_reassign(u) = can_reassign(u)
  BY DEF Lifecycle!can_reassign, can_reassign, Lifecycle!is_manager, is_manager
<1>4. Lifecycle!TRANSITIONS = TRANSITIONS
  BY DEF Lifecycle!TRANSITIONS, TRANSITIONS, Lifecycle!Status, Status
<1>5. \A u, old, new :
          Lifecycle!entitled(u, old, new) = entitled(u, old, new)
  BY <1>4 DEF Lifecycle!entitled, entitled, Lifecycle!REOPEN_FROM, REOPEN_FROM,
              Lifecycle!can_reopen, can_reopen, Lifecycle!is_admin, is_admin,
              Lifecycle!can_cancel, can_cancel, Lifecycle!is_manager, is_manager
<1>. QED
  BY <1>1, <1>2, <1>3, <1>5

-----------------------------------------------------------------------------
LEMMA PastAppended ==
    ASSUME TypeOK, NEW x \in Task, NEW e \in HistoryRow, Appended(x, e)
    PROVE  /\ Past(x)' = Past(x) \cup {e.row.status}
           /\ \A t \in Task \ {x} : Past(t)' = Past(t)
<1>1. PICK n \in Nat :
          /\ n = Len(history[x])
          /\ Len(history'[x]) = n + 1
          /\ \A i \in 1 .. n : history'[x][i] = history[x][i]
          /\ history'[x][n + 1] = e
  BY AppendedHistory
<1>2. Past(x)' = {history'[x][i].row.status : i \in 1 .. (n + 1)}
  BY <1>1 DEF Past
<1>3. Past(x) = {history[x][i].row.status : i \in 1 .. n}
  BY <1>1 DEF Past
<1>4. 1 .. (n + 1) = (1 .. n) \cup {n + 1}
  BY <1>1
<1>5. Past(x)' = Past(x) \cup {e.row.status}
  <2>1. ASSUME NEW s \in Past(x)' PROVE s \in Past(x) \cup {e.row.status}
    BY <1>1, <1>2, <1>3, <1>4, <2>1
  <2>2. ASSUME NEW s \in Past(x) PROVE s \in Past(x)'
    <3>1. PICK i \in 1 .. n : s = history[x][i].row.status
      BY <1>3, <2>2
    <3>2. i \in 1 .. (n + 1) /\ history'[x][i] = history[x][i]
      BY <1>1, <3>1
    <3>. QED
      BY <1>2, <3>1, <3>2
  <2>3. e.row.status \in Past(x)'
    <3>1. n + 1 \in 1 .. (n + 1)
      BY <1>1
    <3>. QED
      BY <1>1, <1>2, <3>1
  <2>. QED
    BY <2>1, <2>2, <2>3
<1>6. \A t \in Task \ {x} : Past(t)' = Past(t)
  BY AppendedHistory DEF Past
<1>. QED
  BY <1>5, <1>6

(* Every task has its present status from its history: so a deletion,      *)
(* which logs the row once more, adds nothing to its past.                 *)
StatusLogged ==
    \A t \in Task : db[t] # NoRow => db[t].status \in Past(t)

LEMMA LoggedWrite ==
    ASSUME TypeOK, StatusLogged, NEW x \in Task, NEW e \in HistoryRow,
           Appended(x, e), \A t \in Task \ {x} : db'[t] = db[t],
           \/ db'[x] = NoRow
           \/ db'[x].status = e.row.status
           \/ db[x] # NoRow /\ db'[x].status = db[x].status
    PROVE  StatusLogged'
BY PastAppended DEF StatusLogged

LEMMA LoggedSave ==
    ASSUME TypeOK, StatusLogged,
           NEW t \in Task, NEW inst \in Row, NEW u \in User, save(t, inst, u)
    PROVE  StatusLogged'
<1> DEFINE e == Entry(t, inst, u)
<1>1. /\ e \in HistoryRow /\ e.row = inst /\ Appended(t, e)
      /\ db'[t] = inst /\ \A x \in Task \ {t} : db'[x] = db[x]
  BY SaveAppends
<1> HIDE DEF e
<1>. QED
  BY <1>1, LoggedWrite

LEMMA LoggedNext == TypeOK /\ StatusLogged /\ [Next]_vars => StatusLogged'
<1> SUFFICES ASSUME TypeOK, StatusLogged, [Next]_vars PROVE StatusLogged'
  OBVIOUS
<1> USE Inputs
<1>1. ASSUME db' = db, history' = history
      PROVE  StatusLogged'
  BY <1>1 DEF StatusLogged, Past
<1>2. ASSUME NEW w \in Worker, NEW u \in User, NEW t \in Task, create_task(w, u, t)
      PROVE  StatusLogged'
  <2>1. PICK row \in Row : save(t, row, u)
    BY <1>2 DEF create_task, Row, Status, Stamp, Blocker
  <2>. QED
    BY <2>1, LoggedSave
<1>3. ASSUME NEW w \in Worker, NEW u \in User, NEW t \in Task,
             admin_add(w, u, t) \/ admin_revert(w, u, t)
      PROVE  StatusLogged'
  BY <1>3, AdminSaves, LoggedSave
<1>4. ASSUME NEW w \in Worker, NEW new \in Status, NEW blocker \in Blocker,
             change_status(w, new, blocker)
      PROVE  StatusLogged'
  BY <1>4, BusyType, MovedIsRow, LoggedSave DEF change_status, Loaded
<1>5. ASSUME NEW w \in Worker, NEW a \in Assignee, assign_task(w, a)
      PROVE  StatusLogged'
  <2>1. Busy(w)
    BY <1>5 DEF assign_task, Loaded
  <2>2. PICK t \in Task, u \in User, inst \in Row :
            t = req[w].task /\ u = req[w].user /\ inst = req[w].inst
    BY <2>1, BusyType
  <2> DEFINE row == [inst EXCEPT !.assignee = a]
             e == [row |-> row, by |-> u, type |-> "~"]
  <2>3. row \in Row
    BY DEF Row
  <2>4. e \in HistoryRow /\ Appended(t, e)
    BY <1>5, <2>2, <2>3 DEF assign_task, Log, Appended, HistoryRow, Assignee
  <2>5. db[t] \in Row /\ db' = [db EXCEPT ![t] = [@ EXCEPT !.assignee = a]]
    BY <1>5, <2>2 DEF assign_task, TypeOK
  <2>6. /\ db'[t].status = db[t].status /\ db[t] # NoRow
        /\ \A x \in Task \ {t} : db'[x] = db[x]
    BY <2>5, NoRowIsNotARow DEF TypeOK, Row
  <2> HIDE DEF e, row
  <2>. QED
    BY <2>4, <2>6, LoggedWrite
<1>6. ASSUME NEW w \in Worker, update_task_fields(w)
      PROVE  StatusLogged'
  <2>1. PICK p \in PriorityInput \cup {req[w].inst.priority} :
            save(req[w].task, [req[w].inst EXCEPT !.priority = p], req[w].user)
    BY <1>6 DEF update_task_fields
  <2>2. req[w].task \in Task /\ req[w].user \in User
            /\ [req[w].inst EXCEPT !.priority = p] \in Row
    BY <1>6, BusyType DEF update_task_fields, Row
  <2>. QED
    BY <2>1, <2>2, LoggedSave
<1>7. ASSUME NEW w \in Worker, admin_change(w)
      PROVE  StatusLogged'
  <2>1. PICK form \in FormInput :
            save(req[w].task, filled(req[w].inst, form), req[w].user)
    BY <1>7 DEF admin_change
  <2>2. req[w].task \in Task /\ req[w].user \in User
            /\ filled(req[w].inst, form) \in Row
    BY <1>7, BusyType, FilledIsRow DEF admin_change, Loaded
  <2>. QED
    BY <2>1, <2>2, LoggedSave
<1>8. ASSUME NEW w \in Worker, admin_delete(w)
      PROVE  StatusLogged'
  <2> DEFINE e == [row |-> req[w].inst, by |-> req[w].user, type |-> "-"]
  <2>1. req[w].task \in Task /\ e \in HistoryRow /\ Appended(req[w].task, e)
    BY <1>8, BusyType
       DEF admin_delete, Loaded, Log, Appended, HistoryRow, Assignee
  <2>2. /\ db'[req[w].task] = NoRow
        /\ \A x \in Task \ {req[w].task} : db'[x] = db[x]
    BY <1>8, <2>1 DEF admin_delete, TypeOK
  <2> HIDE DEF e
  <2>. QED
    BY <2>1, <2>2, LoggedWrite
<1>. QED
  BY <1>1, <1>2, <1>3, <1>4, <1>5, <1>6, <1>7, <1>8
     DEF Next, load, drop_request, vars

LEMMA StatusAlwaysLogged == Spec => []StatusLogged
<1>1. Init => StatusLogged
  BY DEF Init, StatusLogged
<1>. QED
  BY <1>1, LoggedNext, TypeCorrect, PTL DEF Spec

-----------------------------------------------------------------------------
(* A step that touches one row and appends one history row to it, of the   *)
(* same status, or, as the row is deleted, of one it has had.              *)
LEMMA MappedWrite ==
    ASSUME TypeOK, NEW x \in Task, NEW e \in HistoryRow, Appended(x, e),
           \A t \in Task \ {x} : db'[t] = db[t],
           NEW f, Facts(x)' = f,
           \/ f.status = e.row.status
           \/ f = Lifecycle!Removed /\ e.row.status \in Past(x)
    PROVE  Lifecycle!Set(x, e.by, f)
<1>1. history'[x] # <<>> /\ LastBy(x)' = e.by
  <2>1. history[x] \in Seq(HistoryRow)
    BY DEF TypeOK
  <2>2. history'[x] = Append(history[x], e)
    BY DEF TypeOK, Appended
  <2>. QED
    BY <2>1, <2>2 DEF LastBy
<1>2. \A t \in Task \ {x} : Facts(t)' = Facts(t) /\ LastBy(t)' = LastBy(t)
  BY AppendedHistory DEF Facts, LastBy
<1>3. taskBar' = [taskBar EXCEPT ![x] = f]
  BY <1>2 DEF taskBar
<1>4. byBar' = [byBar EXCEPT ![x] = e.by]
  BY <1>1, <1>2 DEF byBar
<1>5. e.row.status \in Lifecycle!Status
  BY DEF HistoryRow, Row, Status, Lifecycle!Status
<1>6. Past(x)' = Past(x) \cup ({f.status} \cap Lifecycle!Status)
  <2>1. CASE f.status = e.row.status
    BY <1>5, <2>1, PastAppended
  <2>2. CASE f = Lifecycle!Removed /\ e.row.status \in Past(x)
    <3>1. f.status \notin Lifecycle!Status
      BY <2>2 DEF Lifecycle!Removed, Lifecycle!Status
    <3>. QED
      BY <2>2, <3>1, PastAppended
  <2>. QED
    BY <2>1, <2>2
<1>7. pastBar' = [pastBar EXCEPT
                     ![x] = @ \cup ({f.status} \cap Lifecycle!Status)]
  BY <1>6, PastAppended DEF pastBar
<1>. QED
  BY <1>3, <1>4, <1>7 DEF Lifecycle!Set, taskBar, byBar, pastBar

\* The facts about a task that has a row.
LEMMA FactsOfRow ==
    ASSUME NEW t \in Task, NEW row \in Row, db[t] = row
    PROVE  /\ Facts(t) = [status |-> row.status, assignee |-> row.assignee,
                          opened_by |-> row.opened_by]
           /\ taskBar[t] = Facts(t)
           /\ Lifecycle!Exists(t)
<1>1. Facts(t) = [status |-> row.status, assignee |-> row.assignee,
                  opened_by |-> row.opened_by]
  BY NoRowIsNotARow DEF Facts
<1>2. Facts(t).status \in Lifecycle!Status
  BY <1>1 DEF Row, Status, Lifecycle!Status
<1>. QED
  BY <1>1, <1>2 DEF Lifecycle!Exists, taskBar

\* The same, for the row the table holds after a step.
LEMMA NextFacts ==
    ASSUME NEW t \in Task, NEW row \in Row, db'[t] = row
    PROVE  Facts(t)' = [status |-> row.status, assignee |-> row.assignee,
                        opened_by |-> row.opened_by]
BY NoRowIsNotARow DEF Facts

(* A full save, seen from the lifecycle.                                   *)
LEMMA MappedSave ==
    ASSUME TypeOK, NEW t \in Task, NEW inst \in Row, NEW u \in User,
           save(t, inst, u)
    PROVE  Lifecycle!Set(t, u, [status |-> inst.status,
                                assignee |-> inst.assignee,
                                opened_by |-> inst.opened_by])
<1> DEFINE e == Entry(t, inst, u)
           f == [status |-> inst.status, assignee |-> inst.assignee,
                 opened_by |-> inst.opened_by]
<1>1. /\ e \in HistoryRow /\ e.by = u /\ e.row = inst /\ Appended(t, e)
      /\ db'[t] = inst /\ \A x \in Task \ {t} : db'[x] = db[x]
  BY SaveAppends
<1>2. Facts(t)' = f /\ f.status = e.row.status
  BY <1>1, NextFacts
<1> HIDE DEF e, f
<1>3. Lifecycle!Set(t, e.by, f)
  BY <1>1, <1>2, MappedWrite
<1>. QED
  BY <1>1, <1>3 DEF f

LEMMA UnusedIsUnborn ==
    ASSUME NEW t \in Task, Unused(t)
    PROVE  taskBar[t] = Lifecycle!Unborn
BY DEF Unused, taskBar, Facts, Lifecycle!Unborn

-----------------------------------------------------------------------------
(* One step of a worker that holds what the table holds.                   *)
FreshStep ==
    (\A w \in Worker : req'[w] # req[w] => Fresh(w))
        => [Lifecycle!Next]_(Lifecycle!vars)

LEMMA QuietStep ==
    ASSUME db' = db, history' = history
    PROVE  UNCHANGED Lifecycle!vars
BY DEF Lifecycle!vars, Facts, LastBy, Past

\* A worker that ends its request has changed its memory, so it was fresh.
LEMMA FreshInstance ==
    ASSUME TypeOK, NEW w \in Worker, Busy(w), req'[w] # req[w],
           \A v \in Worker : req'[v] # req[v] => Fresh(v)
    PROVE  db[req[w].task] = req[w].inst /\ req[w].inst \in Row
BY BusyType DEF Fresh

LEMMA FinishChanges ==
    ASSUME TypeOK, NEW w \in Worker, Busy(w), finish(w)
    PROVE  req'[w] # req[w]
BY DEF TypeOK, finish, Busy

LEMMA EveryFreshStep == TypeOK /\ StatusLogged /\ [Next]_vars => FreshStep
<1> SUFFICES ASSUME TypeOK, StatusLogged, [Next]_vars,
                    \A w \in Worker : req'[w] # req[w] => Fresh(w)
             PROVE  Lifecycle!Next \/ UNCHANGED Lifecycle!vars
  BY DEF FreshStep
<1> USE Inputs, SamePolicy
<1>1. ASSUME NEW w \in Worker, NEW u \in User, NEW t \in Task, load(w, u, t)
      PROVE  UNCHANGED Lifecycle!vars
  BY <1>1, QuietStep DEF load
<1>2. ASSUME NEW w \in Worker, NEW u \in User, NEW t \in Task, create_task(w, u, t)
      PROVE  Lifecycle!Next
  <2>1. PICK a \in Assignee, p \in PriorityInput :
            save(t, [status |-> "new", completed_at |-> "null",
                     cancelled_at |-> "null", blocker |-> "blank",
                     assignee |-> a, opened_by |-> u, priority |-> p], u)
    BY <1>2 DEF create_task
  <2>2. [status |-> "new", completed_at |-> "null", cancelled_at |-> "null",
         blocker |-> "blank", assignee |-> a, opened_by |-> u,
         priority |-> p] \in Row
    BY DEF Row, Status, Stamp, Blocker
  <2>3. Lifecycle!Set(t, u, [status |-> "new", assignee |-> a, opened_by |-> u])
    BY <2>1, <2>2, MappedSave
  <2>4. Lifecycle!Open(t, u)
    BY <1>2, <2>3, UnusedIsUnborn DEF create_task, Lifecycle!Open, taskBar
  <2>. QED
    BY <2>4 DEF Lifecycle!Next
<1>3. ASSUME NEW w \in Worker, NEW u \in User, NEW t \in Task, admin_add(w, u, t)
      PROVE  Lifecycle!Next
  <2>1. PICK s \in Status, form \in FormInput :
            save(t, filled(blank(s, u), form), u)
    BY <1>3 DEF admin_add
  <2> DEFINE row == filled(blank(s, u), form)
  <2>2. row \in Row /\ row.status = s
    BY BlankIsRow, FilledIsRow
  <2>3. row.completed_at = "null" /\ row.cancelled_at = "null"
    BY DEF filled, blank
  <2>4. s \in ACTIVE_STATUSES
    BY <2>1, <2>2, <2>3 DEF save, checks, completed_only_when_done,
                cancelled_only_when_cancelled, Status, ACTIVE_STATUSES
  <2> DEFINE f == [status |-> row.status, assignee |-> row.assignee,
                   opened_by |-> row.opened_by]
  <2>5. save(t, row, u)
    BY <2>1
  <2> HIDE DEF row
  <2>6. Lifecycle!Set(t, u, f)
    BY <2>2, <2>5, MappedSave
  <2>7. f \in Lifecycle!Facts /\ f.status \in ACTIVE_STATUSES
    BY <2>2, <2>4 DEF Lifecycle!Facts, Row
  <2> HIDE DEF f
  <2>8. Lifecycle!AdminOpen(t, u)
    BY <1>3, <2>6, <2>7, UnusedIsUnborn
       DEF admin_add, Lifecycle!AdminOpen, taskBar
  <2>. QED
    BY <2>8 DEF Lifecycle!Next
<1>4. ASSUME NEW w \in Worker, NEW new \in Status, NEW blocker \in Blocker,
             change_status(w, new, blocker)
      PROVE  Lifecycle!Next
  <2> DEFINE t == req[w].task
             u == req[w].user
             inst == req[w].inst
             row == moved(inst, new, blocker)
  <2>1. Busy(w) /\ t \in Task /\ u \in User
    BY <1>4, BusyType DEF change_status, Loaded
  <2>2. db[t] = inst /\ inst \in Row
    BY <1>4, <2>1, FinishChanges, FreshInstance DEF change_status
  <2>3. /\ row \in Row /\ row.status = new
        /\ row.assignee = inst.assignee /\ row.opened_by = inst.opened_by
    BY <2>2, MovedIsRow DEF moved, Row
  <2>4. save(t, row, u) /\ entitled(u, inst.status, new)
    BY <1>4 DEF change_status, may_change_status
  <2> HIDE DEF row, inst, t, u
  <2>5. Lifecycle!Set(t, u, [status |-> row.status, assignee |-> row.assignee,
                             opened_by |-> row.opened_by])
    BY <2>1, <2>3, <2>4, MappedSave
  <2>6. /\ taskBar[t] = [status |-> inst.status, assignee |-> inst.assignee,
                         opened_by |-> inst.opened_by]
        /\ Lifecycle!Exists(t)
    BY <2>1, <2>2, FactsOfRow
  <2>7. [taskBar[t] EXCEPT !.status = new] =
            [status |-> row.status, assignee |-> row.assignee,
             opened_by |-> row.opened_by]
    BY <2>3, <2>6
  <2>8. Lifecycle!Move(t, u)
    BY <2>4, <2>5, <2>6, <2>7 DEF Lifecycle!Move, taskBar
  <2>. QED
    BY <2>1, <2>8 DEF Lifecycle!Next
<1>5. ASSUME NEW w \in Worker, NEW a \in Assignee, assign_task(w, a)
      PROVE  Lifecycle!Next
  <2>0. Busy(w) /\ req[w] \in Request
    BY <1>5, BusyType DEF assign_task, Loaded
  <2>1. PICK t \in Task, u \in User, inst \in Row :
            t = req[w].task /\ u = req[w].user /\ inst = req[w].inst
    BY <2>0, BusyType
  <2> DEFINE row == [inst EXCEPT !.assignee = a]
             e == [row |-> row, by |-> u, type |-> "~"]
  <2>2. req'[w] # req[w]
    <3>1. CASE finish(w)
      BY <2>0, <3>1, FinishChanges
    <3>2. CASE req' = [req EXCEPT ![w].stage = "assigned", ![w].inst = row]
      <4>1. req'[w].stage = "assigned"
        BY <2>0, <3>2 DEF TypeOK, Request
      <4>. QED
        BY <1>5, <4>1 DEF assign_task, Loaded
    <3>. QED
      BY <1>5, <2>1, <3>1, <3>2 DEF assign_task
  <2>3. db[t] = inst
    BY <2>0, <2>1, <2>2, FreshInstance
  <2>4. row \in Row /\ row.status = inst.status /\ row.assignee = a
            /\ row.opened_by = inst.opened_by
    BY DEF Row
  <2>5. e \in HistoryRow /\ e.by = u /\ e.row = row /\ Appended(t, e)
    BY <1>5, <2>1, <2>4 DEF assign_task, Log, Appended, HistoryRow, Assignee
  <2>6. db'[t] = row /\ \A x \in Task \ {t} : db'[x] = db[x]
    <3>1. db' = [db EXCEPT ![t] = [@ EXCEPT !.assignee = a]]
      BY <1>5, <2>1 DEF assign_task
    <3>. QED
      BY <2>1, <2>3, <3>1 DEF TypeOK
  <2>7. can_reassign(u)
    BY <1>5, <2>1 DEF assign_task
  <2> HIDE DEF e, row
  <2> DEFINE f == [status |-> row.status, assignee |-> row.assignee,
                   opened_by |-> row.opened_by]
  <2>8. Lifecycle!Set(t, u, f)
    <3>1. Facts(t)' = f /\ f.status = e.row.status
      BY <2>1, <2>4, <2>5, <2>6, NextFacts
    <3> HIDE DEF f
    <3>. QED
      BY <2>1, <2>5, <2>6, <3>1, MappedWrite
  <2>9. /\ taskBar[t] = [status |-> inst.status, assignee |-> inst.assignee,
                         opened_by |-> inst.opened_by]
        /\ Lifecycle!Exists(t)
    BY <2>1, <2>3, FactsOfRow
  <2>10. f = [taskBar[t] EXCEPT !.assignee = a]
    BY <2>4, <2>9
  <2>11. Lifecycle!HandOver(t, u)
    BY <2>7, <2>8, <2>9, <2>10 DEF Lifecycle!HandOver, taskBar
  <2>. QED
    BY <2>1, <2>11 DEF Lifecycle!Next
<1>6. ASSUME NEW w \in Worker, update_task_fields(w)
      PROVE  Lifecycle!Next
  <2> DEFINE t == req[w].task
             u == req[w].user
             inst == req[w].inst
  <2>1. Busy(w) /\ t \in Task /\ u \in User
    BY <1>6, BusyType DEF update_task_fields
  <2>2. db[t] = inst /\ inst \in Row
    BY <1>6, <2>1, FinishChanges, FreshInstance DEF update_task_fields
  <2>3. PICK p \in PriorityInput \cup {inst.priority} :
            save(t, [inst EXCEPT !.priority = p], u)
    BY <1>6 DEF update_task_fields
  <2>4. can_edit_task(u, inst)
    BY <1>6 DEF update_task_fields
  <2> DEFINE row == [inst EXCEPT !.priority = p]
  <2>5. /\ row \in Row /\ row.status = inst.status
        /\ row.assignee = inst.assignee /\ row.opened_by = inst.opened_by
    BY <2>2 DEF Row
  <2>6. save(t, row, u)
    BY <2>3
  <2> HIDE DEF row, inst, t, u
  <2>7. Lifecycle!Set(t, u, [status |-> row.status, assignee |-> row.assignee,
                             opened_by |-> row.opened_by])
    BY <2>1, <2>5, <2>6, MappedSave
  <2>8. /\ taskBar[t] = [status |-> inst.status, assignee |-> inst.assignee,
                         opened_by |-> inst.opened_by]
        /\ Lifecycle!Exists(t)
    BY <2>1, <2>2, FactsOfRow
  <2>9. Lifecycle!can_edit_task(u, taskBar[t])
    BY <2>4, <2>8 DEF Lifecycle!can_edit_task, can_edit_task,
                      Lifecycle!is_manager, is_manager
  <2>10. Lifecycle!Edit(t, u)
    BY <2>5, <2>7, <2>8, <2>9 DEF Lifecycle!Edit, taskBar
  <2>. QED
    BY <2>1, <2>10 DEF Lifecycle!Next
<1>7. ASSUME NEW w \in Worker, admin_change(w)
      PROVE  Lifecycle!Next
  <2> DEFINE t == req[w].task
             u == req[w].user
             inst == req[w].inst
  <2>1. Busy(w) /\ t \in Task /\ u \in User /\ u \in Staff
    BY <1>7, BusyType DEF admin_change, Loaded
  <2>2. db[t] = inst /\ inst \in Row
    BY <1>7, <2>1, FinishChanges, FreshInstance DEF admin_change
  <2>3. PICK form \in FormInput : save(t, filled(inst, form), u)
    BY <1>7 DEF admin_change
  <2> DEFINE row == filled(inst, form)
             a == form.assignee
             o == form.opened_by
  <2>4. /\ row \in Row /\ row.status = inst.status
        /\ row.assignee = a /\ row.opened_by = o
        /\ a \in Assignee /\ o \in User
    BY <2>2, FilledIsRow
  <2>5. save(t, row, u)
    BY <2>3
  <2> HIDE DEF row, inst, t, u, a, o
  <2>6. Lifecycle!Set(t, u, [status |-> row.status, assignee |-> row.assignee,
                             opened_by |-> row.opened_by])
    BY <2>1, <2>4, <2>5, MappedSave
  <2>7. /\ taskBar[t] = [status |-> inst.status, assignee |-> inst.assignee,
                         opened_by |-> inst.opened_by]
        /\ Lifecycle!Exists(t)
    BY <2>1, <2>2, FactsOfRow
  <2>8. [status |-> taskBar[t].status, assignee |-> a, opened_by |-> o] =
            [status |-> row.status, assignee |-> row.assignee,
             opened_by |-> row.opened_by]
    BY <2>4, <2>7
  <2>9. Lifecycle!AdminEdit(t, u)
    BY <2>1, <2>4, <2>6, <2>7, <2>8 DEF Lifecycle!AdminEdit, taskBar
  <2>. QED
    BY <2>1, <2>9 DEF Lifecycle!Next
<1>8. ASSUME NEW w \in Worker, admin_delete(w)
      PROVE  Lifecycle!Next
  <2>0. Busy(w)
    BY <1>8 DEF admin_delete, Loaded
  <2>1. PICK t \in Task, u \in Staff, inst \in Row :
            t = req[w].task /\ u = req[w].user /\ inst = req[w].inst
    BY <1>8, <2>0, BusyType DEF admin_delete
  <2> DEFINE e == [row |-> inst, by |-> u, type |-> "-"]
  <2>2. db[t] = inst /\ u \in User
    BY <1>8, <2>0, <2>1, BusyType, FinishChanges, FreshInstance
       DEF admin_delete
  <2>3. e \in HistoryRow /\ e.by = u /\ e.row = inst /\ Appended(t, e)
    BY <1>8, <2>1, <2>2 DEF admin_delete, Log, Appended, HistoryRow, Assignee
  <2>4. db'[t] = NoRow /\ \A x \in Task \ {t} : db'[x] = db[x]
    BY <1>8, <2>1 DEF admin_delete, TypeOK
  <2> HIDE DEF e
  <2>5. Facts(t)' = Lifecycle!Removed
    <3>1. history'[t] # <<>>
      <4>1. history'[t] = Append(history[t], e) /\ history[t] \in Seq(HistoryRow)
        BY <2>1, <2>3 DEF Appended, TypeOK
      <4>. QED
        BY <2>3, <4>1
    <3>. QED
      BY <2>4, <3>1 DEF Facts, Lifecycle!Removed
  <2>6. Lifecycle!Set(t, u, Lifecycle!Removed)
    <3>1. inst.status \in Past(t)
      BY <2>1, <2>2, NoRowIsNotARow DEF StatusLogged
    <3>. QED
      BY <2>1, <2>3, <2>4, <2>5, <3>1, MappedWrite
  <2>7. Lifecycle!Exists(t)
    BY <2>1, <2>2, FactsOfRow
  <2>9. Lifecycle!AdminRemove(t, u)
    BY <2>6, <2>7 DEF Lifecycle!AdminRemove
  <2>. QED
    BY <2>2, <2>9 DEF Lifecycle!Next
<1>9. ASSUME NEW w \in Worker, NEW u \in User, NEW t \in Task, admin_revert(w, u, t)
      PROVE  Lifecycle!Next
  <2>1. PICK i \in 1 .. Len(history[t]), form \in FormInput :
            save(t, filled(history[t][i].row, form), u)
    BY <1>9 DEF admin_revert
  <2> DEFINE old == history[t][i].row
             row == filled(old, form)
             a == form.assignee
             o == form.opened_by
  <2>2. old \in Row /\ old.status \in Past(t)
    BY VersionIsRow DEF Past
  <2>3. /\ row \in Row /\ row.status = old.status
        /\ row.assignee = a /\ row.opened_by = o
        /\ a \in Assignee /\ o \in User
    BY <2>2, FilledIsRow
  <2>4. save(t, row, u) /\ u \in Staff
    BY <1>9, <2>1 DEF admin_revert
  <2> HIDE DEF row, old, a, o
  <2>5. Lifecycle!Set(t, u, [status |-> row.status, assignee |-> row.assignee,
                             opened_by |-> row.opened_by])
    BY <2>3, <2>4, MappedSave
  <2>6. Lifecycle!AdminRevert(t, u)
    BY <2>2, <2>3, <2>4, <2>5 DEF Lifecycle!AdminRevert, pastBar
  <2>. QED
    BY <2>6 DEF Lifecycle!Next
<1>10. ASSUME NEW w \in Worker, drop_request(w)
      PROVE  UNCHANGED Lifecycle!vars
  BY <1>10, QuietStep DEF drop_request
<1>11. CASE UNCHANGED vars
  BY <1>11, QuietStep DEF vars
<1>. QED
  BY <1>1, <1>2, <1>3, <1>4, <1>5, <1>6, <1>7, <1>8, <1>9, <1>10, <1>11 DEF Next

(* Every write of a fresh instance is a step of the lifecycle.             *)
THEOREM FreshStepsAreLegal == Spec => FreshStepsLegal
<1>1. TypeOK /\ StatusLogged /\ [Next]_vars => [FreshStep]_vars
  BY EveryFreshStep
<1>. QED
  BY <1>1, TypeCorrect, StatusAlwaysLogged, PTL
     DEF Spec, FreshStepsLegal, FreshStep

-----------------------------------------------------------------------------
(* With a single worker, as the Docker deployment runs gunicorn, requests  *)
(* do not overlap and every instance is fresh.                             *)
AllFresh == \A w \in Worker : Fresh(w)

LEMMA SerialIsFresh ==
    ASSUME NEW w0, Worker = {w0}
    PROVE  Spec => []AllFresh
<1>1. Init => AllFresh
  BY DEF Init, AllFresh, Fresh, Busy
<1>2. TypeOK /\ AllFresh /\ [Next]_vars => AllFresh'
  <2> SUFFICES ASSUME TypeOK, AllFresh, [Next]_vars PROVE AllFresh'
    OBVIOUS
  <2> USE Inputs
  <2>1. ASSUME NEW w \in Worker, finish(w)
        PROVE  AllFresh'
    BY <2>1 DEF finish, TypeOK, AllFresh, Fresh, Busy
  <2>2. ASSUME NEW w \in Worker, NEW u \in User, NEW t \in Task, load(w, u, t)
        PROVE  AllFresh'
    BY <2>2 DEF load, TypeOK, AllFresh, Fresh
  <2>3. ASSUME NEW w \in Worker, req[w] = Idle, req' = req
        PROVE  AllFresh'
    BY <2>3 DEF AllFresh, Fresh, Busy
  <2>4. ASSUME NEW w \in Worker, NEW a \in Assignee, assign_task(w, a)
        PROVE  AllFresh'
    <3>1. CASE finish(w)
      BY <2>1, <3>1
    <3>2. CASE req' = [req EXCEPT ![w].stage = "assigned",
                                  ![w].inst = [req[w].inst EXCEPT !.assignee = a]]
      <4>1. Busy(w) /\ req[w] \in Request /\ db[req[w].task] = req[w].inst
        BY <2>4, BusyType DEF assign_task, Loaded, AllFresh, Fresh
      <4>2. /\ req'[w].task = req[w].task
            /\ req'[w].inst = [req[w].inst EXCEPT !.assignee = a]
        BY <3>2, <4>1 DEF TypeOK, Request
      <4>3. db' = [db EXCEPT ![req[w].task] = [@ EXCEPT !.assignee = a]]
        BY <2>4 DEF assign_task
      <4>4. db'[req[w].task] = [req[w].inst EXCEPT !.assignee = a]
        BY <4>1, <4>3, BusyType DEF TypeOK
      <4>. QED
        BY <4>2, <4>4 DEF AllFresh, Fresh
    <3>. QED
      BY <2>4, <3>1, <3>2 DEF assign_task
  <2>5. CASE UNCHANGED vars
    BY <2>5 DEF vars, AllFresh, Fresh, Busy
  <2>. QED
    BY <2>1, <2>2, <2>3, <2>4, <2>5
       DEF Next, create_task, admin_add, admin_revert, change_status,
           update_task_fields,
           admin_change, admin_delete, drop_request
<1>. QED
  BY <1>1, <1>2, TypeCorrect, PTL DEF Spec

(* A single worker implements the lifecycle.                               *)
THEOREM SerialImplementsLifecycle ==
    ASSUME NEW w0, Worker = {w0}
    PROVE  Spec => LifecycleSpec
<1>1. Init => Lifecycle!Init
  BY DEF Init, Lifecycle!Init, Facts, LastBy, Past, Lifecycle!Unborn
<1>2. TypeOK /\ StatusLogged /\ AllFresh /\ [Next]_vars => [Lifecycle!Next]_(Lifecycle!vars)
  BY EveryFreshStep DEF FreshStep, AllFresh
<1>. QED
  BY <1>1, <1>2, TypeCorrect, StatusAlwaysLogged, SerialIsFresh, PTL
     DEF Spec, LifecycleSpec, Lifecycle!Spec

-----------------------------------------------------------------------------
(* A step that appends to the history of one task what the table then      *)
(* holds for it.                                                           *)
LEMMA AuditWrite ==
    ASSUME TypeOK, AuditCurrent,
           NEW x \in Task, NEW e \in HistoryRow, Appended(x, e),
           \A t \in Task \ {x} : db'[t] = db[t],
           IF db'[x] = NoRow THEN e.type = "-"
           ELSE e.type # "-" /\ e.row = db'[x]
    PROVE  AuditCurrent'
<1>1. history'[x][Len(history'[x])] = e
  BY AppendedHistory
<1>2. \A t \in Task \ {x} : history'[t] = history[t]
  BY AppendedHistory
<1>. QED
  BY <1>1, <1>2 DEF AuditCurrent

LEMMA AuditSave ==
    ASSUME TypeOK, AuditCurrent,
           NEW t \in Task, NEW inst \in Row, NEW u \in User, save(t, inst, u)
    PROVE  AuditCurrent'
<1> DEFINE e == Entry(t, inst, u)
<1>1. /\ e \in HistoryRow /\ e.row = inst /\ Appended(t, e)
      /\ db'[t] = inst /\ \A x \in Task \ {t} : db'[x] = db[x]
  BY SaveAppends
<1>2. e.type # "-" /\ db'[t] # NoRow
  BY <1>1, NoRowIsNotARow DEF Entry
<1> HIDE DEF e
<1>. QED
  BY <1>1, <1>2, AuditWrite

(* Full saves log what they write, fresh or not.  assign_task writes one   *)
(* column and logs a copy of its whole instance: only a fresh one is right.*)
LEMMA AuditNext == TypeOK /\ AllFresh /\ AuditCurrent /\ [Next]_vars => AuditCurrent'
<1> SUFFICES ASSUME TypeOK, AllFresh, AuditCurrent, [Next]_vars
             PROVE  AuditCurrent'
  OBVIOUS
<1> USE Inputs
<1>1. ASSUME db' = db, history' = history
      PROVE  AuditCurrent'
  BY <1>1 DEF AuditCurrent
<1>2. ASSUME NEW w \in Worker, NEW u \in User, NEW t \in Task, create_task(w, u, t)
      PROVE  AuditCurrent'
  <2>1. PICK row \in Row : save(t, row, u)
    BY <1>2 DEF create_task, Row, Status, Stamp, Blocker
  <2>. QED
    BY <2>1, AuditSave
<1>3. ASSUME NEW w \in Worker, NEW u \in User, NEW t \in Task,
             admin_add(w, u, t) \/ admin_revert(w, u, t)
      PROVE  AuditCurrent'
  BY <1>3, AdminSaves, AuditSave
<1>4. ASSUME NEW w \in Worker, NEW new \in Status, NEW blocker \in Blocker,
             change_status(w, new, blocker)
      PROVE  AuditCurrent'
  BY <1>4, BusyType, MovedIsRow, AuditSave DEF change_status, Loaded
<1>5. ASSUME NEW w \in Worker, NEW a \in Assignee, assign_task(w, a)
      PROVE  AuditCurrent'
  <2>1. Busy(w)
    BY <1>5 DEF assign_task, Loaded
  <2>2. PICK t \in Task, u \in User, inst \in Row :
            t = req[w].task /\ u = req[w].user /\ inst = req[w].inst
    BY <2>1, BusyType
  <2> DEFINE row == [inst EXCEPT !.assignee = a]
             e == [row |-> row, by |-> u, type |-> "~"]
  <2>3. row \in Row
    BY DEF Row
  <2>4. e \in HistoryRow /\ Appended(t, e)
    BY <1>5, <2>2, <2>3 DEF assign_task, Log, Appended, HistoryRow, Assignee
  <2>5. db'[t] = row /\ \A x \in Task \ {t} : db'[x] = db[x]
    <3>1. db' = [db EXCEPT ![t] = [@ EXCEPT !.assignee = a]]
      BY <1>5, <2>2 DEF assign_task
    <3>2. db[t] = inst
      BY <2>1, <2>2 DEF AllFresh, Fresh
    <3>. QED
      BY <3>1, <3>2 DEF TypeOK
  <2>6. e.row = row /\ e.type # "-" /\ row # NoRow
    BY <2>3, NoRowIsNotARow
  <2> HIDE DEF e, row
  <2>. QED
    BY <2>4, <2>5, <2>6, AuditWrite
<1>6. ASSUME NEW w \in Worker, update_task_fields(w)
      PROVE  AuditCurrent'
  <2>1. PICK p \in PriorityInput \cup {req[w].inst.priority} :
            save(req[w].task, [req[w].inst EXCEPT !.priority = p], req[w].user)
    BY <1>6 DEF update_task_fields
  <2>2. req[w].task \in Task /\ req[w].user \in User
            /\ [req[w].inst EXCEPT !.priority = p] \in Row
    BY <1>6, BusyType DEF update_task_fields, Row
  <2>. QED
    BY <2>1, <2>2, AuditSave
<1>7. ASSUME NEW w \in Worker, admin_change(w)
      PROVE  AuditCurrent'
  <2>1. PICK form \in FormInput :
            save(req[w].task, filled(req[w].inst, form), req[w].user)
    BY <1>7 DEF admin_change
  <2>2. req[w].task \in Task /\ req[w].user \in User
            /\ filled(req[w].inst, form) \in Row
    BY <1>7, BusyType, FilledIsRow DEF admin_change, Loaded
  <2>. QED
    BY <2>1, <2>2, AuditSave
<1>8. ASSUME NEW w \in Worker, admin_delete(w)
      PROVE  AuditCurrent'
  <2> DEFINE e == [row |-> req[w].inst, by |-> req[w].user, type |-> "-"]
  <2>1. req[w].task \in Task /\ e \in HistoryRow /\ Appended(req[w].task, e)
    BY <1>8, BusyType DEF admin_delete, Loaded, Log, Appended, HistoryRow, Assignee
  <2>2. /\ db'[req[w].task] = NoRow
        /\ \A x \in Task \ {req[w].task} : db'[x] = db[x]
    BY <1>8, <2>1 DEF admin_delete, TypeOK
  <2>3. e.type = "-"
    OBVIOUS
  <2> HIDE DEF e
  <2>. QED
    BY <2>1, <2>2, <2>3, AuditWrite
<1>. QED
  BY <1>1, <1>2, <1>3, <1>4, <1>5, <1>6, <1>7, <1>8
     DEF Next, load, drop_request, vars

(* With a single worker the newest history row of a task is always what    *)
(* the table holds, and that of a deleted task its deletion.               *)
THEOREM SerialAuditIsCurrent ==
    ASSUME NEW w0, Worker = {w0}
    PROVE  Spec => []AuditCurrent
<1>1. Init => AuditCurrent
  BY DEF Init, AuditCurrent
<1>. QED
  BY <1>1, AuditNext, TypeCorrect, SerialIsFresh, PTL DEF Spec
=============================================================================
