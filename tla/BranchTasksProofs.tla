--------------------------- MODULE BranchTasksProofs ---------------------------
(***************************************************************************)
(* Proofs about the application, for any number of users, tasks, workers   *)
(* and inputs: it runs the task service as TaskRequests describes it, so   *)
(* that what is proved there holds here, and its notices are what the      *)
(* properties of BranchTasks say.                                          *)
(***************************************************************************)
EXTENDS BranchTasks, TaskRequestsProofs

-----------------------------------------------------------------------------
(* Every step of the application is a step of the service, or leaves the   *)
(* service alone: triggers, the bell and the daily job write no task.      *)
LEMMA AppStep == [AppNext]_appVars => [Next]_vars
<1> SUFFICES ASSUME [AppNext]_appVars PROVE [Next]_vars
  OBVIOUS
<1>1. CASE UNCHANGED appVars
  BY <1>1 DEF appVars, vars
<1>2. CASE AppNext
  <2>1. ASSUME NEW w \in Worker, Serve(w) PROVE Next
    BY <2>1 DEF Serve, Next, Load, Create, ChangeStatus, Assign, Update,
                AdminAdd, AdminChange, AdminRevert, AdminDelete, Drop
  <2>2. CASE RunTaskAlerts \/ \E u \in User : Bell(u) \/ AdminNotice(u)
    BY <2>2 DEF Bell, AdminNotice, RunTaskAlerts, SelectAlerts, NotifyNext,
                AbandonRun
  <2>. QED
    BY <1>2, <2>1, <2>2 DEF AppNext
<1>. QED
  BY <1>1, <1>2

(* The application implements the task service, with any triggers in       *)
(* between: each theorem about Spec is one about AppSpec.                  *)
THEOREM AppImplementsService == AppSpec => Spec
BY AppStep, PTL DEF AppSpec, AppInit, Spec

-----------------------------------------------------------------------------
(* A table that has every row of n as it was, and perhaps more.            *)
Grows(n, m) ==
    /\ m \in [Key -> NoticeState]
    /\ \A k \in Key : n[k] # "none" => m[k] = n[k]

LEMMA NotifyGrows ==
    ASSUME NEW n \in [Key -> NoticeState], NEW t, NEW users, NEW kind
    PROVE  /\ Grows(n, notify(n, t, users, kind))
           /\ \A k \in Key : notify(n, t, users, kind)[k] # n[k] => k[3] = kind
           /\ \A k \in Key : (k[1] = t /\ k[2] \in users /\ k[3] = kind)
                                 => notify(n, t, users, kind)[k] # "none"
BY DEF notify, Grows, NoticeState

LEMMA GrowsTwice ==
    ASSUME NEW n, NEW m, NEW o, Grows(n, m), Grows(m, o)
    PROVE  Grows(n, o)
BY DEF Grows

(* What each trigger does to the table.                                    *)
LEMMA CreateGrows ==
    ASSUME NoticeTypeOK,
           NEW w \in Worker, NEW u \in User, NEW t \in Task, Create(w, u, t)
    PROVE  /\ Grows(notice, notice')
           /\ \A k \in Key : notice'[k] # notice[k]
                                 => k[3] \in {"assigned", "urgent"}
           /\ (db'[t].assignee \in User /\ db'[t].assignee # u)
                  => Has(t, db[t].assignee, "assigned")'
<1> DEFINE a == db'[t].assignee
           one == {a} \ {None, u}
           many == ({a} \cup {v \in User : is_manager(v)}) \ {None, u}
           told == notify(notice, t, one, "assigned")
           both == notify(told, t, many, "urgent")
<1>1. notice' = told \/ notice' = both
  BY DEF Create, notify_assigned, notify_urgent
<1>2. Grows(notice, told) /\ told \in [Key -> NoticeState]
  BY NotifyGrows DEF NoticeTypeOK, Grows
<1>3. \A k \in Key : told[k] # notice[k] => k[3] = "assigned"
  BY NotifyGrows DEF NoticeTypeOK
<1>4. \A k \in Key : (k[1] = t /\ k[2] \in one /\ k[3] = "assigned")
                         => told[k] # "none"
  BY NotifyGrows DEF NoticeTypeOK
<1>5. Grows(told, both) /\ \A k \in Key : both[k] # told[k] => k[3] = "urgent"
  <2> HIDE DEF told
  <2>. QED
    BY <1>2, NotifyGrows
<1>6. ASSUME a \in User, a # u
      PROVE  told[<<t, a, "assigned">>] # "none"
  <2> DEFINE k == <<t, a, "assigned">>
  <2>1. a \in one
    BY <1>6, NoneIsNotAUser
  <2> HIDE DEF told, one, a
  <2>2. k \in Key /\ k[1] = t /\ k[2] = a /\ k[3] = "assigned"
    BY <1>6 DEF Key, Kind
  <2> HIDE DEF k
  <2>3. told[k] # "none"
    BY <1>4, <2>1, <2>2
  <2>. QED
    BY <2>3 DEF k
<1> HIDE DEF told, both
<1>7. Grows(notice, both)
  BY <1>2, <1>5, GrowsTwice
<1>8. ASSUME a \in User, a # u
      PROVE  notice'[<<t, a, "assigned">>] # "none"
  <2>1. <<t, a, "assigned">> \in Key
    BY <1>8 DEF Key, Kind
  <2>. QED
    BY <1>1, <1>5, <1>6, <1>8, <2>1 DEF Grows
<1>. QED
  BY <1>1, <1>2, <1>3, <1>5, <1>7, <1>8 DEF Has

LEMMA ChangeStatusGrows ==
    ASSUME NoticeTypeOK, NEW w \in Worker, NEW new \in Status,
           NEW blocker \in Blocker, ChangeStatus(w, new, blocker)
    PROVE  /\ Grows(notice, notice')
           /\ \A k \in Key : notice'[k] # notice[k] => k[3] = "status_changed"
           /\ \A u \in User :
                  (u \in watchers[req[w].task] /\ u # req[w].user
                     /\ req[w].task \in Task)
                      => notice'[<<req[w].task, u, "status_changed">>] # "none"
<1> DEFINE users == watchers[req[w].task] \ {req[w].user}
<1>1. notice' = notify(notice, req[w].task, users, "status_changed")
  BY DEF ChangeStatus, notify_watchers_status_changed
<1> HIDE DEF users
<1>2. /\ Grows(notice, notice')
      /\ \A k \in Key : notice'[k] # notice[k] => k[3] = "status_changed"
      /\ \A k \in Key : (k[1] = req[w].task /\ k[2] \in users
                            /\ k[3] = "status_changed") => notice'[k] # "none"
  BY <1>1, NotifyGrows DEF NoticeTypeOK
<1>3. ASSUME NEW u \in User, u \in users, req[w].task \in Task
      PROVE  notice'[<<req[w].task, u, "status_changed">>] # "none"
  <2> DEFINE k == <<req[w].task, u, "status_changed">>
  <2>1. k \in Key /\ k[1] = req[w].task /\ k[2] = u /\ k[3] = "status_changed"
    BY <1>3 DEF Key, Kind
  <2> HIDE DEF k
  <2>2. notice'[k] # "none"
    BY <1>2, <1>3, <2>1
  <2>. QED
    BY <2>2 DEF k
<1>. QED
  BY <1>2, <1>3 DEF users

(* A reassignment takes away unread alerts of whom the instance names, and *)
(* nothing else.                                                           *)
LEMMA AssignPrunes ==
    ASSUME NoticeTypeOK, NEW w \in Worker, NEW a \in Assignee, Assign(w, a)
    PROVE  /\ notice' \in [Key -> NoticeState]
           /\ \A k \in Key :
                 \/ notice[k] = "none"
                 \/ notice'[k] = notice[k]
                 \/ /\ notice[k] = "unread" /\ notice'[k] = "none"
                    /\ k[1] = req[w].task /\ k[3] \in AlertKind
                    /\ k[2] = req[w].inst.assignee
           /\ \A k \in Key : notice'[k] = "unread"
                 => \/ k[3] = "reassigned"
                    \/ /\ notice[k] = "unread"
                       /\ ~(/\ k[1] = req[w].task /\ k[3] \in AlertKind
                            /\ k[2] = req[w].inst.assignee)
           /\ (req[w].task \in Task /\ a \in User /\ a # req[w].user)
                 => notice'[<<req[w].task, a, "reassigned">>] # "none"
<1> DEFINE pruned == prune_stale_alerts(notice, req[w].task, req[w].inst.assignee)
           users == {a} \ {None, req[w].user}
<1>1. notice' = notify(pruned, req[w].task, users, "reassigned")
  BY DEF Assign, notify_reassigned
<1>2. pruned \in [Key -> NoticeState]
  BY DEF prune_stale_alerts, NoticeTypeOK, NoticeState
<1>3. \A k \in Key :
          pruned[k] = IF /\ k[1] = req[w].task /\ k[2] = req[w].inst.assignee
                         /\ k[3] \in AlertKind /\ notice[k] = "unread"
                      THEN "none" ELSE notice[k]
  BY DEF prune_stale_alerts
<1> HIDE DEF pruned, users
<1>4. /\ Grows(pruned, notice')
      /\ \A k \in Key : notice'[k] # pruned[k] => k[3] = "reassigned"
      /\ \A k \in Key : (k[1] = req[w].task /\ k[2] \in users
                            /\ k[3] = "reassigned") => notice'[k] # "none"
  BY <1>1, <1>2, NotifyGrows
<1>5. ASSUME req[w].task \in Task, a \in User, a # req[w].user
      PROVE  notice'[<<req[w].task, a, "reassigned">>] # "none"
  <2>1. a \in users
    BY <1>5, NoneIsNotAUser DEF users
  <2> DEFINE k == <<req[w].task, a, "reassigned">>
  <2>2. k \in Key /\ k[1] = req[w].task /\ k[2] = a /\ k[3] = "reassigned"
    BY <1>5 DEF Key, Kind
  <2> HIDE DEF k
  <2>3. notice'[k] # "none"
    BY <1>4, <2>1, <2>2
  <2>. QED
    BY <2>3 DEF k
<1>6. ASSUME NEW k \in Key
      PROVE  \/ notice[k] = "none"
             \/ notice'[k] = notice[k]
             \/ /\ notice[k] = "unread" /\ notice'[k] = "none"
                /\ k[1] = req[w].task /\ k[3] \in AlertKind
                /\ k[2] = req[w].inst.assignee
  BY <1>3, <1>4 DEF Grows, AlertKind
<1>. QED
  BY <1>3, <1>4, <1>5, <1>6 DEF Grows

(* The bell only turns unread into read.                                   *)
LEMMA BellReads ==
    ASSUME NoticeTypeOK, NEW u \in User, Bell(u)
    PROVE  /\ notice' \in [Key -> NoticeState]
           /\ \A k \in Key : \/ notice'[k] = notice[k]
                             \/ notice[k] = "unread" /\ notice'[k] = "read"
<1>1. CASE mark_read(u)
  BY <1>1 DEF mark_read, NoticeTypeOK, NoticeState
<1>2. CASE mark_all_read(u)
  BY <1>2 DEF mark_all_read, NoticeTypeOK, NoticeState
<1>. QED
  BY <1>1, <1>2 DEF Bell

(* The daily job adds what its queue holds, one notice at a time.          *)
LEMMA AlertsGrow ==
    ASSUME NoticeTypeOK, queue \subseteq Key, RunTaskAlerts
    PROVE  /\ Grows(notice, notice')
           /\ \A k \in Key : notice'[k] # notice[k] => k \in queue \ queue'
           /\ queue' \subseteq Key
<1>1. CASE SelectAlerts
  BY <1>1 DEF SelectAlerts, alert_notices, Grows, NoticeTypeOK
<1>2. CASE NotifyNext
  <2>1. PICK next \in queue :
            /\ notice' = notify(notice, next[1], {next[2]}, next[3])
            /\ queue' = queue \ {next}
    BY <1>2 DEF NotifyNext
  <2>2. Grows(notice, notice')
    BY <2>1, NotifyGrows DEF NoticeTypeOK
  <2>3. \A k \in Key : notice'[k] # notice[k]
            => k[1] = next[1] /\ k[2] = next[2] /\ k[3] = next[3]
    BY <2>1 DEF notify
  <2>4. \A k \in Key : notice'[k] # notice[k] => k = next
    BY <2>1, <2>3 DEF Key
  <2>. QED
    BY <2>1, <2>2, <2>4
<1>3. CASE AbandonRun
  BY <1>3 DEF AbandonRun, Grows, NoticeTypeOK
<1>. QED
  BY <1>1, <1>2, <1>3 DEF RunTaskAlerts

(* In the Admin notices may be anything.                                   *)
LEMMA AdminNoticeType ==
    ASSUME NoticeTypeOK, NEW u \in User, AdminNotice(u)
    PROVE  NoticeTypeOK'
<1>1. ASSUME NEW gone, delete_notices(gone)
      PROVE  NoticeTypeOK'
  BY <1>1 DEF delete_notices, NoticeTypeOK, NoticeState
<1>2. ASSUME NEW old, NEW new, NEW state \in {"unread", "read"},
             save_notice(old, new, state)
      PROVE  NoticeTypeOK'
  BY <1>2 DEF save_notice, NoticeTypeOK, NoticeState
<1>. QED
  BY <1>1, <1>2 DEF AdminNotice

(* Either nobody uses the Admin, or whoever does leaves the notices alone. *)
NoticesLeftAlone == Staff = {} \/ AdminKind = {}

LEMMA AdminNoticeIdle ==
    ASSUME NoticeTypeOK, NoticesLeftAlone, NEW u \in User, AdminNotice(u)
    PROVE  UNCHANGED <<vars, notice>>
<1>1. AdminKind = {}
  BY DEF NoticesLeftAlone, AdminNotice
<1>2. delete_notices({})
  BY <1>1 DEF AdminNotice
<1>. QED
  BY <1>2 DEF AdminNotice, delete_notices, NoticeTypeOK

LEMMA CascadeClears ==
    ASSUME NoticeTypeOK, NEW w \in Worker, AdminDelete(w)
    PROVE  /\ notice' \in [Key -> NoticeState]
           /\ \A k \in Key : notice'[k] =
                  IF k[1] = req[w].task THEN "none" ELSE notice[k]
BY DEF AdminDelete, cascade, NoticeTypeOK, NoticeState

-----------------------------------------------------------------------------
LEMMA NoticeTypeNext ==
    ASSUME NoticeTypeOK, queue \subseteq Key, [AppNext]_appVars
    PROVE  NoticeTypeOK' /\ queue' \subseteq Key
<1>1. ASSUME UNCHANGED notice
      PROVE  NoticeTypeOK'
  BY <1>1 DEF NoticeTypeOK
<1>2. ASSUME NEW w \in Worker, NEW u \in User, NEW t \in Task, Create(w, u, t)
      PROVE  NoticeTypeOK'
  BY <1>2, CreateGrows DEF Grows, NoticeTypeOK
<1>3. ASSUME NEW w \in Worker, NEW new \in Status, NEW blocker \in Blocker,
             ChangeStatus(w, new, blocker)
      PROVE  NoticeTypeOK'
  BY <1>3, ChangeStatusGrows DEF Grows, NoticeTypeOK
<1>4. ASSUME NEW w \in Worker, NEW a \in Assignee, Assign(w, a)
      PROVE  NoticeTypeOK'
  BY <1>4, AssignPrunes DEF NoticeTypeOK
<1>5. ASSUME NEW w \in Worker, AdminDelete(w)
      PROVE  NoticeTypeOK'
  BY <1>5, CascadeClears DEF NoticeTypeOK
<1>6. ASSUME NEW u \in User, Bell(u)
      PROVE  NoticeTypeOK' /\ queue' = queue
  BY <1>6, BellReads DEF NoticeTypeOK, Bell
<1>7. ASSUME NEW u \in User, AdminNotice(u)
      PROVE  NoticeTypeOK' /\ queue' = queue
  BY <1>7, AdminNoticeType DEF AdminNotice
<1>8. ASSUME RunTaskAlerts
      PROVE  NoticeTypeOK' /\ queue' \subseteq Key
  BY <1>8, AlertsGrow DEF Grows, NoticeTypeOK
<1>9. ASSUME NEW w \in Worker, Serve(w)
      PROVE  NoticeTypeOK' /\ queue' = queue
  <2>1. queue' = queue
    BY <1>9 DEF Serve
  <2>2. NoticeTypeOK'
    BY <1>1, <1>2, <1>3, <1>4, <1>5, <1>9
       DEF Serve, Load, Update, AdminAdd, AdminChange, AdminRevert, Drop
  <2>. QED
    BY <2>1, <2>2
<1>10. CASE UNCHANGED appVars
  BY <1>1, <1>10 DEF appVars
<1>11. CASE AppNext
  BY <1>6, <1>7, <1>8, <1>9, <1>11 DEF AppNext
<1>. QED
  BY <1>10, <1>11

(* Type correctness of the application.                                    *)
THEOREM AppTypeCorrect == AppSpec => []AppTypeOK
<1> DEFINE OK == NoticeTypeOK /\ queue \subseteq Key
<1>1. AppInit => OK
  BY DEF AppInit, NoticeInit, NoticeTypeOK, NoticeState
<1>2. OK /\ [AppNext]_appVars => OK'
  BY NoticeTypeNext
<1>3. AppSpec => []OK
  BY <1>1, <1>2, PTL DEF AppSpec
<1>. QED
  BY <1>3, AppImplementsService, TypeCorrect, PTL DEF AppTypeOK

-----------------------------------------------------------------------------
(* Only two steps of the service take a notice away.                       *)
WithdrawnRightly ==
    \A k \in Key : (notice[k] # "none" /\ notice'[k] = "none")
        => \/ db'[k[1]] = NoRow
           \/ /\ k[3] \in AlertKind
              /\ notice[k] = "unread"
              /\ \E w \in Worker : Replaces(w, k[1], k[2])

(* The history row that assign_task appends.                               *)
LEMMA AssignAppends ==
    ASSUME TypeOK, NEW w \in Worker, NEW a \in Assignee, assign_task(w, a)
    PROVE  /\ Busy(w) /\ req[w] \in Request /\ can_reassign(req[w].user)
           /\ \E e \in HistoryRow :
                 /\ Appended(req[w].task, e)
                 /\ e.by = req[w].user /\ e.row.assignee = a
           /\ \A t \in Task \ {req[w].task} : db'[t] = db[t]
           /\ db[req[w].task] \in Row
           /\ db'[req[w].task] = [db[req[w].task] EXCEPT !.assignee = a]
<1>1. Busy(w) /\ req[w] \in Request
  BY BusyType DEF assign_task, Loaded
<1> DEFINE inst == [req[w].inst EXCEPT !.assignee = a]
           e == [row |-> inst, by |-> req[w].user, type |-> "~"]
<1>2. inst \in Row /\ inst.assignee = a
  BY <1>1, BusyType DEF Row
<1>3. e \in HistoryRow /\ e.by = req[w].user /\ e.row = inst
  BY <1>1, <1>2, BusyType DEF HistoryRow, Assignee
<1>4. Appended(req[w].task, e) /\ can_reassign(req[w].user)
  BY DEF assign_task, Log, Appended
<1> HIDE DEF e
<1>5. /\ db[req[w].task] \in Row
      /\ db' = [db EXCEPT ![req[w].task] = [@ EXCEPT !.assignee = a]]
  BY <1>1, BusyType DEF assign_task, TypeOK
<1>6. /\ db'[req[w].task] = [db[req[w].task] EXCEPT !.assignee = a]
      /\ \A t \in Task \ {req[w].task} : db'[t] = db[t]
  BY <1>1, <1>5, BusyType DEF TypeOK
<1>. QED
  BY <1>1, <1>2, <1>3, <1>4, <1>5, <1>6

LEMMA AssignEnds ==
    ASSUME TypeOK, NEW w \in Worker, NEW a \in Assignee, assign_task(w, a)
    PROVE  req'[w] # req[w]
<1>1. Busy(w) /\ req[w] \in Request
  BY AssignAppends
<1>2. CASE finish(w)
  BY <1>1, <1>2, FinishChanges
<1>3. CASE ~finish(w)
  <2>1. req' = [req EXCEPT ![w].stage = "assigned",
                           ![w].inst = [req[w].inst EXCEPT !.assignee = a]]
    BY <1>3 DEF assign_task
  <2>2. req'[w].stage = "assigned"
    BY <1>1, <2>1 DEF TypeOK, Request
  <2>. QED
    BY <2>2 DEF assign_task, Loaded
<1>. QED
  BY <1>2, <1>3

LEMMA AppendIsSave ==
    ASSUME TypeOK, NEW t \in Task, NEW e \in HistoryRow, Appended(t, e)
    PROVE  Saved(t) /\ NextBy(t) = e.by
<1>1. history[t] \in Seq(HistoryRow)
  BY DEF TypeOK
<1>2. history'[t] = Append(history[t], e)
  BY DEF TypeOK, Appended
<1>. QED
  BY <1>1, <1>2 DEF Saved, NextBy

LEMMA EveryWithdrawal ==
    ASSUME AppTypeOK, NoticesLeftAlone, [AppNext]_appVars
    PROVE  WithdrawnRightly
<1> USE DEF AppTypeOK
<1>1. CASE UNCHANGED notice
  BY <1>1 DEF WithdrawnRightly
<1>2. CASE Grows(notice, notice')
  BY <1>2 DEF Grows, WithdrawnRightly
<1>3. ASSUME NEW w \in Worker, NEW a \in Assignee, Assign(w, a)
      PROVE  WithdrawnRightly
  <2>1. assign_task(w, a)
    BY <1>3 DEF Assign
  <2>2. Busy(w) /\ req[w].task \in Task /\ can_reassign(req[w].user)
    BY <2>1, AssignAppends, BusyType
  <2>3. Saved(req[w].task) /\ NextBy(req[w].task) = req[w].user
    <3>1. PICK e \in HistoryRow :
              Appended(req[w].task, e) /\ e.by = req[w].user
      BY <2>1, AssignAppends
    <3>2. PICK t \in Task : t = req[w].task
      BY <2>2
    <3>. QED
      BY <3>1, <3>2, AppendIsSave
  <2>4. Replaces(w, req[w].task, req[w].inst.assignee)
    <3>1. /\ db[req[w].task] \in Row
          /\ db'[req[w].task] = [db[req[w].task] EXCEPT !.assignee = a]
      BY <2>1, AssignAppends
    <3>2. db'[req[w].task] =
              [db[req[w].task] EXCEPT !.assignee = db'[req[w].task].assignee]
      BY <3>1 DEF Row
    <3>. QED
      BY <2>1, <2>2, <2>3, <3>2, AssignEnds DEF Replaces, assign_task
  <2>5. ASSUME NEW k \in Key, notice[k] # "none", notice'[k] = "none"
        PROVE  /\ k[3] \in AlertKind /\ notice[k] = "unread"
               /\ Replaces(w, k[1], k[2])
    <3>1. /\ k[1] = req[w].task /\ k[2] = req[w].inst.assignee
          /\ k[3] \in AlertKind /\ notice[k] = "unread"
      BY <1>3, <2>5, AssignPrunes
    <3>. QED
      BY <2>4, <3>1
  <2>. QED
    BY <2>5 DEF WithdrawnRightly
<1>4. ASSUME NEW w \in Worker, AdminDelete(w)
      PROVE  WithdrawnRightly
  <2>1. db'[req[w].task] = NoRow
    BY <1>4, BusyType DEF AdminDelete, admin_delete, Loaded, TypeOK
  <2>. QED
    BY <1>4, <2>1, CascadeClears DEF WithdrawnRightly
<1>5. ASSUME NEW u \in User, Bell(u)
      PROVE  WithdrawnRightly
  BY <1>5, BellReads DEF WithdrawnRightly
<1>6. ASSUME NEW u \in User, AdminNotice(u)
      PROVE  UNCHANGED notice
  BY <1>6, AdminNoticeIdle
<1>7. ASSUME NEW w \in Worker, Serve(w)
      PROVE  WithdrawnRightly
  BY <1>1, <1>2, <1>3, <1>4, <1>7, CreateGrows, ChangeStatusGrows
     DEF Serve, Load, Update, AdminAdd, AdminChange, AdminRevert, Drop
<1>. QED
  BY <1>1, <1>2, <1>5, <1>6, <1>7, AlertsGrow DEF AppNext, appVars

(* Nothing read is hidden, no notice but an alert is withdrawn except with *)
(* its task, and no alert but that of the assignee whom a reassignment     *)
(* replaces, or means to: whatever the requests, the bell and the job do,  *)
(* as long as nobody edits notices in the Admin.                           *)
THEOREM WithdrawalsAreReassignments ==
    ASSUME NoticesLeftAlone
    PROVE  AppSpec => NoticesWithdrawnOnlyByReassignment
<1>1. AppTypeOK /\ [AppNext]_appVars => [WithdrawnRightly]_appVars
  BY EveryWithdrawal
<1>. QED
  BY <1>1, AppTypeCorrect, PTL
     DEF AppSpec, NoticesWithdrawnOnlyByReassignment, WithdrawnRightly

-----------------------------------------------------------------------------
(* The assignee of a task that the Admin has not touched has been told, or *)
(* took it himself.  It must be known of the instances too, since a stale  *)
(* one puts its assignee back into the table without a word.               *)
Touched(t) ==
    \E i \in 1 .. Len(history[t]) : history[t][i].by \in Staff

Told(t, u) ==
    \/ Has(t, u, "assigned") \/ Has(t, u, "reassigned")
    \/ \E i \in 1 .. Len(history[t]) :
           history[t][i].by = u /\ history[t][i].row.assignee = u

Known(t, a) == (a \in User /\ ~Touched(t)) => Told(t, a)

AssigneesKnown ==
    /\ \A t \in Task : db[t] # NoRow => Known(t, db[t].assignee)
    /\ \A w \in Worker : Busy(w) => Known(req[w].task, req[w].inst.assignee)

\* Of the notices that are not alerts, none is lost but those of a task in F.
KeptOutside(F) ==
    \A k \in Key : (notice[k] # "none" /\ k[3] \notin AlertKind /\ k[1] \notin F)
        => notice'[k] # "none"

LEMMA HasKept ==
    ASSUME NEW t \in Task, NEW u \in User, NEW kind \in Kind \ AlertKind,
           NEW F, KeptOutside(F), t \notin F, Has(t, u, kind)
    PROVE  Has(t, u, kind)'
<1> DEFINE k == <<t, u, kind>>
<1>1. k \in Key /\ k[1] = t /\ k[3] = kind
  BY DEF Key
<1>2. notice[k] # "none"
  BY DEF Has
<1> HIDE DEF k
<1>3. notice'[k] # "none"
  BY <1>1, <1>2 DEF KeptOutside
<1>. QED
  BY <1>3 DEF Has, k

LEMMA KnownQuietly ==
    ASSUME NEW t \in Task, NEW a, Known(t, a),
           history' = history, KeptOutside({})
    PROVE  Known(t, a)'
<1> SUFFICES ASSUME a \in User, ~Touched(t)' PROVE Told(t, a)'
  BY DEF Known
<1>1. Told(t, a)
  BY DEF Known, Touched
<1>. QED
  BY <1>1, HasKept DEF Told, Kind, AlertKind

LEMMA KnownKept ==
    ASSUME TypeOK, NEW x \in Task, NEW e \in HistoryRow, Appended(x, e),
           KeptOutside(IF e.by \in Staff THEN {x} ELSE {}),
           NEW t \in Task, NEW a, Known(t, a)
    PROVE  Known(t, a)'
<1> SUFFICES ASSUME a \in User, ~Touched(t)' PROVE Told(t, a)'
  BY DEF Known
<1>1. /\ Len(history[t]) \in Nat /\ Len(history'[t]) \in Nat
      /\ Len(history[t]) <= Len(history'[t])
      /\ \A i \in 1 .. Len(history[t]) : history'[t][i] = history[t][i]
  <2>1. history[t] \in Seq(HistoryRow)
    BY DEF TypeOK
  <2>. QED
    BY <2>1, AppendedHistory
<1>2. Told(t, a)
  BY <1>1 DEF Known, Touched
<1>3. t \notin (IF e.by \in Staff THEN {x} ELSE {})
  <2> SUFFICES ASSUME t = x, e.by \in Staff PROVE FALSE
    OBVIOUS
  <2>1. Len(history'[x]) \in 1 .. Len(history'[x])
            /\ history'[x][Len(history'[x])] = e
    BY AppendedHistory
  <2>. QED
    BY <2>1 DEF Touched
<1>4. ASSUME NEW kind \in {"assigned", "reassigned"}, Has(t, a, kind)
      PROVE  Has(t, a, kind)'
  <2>1. kind \in Kind \ AlertKind
    BY DEF Kind, AlertKind
  <2>. QED
    BY <1>3, <1>4, <2>1, HasKept
<1>. QED
  BY <1>1, <1>2, <1>4 DEF Told

(* A write whose assignee is known afterwards.                             *)
LEMMA KnownWrite ==
    ASSUME TypeOK, AssigneesKnown,
           NEW x \in Task, NEW e \in HistoryRow, Appended(x, e),
           KeptOutside(IF e.by \in Staff THEN {x} ELSE {}),
           \/ Known(x, e.row.assignee)
           \/ Known(x, e.row.assignee)'
           \/ e.by = e.row.assignee
           \/ e.by \in Staff,
           \A t \in Task \ {x} : db'[t] = db[t],
           db'[x] # NoRow => db'[x].assignee = e.row.assignee,
           \A w \in Worker :
               \/ req'[w] = req[w]
               \/ req'[w] = Idle
               \/ req'[w].task = x /\ req'[w].inst.assignee = e.row.assignee
    PROVE  AssigneesKnown'
<1>1. Len(history'[x]) \in 1 .. Len(history'[x])
          /\ history'[x][Len(history'[x])] = e
  BY AppendedHistory
<1>2. Known(x, e.row.assignee)'
  <2>1. CASE Known(x, e.row.assignee)
    BY <2>1, KnownKept
  <2>2. CASE e.by = e.row.assignee
    BY <1>1, <2>2 DEF Known, Told
  <2>3. CASE e.by \in Staff
    BY <1>1, <2>3 DEF Known, Touched
  <2>. QED
    BY <2>1, <2>2, <2>3
<1>3. ASSUME NEW t \in Task, db'[t] # NoRow
      PROVE  Known(t, db[t].assignee)'
  <2>1. CASE t = x
    BY <1>2, <1>3, <2>1
  <2>2. CASE t # x
    <3>1. db'[t] = db[t] /\ Known(t, db[t].assignee)
      BY <1>3, <2>2 DEF AssigneesKnown
    <3>. QED
      BY <3>1, KnownKept
  <2>. QED
    BY <2>1, <2>2
<1>4. ASSUME NEW w \in Worker, Busy(w)'
      PROVE  Known(req[w].task, req[w].inst.assignee)'
  <2>1. CASE req'[w] = req[w]
    <3>1. Known(req[w].task, req[w].inst.assignee) /\ req[w].task \in Task
      BY <1>4, <2>1, BusyType DEF AssigneesKnown, Busy
    <3>. QED
      BY <2>1, <3>1, KnownKept
  <2>2. CASE req'[w].task = x /\ req'[w].inst.assignee = e.row.assignee
    BY <1>2, <2>2
  <2>. QED
    BY <1>4, <2>1, <2>2 DEF Busy
<1>. QED
  BY <1>3, <1>4 DEF AssigneesKnown

LEMMA KnownSave ==
    ASSUME TypeOK, AssigneesKnown,
           NEW t \in Task, NEW inst \in Row, NEW u \in User, save(t, inst, u),
           KeptOutside({}),
           \/ Known(t, inst.assignee)
           \/ Known(t, inst.assignee)'
           \/ u = inst.assignee
           \/ u \in Staff,
           \A w \in Worker : req'[w] = req[w] \/ req'[w] = Idle
    PROVE  AssigneesKnown'
<1>1. PICK e \in HistoryRow : e.row = inst /\ e.by = u /\ Appended(t, e)
  BY SaveAppends
<1>2. db'[t] = inst /\ \A x \in Task \ {t} : db'[x] = db[x]
  BY SaveAppends
<1>3. KeptOutside(IF e.by \in Staff THEN {t} ELSE {})
  BY DEF KeptOutside
<1>. QED
  BY <1>1, <1>2, <1>3, KnownWrite

LEMMA NothingLost == UNCHANGED notice => KeptOutside({})
BY DEF KeptOutside

LEMMA GrowthLosesNothing == Grows(notice, notice') => KeptOutside({})
BY DEF KeptOutside, Grows

LEMMA AssigneesKnownNext ==
    ASSUME AppTypeOK, NoticesLeftAlone, AssigneesKnown, [AppNext]_appVars
    PROVE  AssigneesKnown'
<1> USE Inputs DEF AppTypeOK
<1>1. ASSUME db' = db, history' = history, KeptOutside({}),
             \A w \in Worker :
                 \/ req'[w] = req[w]
                 \/ req'[w] = Idle
                 \/ /\ req'[w].task \in Task
                    /\ db[req'[w].task] # NoRow
                    /\ req'[w].inst = db[req'[w].task]
      PROVE  AssigneesKnown'
  <2>1. ASSUME NEW t \in Task, db'[t] # NoRow
        PROVE  Known(t, db[t].assignee)'
    BY <1>1, <2>1, KnownQuietly DEF AssigneesKnown
  <2>2. ASSUME NEW w \in Worker, Busy(w)'
        PROVE  Known(req[w].task, req[w].inst.assignee)'
    <3>1. CASE req'[w] = req[w]
      <4>1. Known(req[w].task, req[w].inst.assignee) /\ req[w].task \in Task
        BY <2>2, <3>1, BusyType DEF AssigneesKnown, Busy
      <4>. QED
        BY <1>1, <3>1, <4>1, KnownQuietly
    <3>2. CASE /\ req'[w].task \in Task
               /\ db[req'[w].task] # NoRow
               /\ req'[w].inst = db[req'[w].task]
      <4>1. PICK t \in Task : t = req'[w].task
        BY <3>2
      <4>2. Known(t, db[t].assignee)
        BY <3>2, <4>1 DEF AssigneesKnown
      <4>. QED
        BY <1>1, <3>2, <4>1, <4>2, KnownQuietly
    <3>. QED
      BY <1>1, <2>2, <3>1, <3>2 DEF Busy
  <2>. QED
    BY <2>1, <2>2 DEF AssigneesKnown
<1>2. ASSUME NEW w \in Worker, NEW u \in User, NEW t \in Task, Load(w, u, t)
      PROVE  AssigneesKnown'
  <2>1. load(w, u, t) /\ KeptOutside({})
    BY <1>2, NothingLost DEF Load
  <2>2. /\ req'[w].task = t /\ req'[w].inst = db[t] /\ db[t] # NoRow
        /\ \A v \in Worker \ {w} : req'[v] = req[v]
        /\ db' = db /\ history' = history
    BY <2>1 DEF load, TypeOK
  <2>. QED
    BY <1>1, <2>1, <2>2
<1>3. ASSUME NEW w \in Worker, NEW u \in User, NEW t \in Task, Create(w, u, t)
      PROVE  AssigneesKnown'
  <2>1. PICK a \in Assignee, p \in PriorityInput :
            save(t, [status |-> "new", completed_at |-> "null",
                     cancelled_at |-> "null", blocker |-> "blank",
                     assignee |-> a, opened_by |-> u, priority |-> p], u)
    BY <1>3 DEF Create, create_task
  <2> DEFINE row == [status |-> "new", completed_at |-> "null",
                     cancelled_at |-> "null", blocker |-> "blank",
                     assignee |-> a, opened_by |-> u, priority |-> p]
  <2>2. row \in Row /\ row.assignee = a
    BY DEF Row, Status, Stamp, Blocker
  <2>3. req' = req /\ db'[t] = row
    BY <1>3, <2>1, <2>2, SaveAppends DEF Create, create_task
  <2>4. save(t, row, u)
    BY <2>1
  <2> HIDE DEF row
  <2>5. KeptOutside({})
    BY <1>3, CreateGrows, GrowthLosesNothing
  <2>6. (a \in User /\ a # u) => Told(t, a)'
    BY <1>3, <2>2, <2>3, CreateGrows DEF Told
  <2>7. Known(t, row.assignee)' \/ u = row.assignee
    BY <2>2, <2>6 DEF Known, Told, Touched
  <2>. QED
    BY <2>2, <2>3, <2>4, <2>5, <2>7, KnownSave
<1>4. ASSUME NEW w \in Worker, NEW u \in User, NEW t \in Task,
             AdminAdd(w, u, t) \/ AdminRevert(w, u, t)
      PROVE  AssigneesKnown'
  <2>1. PICK row \in Row : save(t, row, u)
    BY <1>4, AdminSaves DEF AdminAdd, AdminRevert
  <2>2. u \in Staff /\ req' = req /\ KeptOutside({})
    BY <1>4, AdminSaves, NothingLost DEF AdminAdd, AdminRevert
  <2>. QED
    BY <2>1, <2>2, KnownSave
<1>5. ASSUME NEW w \in Worker, NEW new \in Status, NEW blocker \in Blocker,
             ChangeStatus(w, new, blocker)
      PROVE  AssigneesKnown'
  <2>1. change_status(w, new, blocker) /\ Busy(w)
    BY <1>5 DEF ChangeStatus, change_status, Loaded
  <2> DEFINE row == moved(req[w].inst, new, blocker)
  <2>2. row \in Row
    BY <2>1, BusyType, MovedIsRow
  <2>3. row.assignee = req[w].inst.assignee
    BY <2>1, BusyType DEF moved, Row
  <2>4. Known(req[w].task, row.assignee)
    BY <2>1, <2>3 DEF AssigneesKnown
  <2>5. save(req[w].task, row, req[w].user)
    BY <2>1 DEF change_status
  <2>6. KeptOutside({})
    BY <1>5, ChangeStatusGrows, GrowthLosesNothing
  <2> HIDE DEF row
  <2>. QED
    BY <2>1, <2>2, <2>4, <2>5, <2>6, BusyType, FinishEnds, KnownSave
       DEF change_status
<1>6. ASSUME NEW w \in Worker, NEW a \in Assignee, Assign(w, a)
      PROVE  AssigneesKnown'
  <2>1. assign_task(w, a)
    BY <1>6 DEF Assign
  <2>2. Busy(w) /\ req[w] \in Request
    BY <2>1, AssignAppends
  <2>3. PICK t \in Task : t = req[w].task
    BY <2>2, BusyType
  <2>4. PICK e \in HistoryRow :
            Appended(t, e) /\ e.by = req[w].user /\ e.row.assignee = a
    <3>1. \E e \in HistoryRow :
              /\ Appended(req[w].task, e)
              /\ e.by = req[w].user /\ e.row.assignee = a
      BY <2>1, AssignAppends
    <3>. QED
      BY <2>3, <3>1 DEF Appended
  <2>5. db'[t].assignee = a /\ \A x \in Task \ {t} : db'[x] = db[x]
    <3>1. /\ db[t] \in Row
          /\ db'[t] = [db[t] EXCEPT !.assignee = a]
          /\ \A x \in Task \ {t} : db'[x] = db[x]
      BY <2>1, <2>3, AssignAppends
    <3>. QED
      BY <3>1 DEF Row
  <2>6. \A v \in Worker :
            \/ req'[v] = req[v]
            \/ req'[v] = Idle
            \/ req'[v].task = t /\ req'[v].inst.assignee = a
    <3> DEFINE inst == [req[w].inst EXCEPT !.assignee = a]
    <3>1. CASE finish(w)
      BY <3>1, FinishEnds
    <3>2. CASE req' = [req EXCEPT ![w].stage = "assigned", ![w].inst = inst]
      <4>1. /\ req'[w] = [req[w] EXCEPT !.stage = "assigned", !.inst = inst]
            /\ \A v \in Worker \ {w} : req'[v] = req[v]
        BY <3>2 DEF TypeOK
      <4>2. req'[w].task = req[w].task /\ req'[w].inst = inst
        BY <2>2, <4>1 DEF Request
      <4>3. inst.assignee = a
        BY <2>2, BusyType DEF Row
      <4>. QED
        BY <2>3, <4>1, <4>2, <4>3
    <3>. QED
      BY <2>1, <3>1, <3>2 DEF assign_task
  <2>7. KeptOutside({})
    BY <1>6, AssignPrunes DEF KeptOutside
  <2>8. Known(t, a)' \/ e.by = a
    <3>1. (t \in Task /\ a \in User /\ a # e.by)
              => notice'[<<t, a, "reassigned">>] # "none"
      BY <1>6, <2>3, <2>4, AssignPrunes
    <3>. QED
      BY <3>1 DEF Known, Told, Has
  <2>9. KeptOutside(IF e.by \in Staff THEN {t} ELSE {})
    BY <2>7 DEF KeptOutside
  <2>10. Known(t, e.row.assignee)' \/ e.by = e.row.assignee
    BY <2>4, <2>8
  <2>. QED
    BY <2>4, <2>5, <2>6, <2>9, <2>10, KnownWrite
<1>7. ASSUME NEW w \in Worker, Update(w)
      PROVE  AssigneesKnown'
  <2>1. update_task_fields(w) /\ Busy(w) /\ KeptOutside({})
    BY <1>7, NothingLost DEF Update, update_task_fields
  <2>2. PICK p \in PriorityInput \cup {req[w].inst.priority} :
            save(req[w].task, [req[w].inst EXCEPT !.priority = p], req[w].user)
    BY <2>1 DEF update_task_fields
  <2> DEFINE row == [req[w].inst EXCEPT !.priority = p]
  <2>3. row \in Row /\ row.assignee = req[w].inst.assignee
    BY <2>1, BusyType DEF Row
  <2>4. Known(req[w].task, row.assignee)
    BY <2>1, <2>3 DEF AssigneesKnown
  <2>5. save(req[w].task, row, req[w].user)
    BY <2>2
  <2> HIDE DEF row
  <2>. QED
    BY <2>1, <2>3, <2>4, <2>5, BusyType, FinishEnds, KnownSave
       DEF update_task_fields
<1>8. ASSUME NEW w \in Worker, AdminChange(w)
      PROVE  AssigneesKnown'
  <2>1. admin_change(w) /\ Busy(w) /\ KeptOutside({})
    BY <1>8, NothingLost DEF AdminChange, admin_change, Loaded
  <2>2. PICK row \in Row : save(req[w].task, row, req[w].user)
    BY <2>1, BusyType, FilledIsRow DEF admin_change
  <2>. QED
    BY <2>1, <2>2, BusyType, FinishEnds, KnownSave DEF admin_change
<1>9. ASSUME NEW w \in Worker, AdminDelete(w)
      PROVE  AssigneesKnown'
  <2>1. admin_delete(w) /\ Busy(w)
    BY <1>9 DEF AdminDelete, admin_delete, Loaded
  <2> DEFINE e == [row |-> req[w].inst, by |-> req[w].user, type |-> "-"]
  <2>2. /\ e \in HistoryRow /\ e.by \in Staff /\ req[w].task \in Task
        /\ Appended(req[w].task, e)
    BY <2>1, BusyType DEF admin_delete, HistoryRow, Assignee, Log, Appended
  <2>3. /\ db'[req[w].task] = NoRow
        /\ \A t \in Task \ {req[w].task} : db'[t] = db[t]
    BY <2>1, BusyType DEF admin_delete, TypeOK
  <2> HIDE DEF e
  <2>4. KeptOutside(IF e.by \in Staff THEN {req[w].task} ELSE {})
    BY <1>9, <2>2, CascadeClears DEF KeptOutside
  <2>5. \A v \in Worker : req'[v] = req[v] \/ req'[v] = Idle
    BY <2>1, FinishEnds DEF admin_delete
  <2>. QED
    BY <2>2, <2>3, <2>4, <2>5, KnownWrite
<1>10. ASSUME NEW w \in Worker, Drop(w)
       PROVE  AssigneesKnown'
  BY <1>1, <1>10, FinishEnds, NothingLost DEF Drop, drop_request
<1>11. ASSUME NEW u \in User, Bell(u)
       PROVE  AssigneesKnown'
  <2>1. KeptOutside({})
    BY <1>11, BellReads DEF KeptOutside
  <2>. QED
    BY <1>1, <1>11, <2>1 DEF Bell, vars
<1>12. CASE RunTaskAlerts
  <2>1. KeptOutside({})
    BY <1>12, AlertsGrow, GrowthLosesNothing
  <2>2. UNCHANGED vars
    BY <1>12 DEF RunTaskAlerts, SelectAlerts, NotifyNext, AbandonRun
  <2>. QED
    BY <1>1, <2>1, <2>2 DEF vars
<1>13. ASSUME NEW u \in User, AdminNotice(u)
       PROVE  AssigneesKnown'
  <2>1. UNCHANGED <<vars, notice>>
    BY <1>13, AdminNoticeIdle
  <2>. QED
    BY <1>1, <2>1, NothingLost DEF vars
<1>14. CASE UNCHANGED appVars
  BY <1>1, <1>14, NothingLost DEF appVars
<1>15. ASSUME NEW w \in Worker, Serve(w)
       PROVE  AssigneesKnown'
  BY <1>2, <1>3, <1>4, <1>5, <1>6, <1>7, <1>8, <1>9, <1>10, <1>15 DEF Serve
<1>. QED
  BY <1>11, <1>12, <1>13, <1>14, <1>15 DEF AppNext

(* Whoever is the assignee of a task that the Admin has left alone knows   *)
(* it, however the requests about it interleave, if the Admin leaves the   *)
(* notices alone too.                                                      *)
UntouchedAssigneeTold ==
    \A t \in Task : \A u \in User :
        (db[t] # NoRow /\ db[t].assignee = u /\ ~Touched(t)) => Told(t, u)

THEOREM UntouchedAssigneesTold ==
    ASSUME NoticesLeftAlone
    PROVE  AppSpec => []UntouchedAssigneeTold
<1>1. AppInit => AssigneesKnown
  BY DEF AppInit, Init, AssigneesKnown, Busy
<1>2. AppTypeOK /\ AssigneesKnown /\ [AppNext]_appVars => AssigneesKnown'
  BY AssigneesKnownNext
<1>3. AssigneesKnown => UntouchedAssigneeTold
  BY DEF AssigneesKnown, Known, UntouchedAssigneeTold
<1>. QED
  BY <1>1, <1>2, <1>3, AppTypeCorrect, PTL DEF AppSpec

(* Without the Admin, which pulls no trigger, every assignee knows.        *)
THEOREM AssigneesAlwaysTold ==
    ASSUME Staff = {}
    PROVE  AppSpec => []AssigneeTold
<1>1. UntouchedAssigneeTold => AssigneeTold
  BY DEF UntouchedAssigneeTold, AssigneeTold, Touched, Told
<1>2. NoticesLeftAlone
  BY DEF NoticesLeftAlone
<1>. QED
  BY <1>1, <1>2, UntouchedAssigneesTold, PTL

-----------------------------------------------------------------------------
(* Steps of workers that hold what the table holds.                        *)
FreshlyDone == \A w \in Worker : req'[w] # req[w] => Fresh(w)

LEMMA FreshSave ==
    ASSUME TypeOK, FreshlyDone, NEW w \in Worker, Busy(w), finish(w),
           NEW row \in Row, save(req[w].task, row, req[w].user)
    PROVE  /\ req[w].task \in Task
           /\ db[req[w].task] = req[w].inst /\ db'[req[w].task] = row
           /\ \A t \in Task \ {req[w].task} : db'[t] = db[t]
           /\ row # NoRow
BY BusyType, FinishChanges, SaveAppends, NoRowIsNotARow DEF FreshlyDone, Fresh

\* One fact about a row that the step leaves as it was.
LEMMA FreshUpdate ==
    ASSUME TypeOK, FreshlyDone, NEW w \in Worker, Update(w),
           NEW t \in Task, db[t] # NoRow
    PROVE  /\ db'[t] # NoRow
           /\ db'[t].assignee = db[t].assignee
           /\ db'[t].status = db[t].status
<1>1. update_task_fields(w) /\ Busy(w) /\ finish(w)
  BY DEF Update, update_task_fields
<1>2. PICK p \in PriorityInput \cup {req[w].inst.priority} :
          save(req[w].task, [req[w].inst EXCEPT !.priority = p], req[w].user)
  BY <1>1 DEF update_task_fields
<1>3. PICK row \in Row :
          /\ row.assignee = req[w].inst.assignee
          /\ row.status = req[w].inst.status
          /\ save(req[w].task, row, req[w].user)
  <2> DEFINE r == [req[w].inst EXCEPT !.priority = p]
  <2>1. /\ r \in Row
        /\ r.assignee = req[w].inst.assignee /\ r.status = req[w].inst.status
    BY <1>1, Inputs, BusyType DEF Row
  <2>2. save(req[w].task, r, req[w].user)
    BY <1>2
  <2> HIDE DEF r
  <2>. QED
    BY <2>1, <2>2
<1>. QED
  BY <1>1, <1>3, FreshSave

LEMMA FreshMove ==
    ASSUME TypeOK, FreshlyDone, NEW w \in Worker, NEW new \in Status,
           NEW blocker \in Blocker, ChangeStatus(w, new, blocker),
           NEW t \in Task, db[t] # NoRow
    PROVE  db'[t] # NoRow /\ db'[t].assignee = db[t].assignee
<1>1. change_status(w, new, blocker) /\ Busy(w) /\ finish(w)
  BY DEF ChangeStatus, change_status, Loaded
<1>2. PICK row \in Row :
          /\ row.assignee = req[w].inst.assignee
          /\ save(req[w].task, row, req[w].user)
  <2> DEFINE r == moved(req[w].inst, new, blocker)
  <2>1. r \in Row
    BY <1>1, BusyType, MovedIsRow
  <2>2. r.assignee = req[w].inst.assignee
    BY <1>1, BusyType DEF moved, Row
  <2>3. save(req[w].task, r, req[w].user)
    BY <1>1 DEF change_status
  <2> HIDE DEF r
  <2>. QED
    BY <2>1, <2>2, <2>3
<1>. QED
  BY <1>1, <1>2, FreshSave

LEMMA FreshAssign ==
    ASSUME TypeOK, FreshlyDone, NEW w \in Worker, NEW a \in Assignee,
           assign_task(w, a)
    PROVE  db[req[w].task] = req[w].inst
BY AssignAppends, AssignEnds DEF FreshlyDone, Fresh

\* A creation touches no row that there was.
LEMMA NewRow ==
    ASSUME TypeOK, NEW w \in Worker, NEW u \in User, NEW x \in Task,
           create_task(w, u, x) \/ admin_add(w, u, x),
           NEW t \in Task, db[t] # NoRow
    PROVE  db'[t] = db[t]
<1>1. db[x] = NoRow /\ \E row \in Row : save(x, row, u)
  <2>1. CASE create_task(w, u, x)
    BY <2>1, Inputs DEF create_task, Unused, Row, Status, Stamp, Blocker
  <2>2. CASE admin_add(w, u, x)
    BY <2>2, AdminSaves DEF admin_add, Unused
  <2>. QED
    BY <2>1, <2>2
<1>. QED
  BY <1>1, SaveAppends

-----------------------------------------------------------------------------
(* Watchers are told by the one step that moves the status of a task,      *)
(* unless the Admin reverts it.                                            *)
WatchersHear ==
    \A t \in Task : (StatusMoves(t) /\ ~ Reverted(t))
        => \A u \in watchers'[t] \ {NextBy(t)} :
               notice'[<<t, u, "status_changed">>] # "none"

LEMMA OnlyChangeStatusMoves ==
    ASSUME AppTypeOK, FreshlyDone, [AppNext]_appVars,
           NEW t \in Task, StatusMoves(t), ~ Reverted(t)
    PROVE  \E w \in Worker, new \in Status, blocker \in Blocker :
               ChangeStatus(w, new, blocker) /\ req[w].task = t
<1> USE DEF AppTypeOK
<1>1. db[t] # NoRow /\ db'[t] # NoRow /\ db'[t] # db[t]
        /\ db'[t].status # db[t].status
  BY DEF StatusMoves
<1>2. ASSUME NEW w \in Worker, NEW new \in Status, NEW blocker \in Blocker,
             ChangeStatus(w, new, blocker)
      PROVE  req[w].task = t
  BY <1>1, <1>2, BusyType
     DEF ChangeStatus, change_status, Loaded, save, TypeOK
<1>3. ASSUME NEW w \in Worker, NEW a \in Assignee, Assign(w, a)
      PROVE  FALSE
  <2>1. /\ \A x \in Task \ {req[w].task} : db'[x] = db[x]
        /\ db[req[w].task] \in Row
        /\ db'[req[w].task] = [db[req[w].task] EXCEPT !.assignee = a]
    BY <1>3, AssignAppends DEF Assign
  <2>2. db'[req[w].task].status = db[req[w].task].status
    BY <2>1 DEF Row
  <2>. QED
    BY <1>1, <2>1, <2>2
<1>4. ASSUME NEW w \in Worker, Update(w)
      PROVE  FALSE
  BY <1>1, <1>4, FreshUpdate
<1>5. ASSUME NEW w \in Worker, AdminChange(w)
      PROVE  FALSE
  <2>1. admin_change(w) /\ Busy(w) /\ finish(w)
    BY <1>5 DEF AdminChange, admin_change, Loaded
  <2>2. PICK row \in Row :
            row.status = req[w].inst.status /\ save(req[w].task, row, req[w].user)
    <3>1. PICK form \in FormInput :
              save(req[w].task, filled(req[w].inst, form), req[w].user)
      BY <2>1 DEF admin_change
    <3> DEFINE r == filled(req[w].inst, form)
    <3>2. r \in Row /\ r.status = req[w].inst.status
      BY <2>1, BusyType, FilledIsRow
    <3>3. save(req[w].task, r, req[w].user)
      BY <3>1
    <3> HIDE DEF r
    <3>. QED
      BY <3>2, <3>3
  <2>. QED
    BY <1>1, <2>1, <2>2, FreshSave
<1>6. ASSUME NEW w \in Worker, AdminDelete(w)
      PROVE  FALSE
  <2>1. /\ req[w].task \in Task
        /\ db' = [db EXCEPT ![req[w].task] = NoRow]
    BY <1>6, BusyType DEF AdminDelete, admin_delete, Loaded
  <2>. QED
    BY <1>1, <2>1 DEF TypeOK
<1>7. ASSUME NEW w \in Worker, NEW u \in User, NEW x \in Task,
             Create(w, u, x) \/ AdminAdd(w, u, x)
      PROVE  FALSE
  BY <1>1, <1>7, NewRow DEF Create, AdminAdd
<1>8. ASSUME NEW w \in Worker, NEW u \in User, NEW x \in Task, AdminRevert(w, u, x)
      PROVE  FALSE
  <2>1. PICK row \in Row : save(x, row, u)
    BY <1>8, AdminSaves DEF AdminRevert
  <2>2. x # t
    BY <1>8 DEF AdminRevert, Reverted
  <2>. QED
    BY <1>1, <2>1, <2>2, SaveAppends
<1>9. CASE UNCHANGED db
  BY <1>1, <1>9
<1>10. ASSUME NEW w \in Worker, Serve(w)
       PROVE  \E v \in Worker, new \in Status, blocker \in Blocker :
                  ChangeStatus(v, new, blocker) /\ req[v].task = t
  BY <1>2, <1>3, <1>4, <1>5, <1>6, <1>7, <1>8, <1>9, <1>10
     DEF Serve, Load, load, Drop, drop_request
<1>. QED
  BY <1>9, <1>10
     DEF AppNext, Bell, AdminNotice, RunTaskAlerts, SelectAlerts, NotifyNext,
         AbandonRun, vars, appVars

LEMMA EveryMoveHeard ==
    ASSUME AppTypeOK, FreshlyDone, [AppNext]_appVars
    PROVE  WatchersHear
<1> USE DEF AppTypeOK
<1> SUFFICES ASSUME NEW t \in Task, StatusMoves(t), ~ Reverted(t),
                    NEW u \in watchers'[t] \ {NextBy(t)}
             PROVE  notice'[<<t, u, "status_changed">>] # "none"
  BY DEF WatchersHear
<1>1. PICK w \in Worker, new \in Status, blocker \in Blocker :
          ChangeStatus(w, new, blocker) /\ req[w].task = t
  BY OnlyChangeStatusMoves
<1>2. change_status(w, new, blocker) /\ Busy(w) /\ watchers' = watchers
  BY <1>1 DEF ChangeStatus, change_status, Loaded
<1>3. PICK by \in User : by = req[w].user
  BY <1>2, BusyType
<1>4. PICK row \in Row : save(t, row, by)
  BY <1>1, <1>2, <1>3, BusyType, MovedIsRow DEF change_status
<1>5. NextBy(t) = by
  <2>1. PICK e \in HistoryRow : Appended(t, e) /\ e.by = by
    BY <1>4, SaveAppends
  <2>. QED
    BY <2>1, AppendIsSave
<1>6. u \in User /\ u \in watchers[t] /\ u # by
  BY <1>2, <1>5 DEF TypeOK
<1>. QED
  BY <1>1, <1>3, <1>6, ChangeStatusGrows

(* Any number of workers: a step that writes no stale instance moves the   *)
(* status of no task behind the back of its watchers.                      *)
THEOREM FreshMovesHeard == AppSpec => [][FreshlyDone => WatchersHear]_appVars
<1>1. AppTypeOK /\ [AppNext]_appVars => [FreshlyDone => WatchersHear]_appVars
  BY EveryMoveHeard
<1>. QED
  BY <1>1, AppTypeCorrect, PTL DEF AppSpec

(* With a single worker every change of status is told, but for reverts in *)
(* the Admin.                                                              *)
THEOREM SerialWatchersTold ==
    ASSUME NEW w0, Worker = {w0}
    PROVE  AppSpec => WatchersTold
<1>1. AppTypeOK /\ AllFresh /\ [AppNext]_appVars => [WatchersHear]_appVars
  BY EveryMoveHeard DEF AllFresh, FreshlyDone
<1>2. AppSpec => []AllFresh
  BY AppImplementsService, SerialIsFresh, PTL
<1>. QED
  BY <1>1, <1>2, AppTypeCorrect, PTL DEF AppSpec, WatchersTold, WatchersHear

-----------------------------------------------------------------------------
(* No step leaves an alert behind, and the job only late ones.             *)
AlertsFollow ==
    \A t \in Task : \A u \in User :
        Misplaced(t, u)' => Misplaced(t, u) \/ ToldLate(t, u)

\* Alerts that are not new, of a task that keeps its assignee.
LEMMA StillMisplaced ==
    ASSUME NEW t \in Task, NEW u \in User, Misplaced(t, u)',
           notice'[<<t, u, "due_soon">>] = "unread"
               => notice[<<t, u, "due_soon">>] = "unread",
           db[t] # NoRow => db'[t] # NoRow /\ db'[t].assignee = db[t].assignee
    PROVE  Misplaced(t, u)
BY DEF Misplaced

LEMMA EveryAlertFollows ==
    ASSUME AppTypeOK, FreshlyDone, [AppNext]_appVars, Staff = {}
    PROVE  AlertsFollow
<1> USE DEF AppTypeOK
<1> SUFFICES ASSUME NEW t \in Task, NEW u \in User, Misplaced(t, u)',
                    ~ ToldLate(t, u)
             PROVE  Misplaced(t, u)
  BY DEF AlertsFollow
<1> DEFINE k == <<t, u, "due_soon">>
<1>0. k \in Key /\ k[1] = t /\ k[2] = u /\ k[3] = "due_soon"
  BY DEF Key, Kind
<1>1. notice'[k] = "unread" /\ (db'[t] # NoRow => db'[t].assignee # u)
  BY DEF Misplaced
<1> SUFFICES (notice[k] = "unread" /\ (db[t] # NoRow =>
                  db'[t] # NoRow /\ db'[t].assignee = db[t].assignee))
                 \/ Misplaced(t, u)
  BY <1>1, StillMisplaced
<1> HIDE DEF k
<1>2. CASE UNCHANGED <<db, notice>>
  BY <1>1, <1>2
<1>3. ASSUME NEW w \in Worker, NEW v \in User, NEW x \in Task, Create(w, v, x)
      PROVE  /\ notice[k] = "unread"
             /\ db[t] # NoRow => db'[t] = db[t]
  <2>1. notice[k] = "unread"
    BY <1>0, <1>1, <1>3, CreateGrows
  <2>. QED
    BY <1>3, <2>1, NewRow DEF Create
<1>5. ASSUME NEW w \in Worker, NEW new \in Status, NEW blocker \in Blocker,
             ChangeStatus(w, new, blocker)
      PROVE  /\ notice[k] = "unread"
             /\ db[t] # NoRow =>
                    db'[t] # NoRow /\ db'[t].assignee = db[t].assignee
  BY <1>0, <1>1, <1>5, ChangeStatusGrows, FreshMove
<1>6. ASSUME NEW w \in Worker, NEW a \in Assignee, Assign(w, a)
      PROVE  Misplaced(t, u)
  <2>1. /\ notice[k] = "unread"
        /\ ~(t = req[w].task /\ u = req[w].inst.assignee)
    BY <1>0, <1>1, <1>6, AssignPrunes DEF AlertKind
  <2>2. db[req[w].task] = req[w].inst
    BY <1>6, FreshAssign DEF Assign
  <2>3. CASE t = req[w].task
    BY <2>1, <2>2, <2>3 DEF Misplaced, k
  <2>4. TypeOK /\ assign_task(w, a)
    BY <1>6 DEF Assign
  <2>5. CASE t # req[w].task
    <3>1. db'[t] = db[t]
      BY <2>5, <2>4, AssignAppends
    <3>2. db[t] # NoRow => db[t].assignee # u
      BY ONLY <1>1, <3>1
    <3>. QED
      BY ONLY <2>1, <3>2 DEF Misplaced, k
  <2>. QED
    BY <2>3, <2>5
<1>7. ASSUME NEW w \in Worker, Update(w)
      PROVE  /\ notice[k] = "unread"
             /\ db[t] # NoRow =>
                    db'[t] # NoRow /\ db'[t].assignee = db[t].assignee
  BY <1>1, <1>7, FreshUpdate DEF Update
<1>8. ASSUME NEW v \in User, Bell(v)
      PROVE  notice[k] = "unread" /\ db' = db
  BY <1>0, <1>1, <1>8, BellReads DEF Bell, vars
<1>9. CASE RunTaskAlerts
  <2>1. db' = db
    BY <1>9 DEF RunTaskAlerts, SelectAlerts, NotifyNext, AbandonRun, vars
  <2>2. notice'[k] = notice[k]
    BY <1>0, <1>9, AlertsGrow DEF ToldLate, k
  <2>. QED
    BY <1>1, <2>1, <2>2
<1>10. \A w \in Worker, v \in User, x \in Task :
           /\ ~ AdminAdd(w, v, x) /\ ~ AdminRevert(w, v, x) /\ ~ AdminChange(w)
           /\ ~ AdminDelete(w)
  BY DEF AdminAdd, admin_add, AdminRevert, admin_revert, AdminChange,
         admin_change, AdminDelete, admin_delete
<1>11. ASSUME NEW w \in Worker, Serve(w)
       PROVE  \/ /\ notice[k] = "unread"
                 /\ db[t] # NoRow =>
                        db'[t] # NoRow /\ db'[t].assignee = db[t].assignee
              \/ Misplaced(t, u)
  BY <1>2, <1>3, <1>5, <1>6, <1>7, <1>10, <1>11
     DEF Serve, Load, load, Drop, drop_request
<1>12. CASE UNCHANGED appVars
  BY <1>2, <1>12 DEF appVars
<1>13. CASE AppNext
  <2>1. \A v \in User : ~ AdminNotice(v)
    BY DEF AdminNotice
  <2>. QED
    BY <1>8, <1>9, <1>11, <1>13, <2>1 DEF AppNext
<1>14. \/ /\ notice[k] = "unread"
          /\ db[t] # NoRow =>
                 db'[t] # NoRow /\ db'[t].assignee = db[t].assignee
       \/ Misplaced(t, u)
  BY <1>12, <1>13
<1>. QED
  BY <1>2, <1>14

(* Without the Admin, only the write of a stale instance, and the job when *)
(* it tells whoever was the assignee when it asked, can leave a pending    *)
(* alert with somebody who is not the assignee.                            *)
THEOREM AlertsAlwaysMove ==
    ASSUME Staff = {}
    PROVE  AppSpec => AlertsMoveWithTheTask
<1>1. AppTypeOK /\ [AppNext]_appVars
          => [FreshlyDone => AlertsFollow]_appVars
  BY EveryAlertFollows
<1>. QED
  BY <1>1, AppTypeCorrect, PTL
     DEF AppSpec, AlertsMoveWithTheTask, FreshlyDone, AlertsFollow
=============================================================================
