---------------------------- MODULE AlertJobProofs ----------------------------
(***************************************************************************)
(* Proofs about AlertJob, for any number of users and tasks, any due dates *)
(* and any number of runs that are killed.                                 *)
(*                                                                         *)
(* RunComplete is about completed runs, so the induction is about one that *)
(* is under way: what it has yet to do for a task that nobody has touched  *)
(* since it began is in its queue, and the half it has left behind is done *)
(* with.  SecondRunIsNoop needs the converse: what is in the queue for     *)
(* such a task is what the queries return now.                             *)
(***************************************************************************)
EXTENDS AlertJob, TLAPS

\* What the job tells about t, and to whom.
Soon(t, u) ==
    Active(t) /\ task[t].due_date = today + 2 /\ u = task[t].assignee
PastDue(t, u) == t \in tasks_overdue /\ ConcernedBy(t, u)

SoonTold(t) == \A u \in User : Soon(t, u) => Has(t, u, "due_soon")
PastDueTold(t) == \A u \in User : PastDue(t, u) => Has(t, u, "overdue")

SettledTold == \A t \in settled : SoonTold(t) /\ PastDueTold(t)

FirstHalf ==
    phase = "due_soon" =>
        \A t \in Task \ touched : \A u \in User :
            Soon(t, u) => Has(t, u, "due_soon") \/ <<t, u>> \in queue

SecondHalf ==
    phase = "overdue" =>
        \A t \in Task \ touched :
            /\ SoonTold(t)
            /\ \A u \in User :
                   PastDue(t, u) => Has(t, u, "overdue") \/ <<t, u>> \in queue

QueueCurrent ==
    \A t \in Task \ touched : \A u \in User : <<t, u>> \in queue =>
        /\ phase = "due_soon" => Soon(t, u)
        /\ phase = "overdue" => PastDue(t, u)

Progress ==
    /\ SettledTold
    /\ FirstHalf
    /\ SecondHalf
    /\ QueueCurrent
    /\ settled \cap touched = {}

IInv == TypeOK /\ Progress

-----------------------------------------------------------------------------
(* Types.                                                                  *)
LEMMA InitType == Init => TypeOK
BY Calendar DEF Init, TypeOK, NoticeInit, NoticeTypeOK, NoticeState, Assignee

LEMMA NotifyType ==
    ASSUME NEW n \in [Key -> NoticeState], NEW t, NEW users, NEW kind
    PROVE  notify(n, t, users, kind) \in [Key -> NoticeState]
BY DEF notify, NoticeState

LEMMA PruneType ==
    ASSUME NEW n \in [Key -> NoticeState], NEW t, NEW previous
    PROVE  prune_stale_alerts(n, t, previous) \in [Key -> NoticeState]
BY DEF prune_stale_alerts, NoticeState

LEMMA CascadeType ==
    ASSUME NEW n \in [Key -> NoticeState], NEW t
    PROVE  cascade(n, t) \in [Key -> NoticeState]
BY DEF cascade, NoticeState

LEMMA ExistingTask ==
    ASSUME TypeOK, NEW t \in Task, Exists(t)
    PROVE  task[t] \in Queried
BY DEF TypeOK, Exists

LEMMA RecipientsAreUsers ==
    ASSUME TypeOK, NEW t \in Task, Active(t)
    PROVE  due_soon_recipients(t) \subseteq User /\ overdue_recipients(t) \subseteq User
BY ExistingTask DEF Active, due_soon_recipients, overdue_recipients, Queried, Assignee

LEMMA JobType == ASSUME TypeOK, Job PROVE TypeOK'
<1>1. CASE start
  <2>1. queue' \subseteq Task \X User
    BY <1>1, RecipientsAreUsers DEF start, tasks_due_soon
  <2>. QED
    BY <1>1, <2>1 DEF start, TypeOK, NoticeTypeOK
<1>2. CASE start_overdue
  <2>1. queue' \subseteq Task \X User
    BY <1>2, RecipientsAreUsers DEF start_overdue, tasks_overdue
  <2>. QED
    BY <1>2, <2>1 DEF start_overdue, TypeOK, NoticeTypeOK
<1>3. CASE notify_next
  <2>1. PICK q \in queue :
            /\ notice' = notify(notice, q[1], {q[2]}, phase)
            /\ queue' = queue \ {q}
            /\ current' = IF \E r \in queue' : r[1] = q[1] THEN q[1] ELSE None
            /\ UNCHANGED <<today, task, phase, kills, touched, settled, heir>>
    BY <1>3 DEF notify_next
  <2>2. q[1] \in Task
    BY DEF TypeOK
  <2>3. NoticeTypeOK'
    BY <2>1, NotifyType DEF TypeOK, NoticeTypeOK
  <2>. QED
    BY <2>1, <2>2, <2>3 DEF TypeOK
<1>4. CASE fail
  BY <1>4 DEF fail, off, TypeOK, NoticeTypeOK
<1>5. CASE kill
  BY <1>5, Calendar DEF kill, off, TypeOK, NoticeTypeOK
<1>6. CASE finish
  BY <1>6 DEF finish, off, TypeOK, NoticeTypeOK
<1>. QED
  BY <1>1, <1>2, <1>3, <1>4, <1>5, <1>6 DEF Job

LEMMA TouchType ==
    ASSUME TypeOK, NEW t \in Task, Touch(t)
    PROVE  touched' \subseteq Task /\ settled' \subseteq Task
BY DEF TypeOK, Touch

LEMMA UsersType == ASSUME TypeOK, Users PROVE TypeOK'
<1> USE DEF jobVars
<1>1. ASSUME NEW t \in Task, create_task(t) PROVE TypeOK'
  <2>1. PICK a \in Assignee, d \in DueInput :
            task' = [task EXCEPT ![t] =
                        [active |-> TRUE, assignee |-> a, due_date |-> d]]
    BY <1>1 DEF create_task
  <2>2. [active |-> TRUE, assignee |-> a, due_date |-> d] \in Queried
    BY DEF Queried
  <2>. QED
    BY <1>1, <2>1, <2>2, TouchType DEF create_task, TypeOK, NoticeTypeOK
<1>2. ASSUME NEW t \in Task, change_status(t) PROVE TypeOK'
  <2>1. [task[t] EXCEPT !.active = ~ @] \in Queried
    BY <1>2, ExistingTask DEF change_status, Queried
  <2>. QED
    BY <1>2, <2>1, TouchType DEF change_status, TypeOK, NoticeTypeOK
<1>3. ASSUME NEW t \in Task, set_due_date(t) PROVE TypeOK'
  <2>1. PICK d \in DueInput : task' = [task EXCEPT ![t].due_date = d]
    BY <1>3 DEF set_due_date
  <2>2. [task[t] EXCEPT !.due_date = d] \in Queried
    BY <1>3, ExistingTask DEF set_due_date, Queried
  <2>. QED
    BY <1>3, <2>1, <2>2, TouchType
       DEF set_due_date, TypeOK, NoticeTypeOK, Assignee
<1>4. ASSUME NEW t \in Task, admin_delete(t) PROVE TypeOK'
  BY <1>4, TouchType, CascadeType
     DEF admin_delete, TypeOK, NoticeTypeOK, Assignee
<1>5. ASSUME NEW t \in Task, NEW a \in Assignee, assign_task(t, a) PROVE TypeOK'
  <2>1. [task[t] EXCEPT !.assignee = a] \in Queried
    BY <1>5, ExistingTask DEF assign_task, Queried
  <2>2. task' \in [Task -> Queried \cup {NoTask, Deleted}]
    BY <1>5, <2>1 DEF assign_task, TypeOK
  <2>3. notice' \in [Key -> NoticeState]
    BY <1>5, PruneType DEF assign_task, TypeOK, NoticeTypeOK
  <2>4. heir' \in [Task -> Assignee]
    BY <1>5 DEF assign_task, TypeOK, Assignee
  <2>. QED
    BY <1>5, <2>2, <2>3, <2>4, TouchType DEF assign_task, TypeOK, NoticeTypeOK
<1>6. ASSUME NEW u \in User, bell(u) PROVE TypeOK'
  BY <1>6 DEF bell, mark_read, TypeOK, NoticeTypeOK, NoticeState
<1>. QED
  BY <1>1, <1>2, <1>3, <1>4, <1>5, <1>6 DEF Users

LEMMA NextType == ASSUME TypeOK, [Next]_vars PROVE TypeOK'
<1>1. CASE midnight
  BY <1>1, Calendar DEF midnight, TypeOK, NoticeTypeOK, jobVars
<1>2. CASE UNCHANGED vars
  BY <1>2 DEF vars, jobVars, TypeOK, NoticeTypeOK
<1>. QED
  BY <1>1, <1>2, JobType, UsersType DEF Next

(* Every variable keeps its type, and the job leaves no queue behind,      *)
(* whatever happens to its runs.                                           *)
THEOREM TypeCorrect == Spec => []TypeOK
BY InitType, NextType, PTL DEF Spec

-----------------------------------------------------------------------------
(* The table of notices.                                                   *)
LEMMA NoticeKeys ==
    ASSUME NEW t \in Task, NEW u \in User
    PROVE  <<t, u, "due_soon">> \in Key /\ <<t, u, "overdue">> \in Key
BY DEF Key, Kind

\* A notice that was there is left as it was, and the others are added.
LEMMA Notified ==
    ASSUME TypeOK, NEW t \in Task, NEW v \in User, NEW kind \in Kind,
           notice' = notify(notice, t, {v}, kind)
    PROVE  /\ Has(t, v, kind)'
           /\ \A k \in Key : notice[k] # "none" => notice'[k] = notice[k]
           /\ \A k \in Key : k # <<t, v, kind>> => notice'[k] = notice[k]
<1>1. <<t, v, kind>> \in Key
  BY DEF Key
<1>2. \A k \in Key : k = <<k[1], k[2], k[3]>>
  BY DEF Key
<1>. QED
  BY <1>1, <1>2 DEF notify, Has

LEMMA OtherTasksKept ==
    ASSUME NEW t \in Task, NEW k \in Key, k[1] # t
    PROVE  /\ \A a : prune_stale_alerts(notice, t, a)[k] = notice[k]
           /\ cascade(notice, t)[k] = notice[k]
BY DEF prune_stale_alerts, cascade

-----------------------------------------------------------------------------
(* The queries ask about the task alone.                                   *)
LEMMA SameTask ==
    ASSUME NEW t \in Task, task'[t] = task[t], today' = today
    PROVE  \A u \in User : Soon(t, u)' = Soon(t, u) /\ PastDue(t, u)' = PastDue(t, u)
BY DEF Soon, PastDue, ConcernedBy, tasks_overdue, Active, Exists

LEMMA ToldStays ==
    ASSUME NEW t \in Task, task'[t] = task[t], today' = today,
           \A u \in User, kind \in {"due_soon", "overdue"} :
               Has(t, u, kind) => Has(t, u, kind)'
    PROVE  (SoonTold(t) => SoonTold(t)') /\ (PastDueTold(t) => PastDueTold(t)')
BY SameTask DEF SoonTold, PastDueTold

LEMMA InitProgress == Init => Progress
BY DEF Init, Progress, SettledTold, FirstHalf, SecondHalf, QueueCurrent

\* Steps that change neither tasks nor alerts nor how far the run has come.
LEMMA QuietProgress ==
    ASSUME TypeOK, Progress, UNCHANGED <<today, task, phase, queue, touched, settled>>,
           \A k \in Key : notice[k] # "none" => notice'[k] # "none"
    PROVE  Progress'
<1>1. \A t \in Task, u \in User, kind \in {"due_soon", "overdue"} :
          Has(t, u, kind) => Has(t, u, kind)'
  BY NoticeKeys DEF Has
<1>2. \A t \in Task : (SoonTold(t) => SoonTold(t)') /\ (PastDueTold(t) => PastDueTold(t)')
  BY <1>1, ToldStays
<1>3. SettledTold'
  BY <1>2 DEF TypeOK, Progress, SettledTold
<1>4. FirstHalf'
  BY <1>1, SameTask DEF Progress, FirstHalf
<1>5. SecondHalf'
  BY <1>1, <1>2, SameTask DEF Progress, SecondHalf
<1>6. QueueCurrent'
  BY SameTask DEF Progress, QueueCurrent
<1>. QED
  BY <1>3, <1>4, <1>5, <1>6 DEF Progress

\* A user changes one task, and its notices at most: from now on nothing is
\* claimed about it until a run has completed that began later.
LEMMA UserProgress ==
    ASSUME TypeOK, Progress, NEW t \in Task, Touch(t),
           \A x \in Task \ {t} : task'[x] = task[x],
           \A k \in Key : k[1] # t => notice'[k] = notice[k],
           UNCHANGED <<today, phase, queue>>
    PROVE  Progress'
<1>1. \A x \in Task \ {t}, u \in User, kind \in {"due_soon", "overdue"} :
          Has(x, u, kind)' = Has(x, u, kind)
  BY NoticeKeys DEF Has
<1>2. \A x \in Task \ {t} :
          (SoonTold(x) => SoonTold(x)') /\ (PastDueTold(x) => PastDueTold(x)')
  BY <1>1, ToldStays
<1>3. settled' = settled \ {t} /\ (phase # "off" => touched' = touched \cup {t})
  BY DEF Touch
<1>4. SettledTold'
  BY <1>2, <1>3 DEF TypeOK, Progress, SettledTold
<1>5. FirstHalf'
  BY <1>1, <1>3, SameTask DEF Progress, FirstHalf
<1>6. SecondHalf'
  BY <1>1, <1>2, <1>3, SameTask DEF Progress, SecondHalf
<1>7. QueueCurrent'
  <2>1. CASE phase = "off"
    BY <2>1 DEF QueueCurrent, TypeOK
  <2>2. CASE phase # "off"
    BY <2>2, <1>3, SameTask DEF Progress, QueueCurrent
  <2>. QED
    BY <2>1, <2>2
<1>8. settled' \cap touched' = {}
  BY <1>3 DEF Progress, Touch
<1>. QED
  BY <1>4, <1>5, <1>6, <1>7, <1>8 DEF Progress

-----------------------------------------------------------------------------
(* What the job does to Progress.                                          *)
LEMMA StartProgress == ASSUME TypeOK, Progress, start PROVE Progress'
<1>1. \A t \in Task : \A u \in User : Soon(t, u) => <<t, u>> \in queue'
  BY NoneIsNotAUser DEF start, Soon, tasks_due_soon, due_soon_recipients
<1>2. \A t \in Task : \A u \in User : <<t, u>> \in queue' => Soon(t, u)
  BY DEF start, Soon, tasks_due_soon, due_soon_recipients
<1>3. UNCHANGED <<today, task, notice, touched, settled>> /\ phase' = "due_soon"
  BY DEF start
<1>4. \A t \in Task : \A u \in User : Soon(t, u)' = Soon(t, u)
  BY <1>3, SameTask
<1>5. \A t \in Task : (SoonTold(t) => SoonTold(t)') /\ (PastDueTold(t) => PastDueTold(t)')
  BY <1>3, ToldStays DEF Has
<1>6. SettledTold'
  BY <1>3, <1>5 DEF TypeOK, Progress, SettledTold
<1>7. FirstHalf' /\ SecondHalf' /\ QueueCurrent'
  BY <1>1, <1>2, <1>3, <1>4 DEF FirstHalf, SecondHalf, QueueCurrent
<1>. QED
  BY <1>3, <1>6, <1>7 DEF Progress

\* The first half is over: what its queue does not hold any more is told.
LEMMA StartOverdueProgress == ASSUME TypeOK, Progress, start_overdue PROVE Progress'
<1>1. \A t \in Task : \A u \in User : PastDue(t, u) => <<t, u>> \in queue'
  BY NoneIsNotAUser DEF start_overdue, PastDue, ConcernedBy, overdue_recipients
<1>2. \A t \in Task : \A u \in User : <<t, u>> \in queue' => PastDue(t, u)
  BY DEF start_overdue, PastDue, ConcernedBy, overdue_recipients
<1>3. /\ UNCHANGED <<today, task, notice, touched, settled>>
      /\ phase = "due_soon" /\ phase' = "overdue" /\ queue = {}
  BY DEF start_overdue
<1>4. \A t \in Task : \A u \in User : PastDue(t, u)' = PastDue(t, u)
  BY <1>3, SameTask
<1>5. \A t \in Task : (SoonTold(t) => SoonTold(t)') /\ (PastDueTold(t) => PastDueTold(t)')
  BY <1>3, ToldStays DEF Has
<1>6. SettledTold'
  BY <1>3, <1>5 DEF TypeOK, Progress, SettledTold
<1>7. \A t \in Task \ touched : SoonTold(t)
  BY <1>3 DEF Progress, FirstHalf, SoonTold
<1>8. FirstHalf' /\ SecondHalf' /\ QueueCurrent'
  BY <1>1, <1>2, <1>3, <1>4, <1>5, <1>7 DEF FirstHalf, SecondHalf, QueueCurrent
<1>. QED
  BY <1>3, <1>6, <1>8 DEF Progress

\* What notify_next does, in a half that is one of the two kinds.
LEMMA Notifying ==
    ASSUME TypeOK, notify_next
    PROVE  \E t \in Task, u \in User :
               /\ <<t, u>> \in queue
               /\ queue' = queue \ {<<t, u>>}
               /\ phase \in {"due_soon", "overdue"} /\ phase' = phase
               /\ notice' = notify(notice, t, {u}, phase)
               /\ UNCHANGED <<today, task, touched, settled>>
<1>1. PICK q \in queue :
          /\ notice' = notify(notice, q[1], {q[2]}, phase)
          /\ queue' = queue \ {q}
          /\ UNCHANGED <<today, task, phase, kills, touched, settled, heir>>
  BY DEF notify_next
<1>2. q[1] \in Task /\ q[2] \in User /\ q = <<q[1], q[2]>>
  BY DEF TypeOK
<1>3. phase \in {"due_soon", "overdue"}
  BY DEF TypeOK
<1>. QED
  BY <1>1, <1>2, <1>3

LEMMA NotifyProgress == ASSUME TypeOK, Progress, notify_next PROVE Progress'
<1>1. PICK t \in Task, u \in User :
          /\ <<t, u>> \in queue
          /\ queue' = queue \ {<<t, u>>}
          /\ phase \in {"due_soon", "overdue"} /\ phase' = phase
          /\ notice' = notify(notice, t, {u}, phase)
          /\ UNCHANGED <<today, task, touched, settled>>
  BY Notifying
<1>2. Has(t, u, phase)' /\ \A k \in Key : notice[k] # "none" => notice'[k] = notice[k]
  BY <1>1, Notified DEF Kind
<1>3. \A x \in Task, v \in User, kind \in {"due_soon", "overdue"} :
          Has(x, v, kind) => Has(x, v, kind)'
  BY <1>2, NoticeKeys DEF Has
<1>4. \A x \in Task : (SoonTold(x) => SoonTold(x)') /\ (PastDueTold(x) => PastDueTold(x)')
  BY <1>1, <1>3, ToldStays
<1>5. \A x \in Task, v \in User : <<x, v>> \in queue \ queue' => Has(x, v, phase)'
  BY <1>1, <1>2
<1>6. SettledTold'
  BY <1>1, <1>4 DEF TypeOK, Progress, SettledTold
<1>7. FirstHalf'
  BY <1>1, <1>3, <1>5, SameTask DEF Progress, FirstHalf
<1>8. SecondHalf'
  BY <1>1, <1>3, <1>4, <1>5, SameTask DEF Progress, SecondHalf
<1>9. QueueCurrent'
  BY <1>1, SameTask DEF Progress, QueueCurrent
<1>. QED
  BY <1>1, <1>6, <1>7, <1>8, <1>9 DEF Progress

\* A run that ends, whichever way, claims nothing it has not done.
LEMMA OffProgress ==
    ASSUME TypeOK, Progress, off, UNCHANGED <<today, task, notice>>,
           settled' \subseteq Task, \A t \in settled' : SoonTold(t) /\ PastDueTold(t)
    PROVE  Progress'
<1>1. \A t \in Task : (SoonTold(t) => SoonTold(t)') /\ (PastDueTold(t) => PastDueTold(t)')
  BY ToldStays DEF Has
<1>. QED
  BY <1>1 DEF off, Progress, SettledTold, FirstHalf, SecondHalf, QueueCurrent

LEMMA JobProgress == ASSUME TypeOK, Progress, Job PROVE Progress'
<1>1. CASE fail
  BY <1>1, OffProgress DEF fail, TypeOK, Progress, SettledTold
<1>2. CASE kill
  BY <1>2, OffProgress DEF kill, TypeOK, Progress, SettledTold
<1>3. CASE finish
  <2>1. \A t \in Task \ touched : SoonTold(t) /\ PastDueTold(t)
    BY <1>3 DEF finish, Progress, SecondHalf, PastDueTold
  <2>. QED
    BY <1>3, <2>1, OffProgress DEF finish
<1>. QED
  BY <1>1, <1>2, <1>3, StartProgress, StartOverdueProgress, NotifyProgress DEF Job

-----------------------------------------------------------------------------
(* What users and the night do to it.                                      *)
LEMMA UsersProgress == ASSUME TypeOK, Progress, Users PROVE Progress'
<1> USE DEF jobVars
<1>1. ASSUME NEW t \in Task, create_task(t) PROVE Progress'
  BY <1>1, UserProgress DEF create_task, TypeOK
<1>2. ASSUME NEW t \in Task, change_status(t) PROVE Progress'
  BY <1>2, UserProgress DEF change_status, TypeOK
<1>3. ASSUME NEW t \in Task, set_due_date(t) PROVE Progress'
  BY <1>3, UserProgress DEF set_due_date, TypeOK
<1>4. ASSUME NEW t \in Task, admin_delete(t) PROVE Progress'
  BY <1>4, UserProgress, OtherTasksKept DEF admin_delete, TypeOK
<1>5. ASSUME NEW t \in Task, NEW a \in Assignee, assign_task(t, a) PROVE Progress'
  BY <1>5, UserProgress, OtherTasksKept DEF assign_task, TypeOK
<1>6. ASSUME NEW u \in User, bell(u) PROVE Progress'
  BY <1>6, QuietProgress DEF bell, mark_read, TypeOK, NoticeTypeOK
<1>. QED
  BY <1>1, <1>2, <1>3, <1>4, <1>5, <1>6 DEF Users

LEMMA NextProgress == ASSUME TypeOK, Progress, [Next]_vars PROVE Progress'
<1>1. CASE midnight
  BY <1>1 DEF midnight, jobVars, TypeOK, Progress, SettledTold, FirstHalf,
              SecondHalf, QueueCurrent
<1>2. CASE UNCHANGED vars
  BY <1>2, QuietProgress DEF vars, jobVars
<1>. QED
  BY <1>1, <1>2, JobProgress, UsersProgress DEF Next

LEMMA Invariance == Spec => []IInv
<1>1. Init => IInv
  BY InitType, InitProgress DEF IInv
<1>2. IInv /\ [Next]_vars => IInv'
  BY NextType, NextProgress DEF IInv
<1>. QED
  BY <1>1, <1>2, PTL DEF Spec

-----------------------------------------------------------------------------
\* What the properties call late is what the query returns.
LEMMA LateIsOverdue ==
    ASSUME TypeOK, NEW t \in Task, Late(t)
    PROVE  t \in tasks_overdue
<1>1. PICK d \in 1 .. LastDay : task[t].due_date # None /\ task[t].due_date = today + (-d)
  BY DEF Late, DaysLeft
<1>2. today \in Int /\ d \in Int /\ d > 0
  BY Calendar DEF TypeOK
<1>3. task[t].due_date < today
  BY <1>1, <1>2
<1>. QED
  BY <1>1, <1>3 DEF Late, tasks_overdue

(* Whenever a run has completed, every task nobody has changed since it    *)
(* began has all its alerts of the day, and keeps them until somebody      *)
(* changes it or the night falls (run_task_alerts.py 38-67): for any       *)
(* number of tasks and users at work meanwhile, and of runs that died.     *)
THEOREM RunsAreComplete == Spec => []RunComplete
<1>1. ASSUME IInv PROVE RunComplete
  <2> SUFFICES ASSUME NEW t \in settled, NEW u \in User
               PROVE  /\ (Active(t) /\ DaysLeft(t, 2) /\ u = task[t].assignee)
                              => Has(t, u, "due_soon")
                      /\ (Late(t) /\ ConcernedBy(t, u)) => Has(t, u, "overdue")
    BY DEF RunComplete
  <2>1. t \in Task /\ SoonTold(t) /\ PastDueTold(t)
    BY <1>1 DEF IInv, TypeOK, Progress, SettledTold
  <2>2. (Active(t) /\ DaysLeft(t, 2) /\ u = task[t].assignee) => Soon(t, u)
    BY DEF Soon, DaysLeft
  <2>3. (Late(t) /\ ConcernedBy(t, u)) => PastDue(t, u)
    BY <1>1, <2>1, LateIsOverdue DEF IInv, PastDue
  <2>. QED
    BY <2>1, <2>2, <2>3 DEF SoonTold, PastDueTold
<1>. QED
  BY <1>1, Invariance, PTL

(* "Running this command twice in the same day is a no-op the second time" *)
(* (run_task_alerts.py 13-14) for every task that did not change: whatever *)
(* of the queue concerns such a task has been told before.                 *)
THEOREM SecondRunsAreNoops == Spec => SecondRunIsNoop
<1> DEFINE Quiet == Job => \A k \in Key : k[1] \in settled => notice'[k] = notice[k]
<1>1. ASSUME IInv, Job, NEW k \in Key, k[1] \in settled
      PROVE  notice'[k] = notice[k]
  <2>1. CASE notify_next
    <3>1. PICK t \in Task, u \in User :
              /\ <<t, u>> \in queue
              /\ phase \in {"due_soon", "overdue"}
              /\ notice' = notify(notice, t, {u}, phase)
      BY <1>1, <2>1, Notifying DEF IInv
    <3>2. PICK kind \in Kind : kind = phase
      BY <3>1 DEF Kind
    <3>3. /\ \A j \in Key : notice[j] # "none" => notice'[j] = notice[j]
          /\ \A j \in Key : j # <<t, u, kind>> => notice'[j] = notice[j]
      BY <1>1, <3>1, <3>2, Notified DEF IInv
    <3>4. CASE k = <<t, u, phase>>
      <4>1. t \in settled /\ t \notin touched
        BY <1>1, <3>4 DEF IInv, Progress
      <4>2. /\ phase = "due_soon" => Soon(t, u)
            /\ phase = "overdue" => PastDue(t, u)
        BY <1>1, <3>1, <4>1 DEF IInv, Progress, QueueCurrent
      <4>3. Has(t, u, phase)
        BY <1>1, <3>1, <4>1, <4>2
           DEF IInv, Progress, SettledTold, SoonTold, PastDueTold
      <4>. QED
        BY <1>1, <3>4, <3>3, <4>3 DEF Has
    <3>5. CASE k # <<t, u, phase>>
      BY <1>1, <3>5, <3>2, <3>3
    <3>. QED
      BY <3>4, <3>5
  <2>2. CASE UNCHANGED notice
    BY <2>2
  <2>. QED
    BY <1>1, <2>1, <2>2 DEF Job, start, start_overdue, fail, kill, finish
<1>2. IInv /\ [Next]_vars => [Quiet]_vars
  BY <1>1
<1>. QED
  BY <1>2, Invariance, PTL DEF Spec, SecondRunIsNoop
=============================================================================
