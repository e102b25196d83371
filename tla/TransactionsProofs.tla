-------------------------- MODULE TransactionsProofs --------------------------
(***************************************************************************)
(* Proofs about Transactions, for any number of users and processes: types,*)
(* who can be in a deadlock, who is mailed and how often, and whether the  *)
(* watchers are told.                                                      *)
(***************************************************************************)
EXTENDS Transactions, SequenceTheorems, WellFoundedInduction, TLAPS

-----------------------------------------------------------------------------
(* The statements by what they are about.  WatcherWriters are the handlers *)
(* with statements about watchers, Admins those of the Django Admin; the   *)
(* others of the services take the task's row once, in the middle.         *)
Filled(S) == (SUBSET S) \ {{}}

WatcherStatement ==
    ({"set_watchers"} \X SUBSET Watchers(User))
        \cup ({"add", "remove"} \X Filled(Watchers(User)))

TaskStatement == {"save", "insert_task", "save_column"} \X {{TaskRow}}

JobStatement ==
    ({"tell"} \X SUBSET NoticeKey)
        \cup ({"insert", "get_again", "mail"} \X Filled(NoticeKey))
        \cup ({"commit"} \X {{}})

NoticeStatement ==
    JobStatement
        \cup ({"delete"} \X SUBSET NoticeKey)
        \cup ({"remove"} \X Filled(NoticeKey))
        \cup ({"read_watchers"} \X {{}})

Statement ==
    WatcherStatement \cup TaskStatement \cup NoticeStatement
        \cup ({"delete"} \X SUBSET Watchers(User))
        \cup ({"delete_task"} \X {{TaskRow}})

Admins == {"admin_change", "admin_delete"}
WatcherWriters == Admins \cup {"update_task_fields"}
Services == {"change_status", "assign_task", "update_task_fields"}

Statements(h) ==
    CASE h = "idle"            -> {}
      [] h = "run_task_alerts" -> JobStatement
      [] h \in {"change_status", "assign_task"} ->
             TaskStatement \cup NoticeStatement
      [] h = "update_task_fields" ->
             WatcherStatement \cup TaskStatement \cup NoticeStatement
      [] h = "admin_change" ->
             WatcherStatement \cup TaskStatement \cup NoticeStatement
      [] h = "admin_delete" -> Statement

\* First the watchers, then the task, then the notices.
InOrder(s) ==
    \E n \in 1 .. Len(s) :
        /\ s[n] \in TaskStatement
        /\ \A i \in 1 .. n - 1 : s[i] \in WatcherStatement
        /\ \A i \in n + 1 .. Len(s) : s[i] \in NoticeStatement

CommitsLast(s) == \A i \in 1 .. Len(s) - 1 : s[i][1] # "commit"

(* What a request of the services still has to do, before and after it     *)
(* owns the task's row.                                                    *)
ServiceInv(p) ==
    /\ CommitsLast(todo[p])
    /\ owner[TaskRow] = p =>
           \A i \in 1 .. Len(todo[p]) : todo[p][i] \in NoticeStatement
    /\ (owner[TaskRow] # p /\ Running(p)) =>
           /\ InOrder(todo[p])
           /\ owned(p) \subseteq Watchers(User)

\* A run of the job owns nothing but the notice it is about to commit.
JobInv(p) ==
    /\ owned(p) \subseteq NoticeKey
    /\ owned(p) # {} => Running(p) /\ op(p) = "commit"

ProcessInv(p) ==
    /\ \A i \in 1 .. Len(todo[p]) : todo[p][i] \in Statements(handler[p])
    /\ handler[p] = "idle" => owned(p) = {}
    /\ handler[p] \notin WatcherWriters => owned(p) \cap Watchers(User) = {}
    /\ handler[p] \in Services => ServiceInv(p)
    /\ handler[p] = "run_task_alerts" => JobInv(p)

\* Nobody but the Admin deletes a task.
DeleterInv ==
    TaskRow \in table \ now =>
        /\ owner[TaskRow] \in Process
        /\ handler[owner[TaskRow]] = "admin_delete"

Typed ==
    /\ table \subseteq Key /\ now \subseteq Key
    /\ owner \in [Key -> Process \cup {Nobody}]
    /\ \A k \in Key : owner[k] = Nobody => (k \in now <=> k \in table)
    /\ handler \in [Process -> Handler \cup {"idle"}]
    /\ todo \in [Process -> Seq(Statement)]
    /\ dead \subseteq Process
    /\ made \in [Process -> SUBSET NoticeKey]
    /\ mailed \in [Process -> SUBSET NoticeKey]

IInv == Typed /\ DeleterInv /\ \A p \in Process : ProcessInv(p)

-----------------------------------------------------------------------------
(* Whatever the keys of a statement, there is a first one.                 *)
LEMMA Minimum ==
    ASSUME NEW T \in SUBSET Nat, T # {}
    PROVE  \E x \in T : \A y \in T : x <= y
<1> DEFINE R == {s \in Nat \X Nat : s[1] < s[2]}
<1>1. IsWellFoundedOn(R, Nat)
  BY NatLessThanWellFounded DEF OpToRel
<1>2. PICK x \in T : \A y \in T : ~ (<<y, x>> \in R)
  <2> HIDE DEF R
  <2>. QED
    BY <1>1, WFMin
<1>3. \A y \in T : ~ (y < x)
  BY <1>2 DEF R
<1>. QED
  BY <1>3

LEMMA Parts ==
    /\ \A k \in Key : k[2] \in Nat
    /\ TaskRow \in Key /\ TaskRow \notin Child
    /\ Watchers(User) \subseteq Child /\ NoticeKey \subseteq Child
    /\ Child \subseteq Key
    /\ Watchers(User) \cap NoticeKey = {}
<1>1. \A k \in Child : k[2] \in User /\ k[1] \in {"watcher"} \cup Kind
  BY DEF Child, Watchers, Notices, NoticeKey
<1>2. TaskRow[1] = "task" /\ TaskRow[2] = 0
  BY DEF TaskRow
<1>3. TaskRow \notin Child
  BY <1>1, <1>2 DEF Kind
<1>4. \A k \in Watchers(User) : k[1] = "watcher"
  BY DEF Watchers
<1>5. \A k \in NoticeKey : k[1] \in Kind
  BY DEF NoticeKey, Notices
<1>6. Watchers(User) \cap NoticeKey = {}
  BY <1>4, <1>5 DEF Kind
<1>7. ASSUME NEW k \in Key PROVE k[2] \in Nat
  <2>1. CASE k = TaskRow
    BY <1>2, <2>1
  <2>2. CASE k \in Child
    <3>1. k[2] \in User
      BY <1>1, <2>2
    <3>. QED
      BY <3>1, UsersAreOrdered
  <2>. QED
    BY <2>1, <2>2 DEF Key
<1>. QED
  BY <1>3, <1>6, <1>7 DEF Key, Child

LEMMA FirstIn ==
    ASSUME NEW K \in SUBSET Key, K # {}
    PROVE  first(K) \in K
<1> DEFINE T == {k[2] : k \in K}
<1>1. T \in SUBSET Nat /\ T # {}
  BY Parts
<1> HIDE DEF T
<1>2. PICK x \in T : \A y \in T : x <= y
  BY <1>1, Minimum
<1>3. PICK k \in K : k[2] = x
  BY <1>2 DEF T
<1>4. \A j \in K : k[2] <= j[2]
  BY <1>2, <1>3 DEF T
<1>. QED
  BY <1>4 DEF first

LEMMA FirstOfOne == ASSUME NEW k PROVE first({k}) = k
BY DEF first

(* A statement is replaced by those that take its place.                   *)
LEMMA Replaced ==
    ASSUME NEW S, NEW s \in Seq(S), s # <<>>, NEW new \in Seq(S)
    PROVE  /\ new \o Tail(s) \in Seq(S)
           /\ Len(new \o Tail(s)) = Len(new) + Len(s) - 1
           /\ \A i \in 1 .. Len(new) : (new \o Tail(s))[i] = new[i]
           /\ \A i \in Len(new) + 1 .. Len(new) + Len(s) - 1 :
                  (new \o Tail(s))[i] = s[i - Len(new) + 1]
           /\ Head(s) = s[1] /\ 1 \in 1 .. Len(s)
OBVIOUS

-----------------------------------------------------------------------------
(* What the operation of a statement says about its keys.                  *)
LEMMA Apart ==
    /\ WatcherStatement \cap NoticeStatement = {}
    /\ TaskStatement \cap (WatcherStatement \cup NoticeStatement) = {}
    /\ JobStatement \subseteq NoticeStatement
    /\ Statement \subseteq Op \X SUBSET Key
<1>1. WatcherStatement \cap NoticeStatement = {}
  <2> SUFFICES ASSUME NEW s \in WatcherStatement, s \in NoticeStatement
               PROVE  FALSE
    OBVIOUS
  <2>1. s[2] \in Filled(Watchers(User)) /\ s[2] \in Filled(NoticeKey)
    BY DEF WatcherStatement, NoticeStatement, JobStatement
  <2>. QED
    BY <2>1, Parts DEF Filled
<1>2. TaskStatement \cap (WatcherStatement \cup NoticeStatement) = {}
  BY DEF WatcherStatement, TaskStatement, NoticeStatement, JobStatement
<1>3. JobStatement \subseteq NoticeStatement
  BY DEF NoticeStatement
<1>4. Statement \subseteq Op \X SUBSET Key
  BY Parts DEF Statement, WatcherStatement, TaskStatement, NoticeStatement,
               JobStatement, Filled, Op
<1>. QED
  BY <1>1, <1>2, <1>3, <1>4

LEMMA KeysOf ==
    ASSUME NEW s \in Statement
    PROVE  /\ s = <<s[1], s[2]>>
           /\ s[1] \in {"save", "insert_task", "save_column", "delete_task"}
                  => s[2] = {TaskRow}
           /\ s[1] \in {"save", "insert_task", "save_column"} => s \in TaskStatement
           /\ s[1] = "set_watchers" => s \in WatcherStatement /\ s[2] \subseteq Watchers(User)
           /\ s[1] = "add" => s \in WatcherStatement /\ s[2] \in Filled(Watchers(User))
           /\ s[1] = "remove" =>
                  \/ s \in WatcherStatement /\ s[2] \in Filled(Watchers(User))
                  \/ s \in NoticeStatement /\ s[2] \in Filled(NoticeKey)
           /\ s[1] = "delete" =>
                  \/ s[2] \subseteq Watchers(User)
                  \/ s \in NoticeStatement /\ s[2] \subseteq NoticeKey
           /\ s[1] = "tell" => s \in NoticeStatement /\ s[2] \subseteq NoticeKey
           /\ s[1] \in {"insert", "get_again", "mail"} =>
                  s \in NoticeStatement /\ s[2] \in Filled(NoticeKey)
           /\ s[1] \in {"read_watchers", "commit"} => s \in NoticeStatement
BY DEF Statement, WatcherStatement, TaskStatement, NoticeStatement, JobStatement

LEMMA StatementsAre ==
    ASSUME NEW h \in Handler \cup {"idle"}
    PROVE  /\ Statements(h) \subseteq Statement
           /\ h \in Services => NoticeStatement \subseteq Statements(h)
           /\ h \in Services => TaskStatement \subseteq Statements(h)
           /\ h \in Admins => WatcherStatement \cup TaskStatement \cup NoticeStatement
                                   \subseteq Statements(h)
           /\ h \notin WatcherWriters => Statements(h) \cap WatcherStatement = {}
           /\ h = "update_task_fields" => WatcherStatement \subseteq Statements(h)
           /\ h = "run_task_alerts" => Statements(h) = JobStatement
           /\ h = "idle" => Statements(h) = {}
           /\ h # "admin_delete" =>
                  Statements(h) \subseteq
                      WatcherStatement \cup TaskStatement \cup NoticeStatement
BY Apart DEF Handler, Statements, Statement, Services, Admins, WatcherWriters

-----------------------------------------------------------------------------
(* The statement at the head of a process.                                 *)
LEMMA HeadOf ==
    ASSUME Typed, NEW p \in Process, ProcessInv(p), Running(p)
    PROVE  /\ todo[p] \in Seq(Statement) /\ todo[p] # <<>>
           /\ Head(todo[p]) = todo[p][1] /\ 1 \in 1 .. Len(todo[p])
           /\ Head(todo[p]) \in Statement
           /\ Head(todo[p]) \in Statements(handler[p])
           /\ handler[p] \in Handler
           /\ op(p) = Head(todo[p])[1] /\ keys(p) = Head(todo[p])[2]
<1>1. todo[p] \in Seq(Statement) /\ todo[p] # <<>>
  BY DEF Typed, Running
<1>2. Head(todo[p]) = todo[p][1] /\ 1 \in 1 .. Len(todo[p])
  BY <1>1
<1>3. Head(todo[p]) \in Statement
  BY <1>1
<1>4. Head(todo[p]) \in Statements(handler[p])
  BY <1>2 DEF ProcessInv
<1>5. handler[p] \in Handler
  BY <1>4, StatementsAre DEF Typed
<1>. QED
  BY <1>1, <1>2, <1>3, <1>4, <1>5 DEF op, keys

(* A statement about watchers is the Admin's, or a service's that does not *)
(* own the task yet.                                                       *)
LEMMA HeadWatches ==
    ASSUME Typed, NEW p \in Process, ProcessInv(p), Running(p),
           Head(todo[p]) \in WatcherStatement
    PROVE  \/ handler[p] \in Admins
           \/ handler[p] = "update_task_fields" /\ owner[TaskRow] # p
<1>1. handler[p] \in WatcherWriters
  BY HeadOf, StatementsAre
<1>2. ASSUME handler[p] = "update_task_fields", owner[TaskRow] = p PROVE FALSE
  BY <1>2, HeadOf, Apart DEF ProcessInv, ServiceInv, Services
<1>. QED
  BY <1>1, <1>2 DEF WatcherWriters

LEMMA HeadSaves ==
    ASSUME Typed, NEW p \in Process, ProcessInv(p), Running(p),
           Head(todo[p]) \in TaskStatement
    PROVE  \/ handler[p] \in Admins
           \/ handler[p] \in Services /\ owner[TaskRow] # p
<1>1. handler[p] \in Admins \cup Services
  BY HeadOf, StatementsAre, Apart DEF Handler, Admins, Services
<1>2. ASSUME handler[p] \in Services, owner[TaskRow] = p PROVE FALSE
  BY <1>2, HeadOf, Apart DEF ProcessInv, ServiceInv
<1>. QED
  BY <1>1, <1>2

(* A service owns the task when it comes to the notices.                   *)
LEMMA HeadNotifies ==
    ASSUME Typed, NEW p \in Process, ProcessInv(p), Running(p),
           Head(todo[p]) \in NoticeStatement
    PROVE  \/ handler[p] \in Admins
           \/ handler[p] \in Services /\ owner[TaskRow] = p
           \/ handler[p] = "run_task_alerts" /\ Head(todo[p]) \in JobStatement
<1>1. handler[p] \in Admins \cup Services \cup {"run_task_alerts"}
  BY HeadOf DEF Handler, Admins, Services
<1>2. ASSUME handler[p] \in Services, owner[TaskRow] # p PROVE FALSE
  <2>1. PICK n \in 1 .. Len(todo[p]) :
            /\ todo[p][n] \in TaskStatement
            /\ \A i \in 1 .. n - 1 : todo[p][i] \in WatcherStatement
    BY <1>2 DEF ProcessInv, ServiceInv, InOrder
  <2>2. todo[p][1] \in TaskStatement \cup WatcherStatement
    BY <2>1
  <2>. QED
    BY <2>2, HeadOf, Apart
<1>3. handler[p] = "run_task_alerts" => Head(todo[p]) \in JobStatement
  BY HeadOf, StatementsAre
<1>. QED
  BY <1>1, <1>2, <1>3

-----------------------------------------------------------------------------
(* The head of a process is replaced by the statements `new`.              *)
Rewritten(p, new) == todo' = [todo EXCEPT ![p] = new \o rest(p)]

LEMMA RewrittenTodo ==
    ASSUME Typed, NEW p \in Process, ProcessInv(p), Running(p),
           NEW new \in Seq(Statements(handler[p])), Rewritten(p, new)
    PROVE  /\ todo' \in [Process -> Seq(Statement)]
           /\ \A q \in Process \ {p} : todo'[q] = todo[q]
           /\ todo'[p] \in Seq(Statement)
           /\ Len(todo'[p]) = Len(new) + Len(todo[p]) - 1
           /\ Len(new) \in Nat /\ Len(todo[p]) \in Nat \ {0}
           /\ \A i \in 1 .. Len(new) : todo'[p][i] = new[i]
           /\ \A i \in Len(new) + 1 .. Len(new) + Len(todo[p]) - 1 :
                  todo'[p][i] = todo[p][i - Len(new) + 1]
           /\ \A i \in 1 .. Len(todo'[p]) : todo'[p][i] \in Statements(handler[p])
<1>1. todo[p] \in Seq(Statement) /\ todo[p] # <<>>
  BY HeadOf
<1>2. new \in Seq(Statement)
  BY StatementsAre DEF Typed
<1>3. todo'[p] = new \o Tail(todo[p])
  BY DEF Rewritten, rest, Typed
<1>4. /\ todo'[p] \in Seq(Statement)
      /\ Len(todo'[p]) = Len(new) + Len(todo[p]) - 1
      /\ \A i \in 1 .. Len(new) : todo'[p][i] = new[i]
      /\ \A i \in Len(new) + 1 .. Len(new) + Len(todo[p]) - 1 :
             todo'[p][i] = todo[p][i - Len(new) + 1]
  BY <1>1, <1>2, <1>3, Replaced
<1>5. Len(new) \in Nat /\ Len(todo[p]) \in Nat \ {0}
  BY <1>1, <1>2
<1>6. todo' \in [Process -> Seq(Statement)] /\ \A q \in Process \ {p} : todo'[q] = todo[q]
  BY <1>3, <1>4 DEF Rewritten, rest, Typed
<1>7. ASSUME NEW i \in 1 .. Len(todo'[p])
      PROVE  todo'[p][i] \in Statements(handler[p])
  <2>1. CASE i \in 1 .. Len(new)
    BY <2>1, <1>4
  <2>2. CASE i \in Len(new) + 1 .. Len(new) + Len(todo[p]) - 1
    <3>1. i - Len(new) + 1 \in 1 .. Len(todo[p])
      BY <2>2, <1>5
    <3>. QED
      BY <2>2, <3>1, <1>4 DEF ProcessInv
  <2>. QED
    BY <2>1, <2>2, <1>4, <1>5
<1>. QED
  BY <1>4, <1>5, <1>6, <1>7

(* The other processes keep their part of the invariant.                   *)
LEMMA OthersKeep ==
    ASSUME NEW q \in Process, ProcessInv(q), todo'[q] = todo[q],
           handler'[q] = handler[q], owned(q)' = owned(q)
    PROVE  ProcessInv(q)'
<1>1. (owner[TaskRow] = q)' <=> owner[TaskRow] = q
  <2>1. TaskRow \in Key
    BY Parts
  <2>. QED
    BY <2>1 DEF owned
<1>. QED
  BY <1>1 DEF ProcessInv, ServiceInv, JobInv, Running, op

\* What changes when a process takes a key that nobody else has.
Takes(p, k, there) ==
    /\ k \in Key /\ owner[k] \in {p, Nobody}
    /\ take(p, k, there)
    /\ (k = TaskRow /\ ~ there) => handler[p] = "admin_delete"

LEMMA TakesOwned ==
    ASSUME Typed, NEW p \in Process, NEW k, NEW there \in BOOLEAN, Takes(p, k, there)
    PROVE  /\ owner' \in [Key -> Process \cup {Nobody}]
           /\ owned(p)' = owned(p) \cup {k}
           /\ \A q \in Process \ {p} : owned(q)' = owned(q)
           /\ owner'[TaskRow] = p <=> (owner[TaskRow] = p \/ k = TaskRow)
<1>1. /\ k \in Key /\ owner[k] \in {p, Nobody}
      /\ owner' = [owner EXCEPT ![k] = p]
  BY DEF Takes, take
<1>2. owner' \in [Key -> Process \cup {Nobody}]
  BY <1>1 DEF Typed
<1>3. \A j \in Key : owner'[j] = IF j = k THEN p ELSE owner[j]
  BY <1>1 DEF Typed
<1>4. owned(p)' = owned(p) \cup {k}
  BY <1>1, <1>3 DEF owned
<1>5. ASSUME NEW q \in Process \ {p} PROVE owned(q)' = owned(q)
  BY <1>1, <1>3, NobodyIsNoProcess DEF owned
<1>6. TaskRow \in Key
  BY Parts
<1>. QED
  BY <1>1, <1>2, <1>3, <1>4, <1>5, <1>6

(* A statement that touches no key.                                        *)
LEMMA StayInv ==
    ASSUME IInv, NEW p \in Process, Running(p),
           NEW new \in Seq(Statements(handler[p])), Rewritten(p, new),
           UNCHANGED <<table, now, owner, dead, handler, made>>,
           mailed' \in [Process -> SUBSET NoticeKey],
           ProcessInv(p)'
    PROVE  IInv'
<1>1. Typed' /\ DeleterInv'
  BY RewrittenTodo DEF IInv, Typed, DeleterInv
<1>2. ASSUME NEW q \in Process \ {p} PROVE ProcessInv(q)'
  <2>1. todo'[q] = todo[q]
    BY RewrittenTodo DEF IInv
  <2>2. owned(q)' = owned(q)
    BY DEF owned
  <2>. QED
    BY <2>1, <2>2, OthersKeep DEF IInv
<1>. QED
  BY <1>1, <1>2 DEF IInv

(* A statement that takes one.                                             *)
LEMMA TakeInv ==
    ASSUME IInv, NEW p \in Process, Running(p),
           NEW new \in Seq(Statements(handler[p])), Rewritten(p, new),
           NEW k, NEW there \in BOOLEAN, Takes(p, k, there),
           UNCHANGED <<table, dead, handler, made, mailed>>,
           ProcessInv(p)'
    PROVE  IInv'
<1>1. Typed
  BY DEF IInv
<1>2. /\ k \in Key
      /\ now' = IF there THEN now \cup {k} ELSE now \ {k}
      /\ owner' = [owner EXCEPT ![k] = p]
      /\ (k = TaskRow /\ ~ there) => handler[p] = "admin_delete"
  BY DEF Takes, take
<1>3. \A j \in Key : owner'[j] = IF j = k THEN p ELSE owner[j]
  BY <1>1, <1>2 DEF Typed
<1>4. now' \subseteq Key
  BY <1>1, <1>2 DEF Typed
<1>5. \A j \in Key : owner'[j] = Nobody => (j \in now' <=> j \in table)
  <2> SUFFICES ASSUME NEW j \in Key, owner'[j] = Nobody
               PROVE  j \in now' <=> j \in table
    OBVIOUS
  <2>1. j # k /\ owner[j] = Nobody
    BY <1>3, NobodyIsNoProcess
  <2>. QED
    BY <1>1, <1>2, <2>1 DEF Typed
<1>6. Typed'
  BY <1>1, <1>4, <1>5, TakesOwned, RewrittenTodo DEF IInv, Typed
<1>7. DeleterInv'
  <2> SUFFICES ASSUME TaskRow \in table \ now'
               PROVE  /\ owner'[TaskRow] \in Process
                      /\ handler[owner'[TaskRow]] = "admin_delete"
    BY DEF DeleterInv
  <2>1. TaskRow \in Key
    BY Parts
  <2>2. CASE k = TaskRow
    BY <1>2, <1>3, <2>1, <2>2
  <2>3. CASE k # TaskRow
    BY <1>2, <1>3, <2>1, <2>3 DEF IInv, DeleterInv
  <2>. QED
    BY <2>2, <2>3
<1>8. ASSUME NEW q \in Process \ {p} PROVE ProcessInv(q)'
  <2>1. todo'[q] = todo[q]
    BY RewrittenTodo DEF IInv
  <2>2. owned(q)' = owned(q)
    BY <1>1, TakesOwned
  <2>. QED
    BY <2>1, <2>2, OthersKeep DEF IInv
<1>. QED
  BY <1>6, <1>7, <1>8 DEF IInv

-----------------------------------------------------------------------------
(* What a process must respect to keep its own part of the invariant: one  *)
(* of the Admin, whatever it does.                                         *)
LEMMA SelfAdmin ==
    ASSUME Typed, NEW p \in Process, ProcessInv(p), Running(p),
           NEW new \in Seq(Statements(handler[p])), Rewritten(p, new),
           handler' = handler, handler[p] \in Admins
    PROVE  ProcessInv(p)'
<1>1. \A i \in 1 .. Len(todo'[p]) : todo'[p][i] \in Statements(handler[p])
  BY RewrittenTodo
<1>2. handler[p] \notin Services \cup {"idle", "run_task_alerts"}
  BY DEF Admins, Services
<1>3. handler[p] \in WatcherWriters
  BY DEF WatcherWriters
<1>. QED
  BY <1>1, <1>2, <1>3 DEF ProcessInv

LEMMA CommitsStayLast ==
    ASSUME Typed, NEW p \in Process, ProcessInv(p), Running(p),
           NEW new \in Seq(Statements(handler[p])), Rewritten(p, new),
           \A i \in 1 .. Len(new) : new[i][1] # "commit",
           handler[p] \in Services
    PROVE  CommitsLast(todo'[p])
<1>1. CommitsLast(todo[p])
  BY DEF ProcessInv, ServiceInv
<1>2. /\ Len(todo'[p]) = Len(new) + Len(todo[p]) - 1
      /\ Len(new) \in Nat /\ Len(todo[p]) \in Nat \ {0}
      /\ \A i \in 1 .. Len(new) : todo'[p][i] = new[i]
      /\ \A i \in Len(new) + 1 .. Len(new) + Len(todo[p]) - 1 :
             todo'[p][i] = todo[p][i - Len(new) + 1]
  BY RewrittenTodo
<1> SUFFICES ASSUME NEW i \in 1 .. Len(todo'[p]) - 1
             PROVE  todo'[p][i][1] # "commit"
  BY DEF CommitsLast
<1>3. CASE i \in 1 .. Len(new)
  BY <1>2, <1>3
<1>4. CASE i \in Len(new) + 1 .. Len(new) + Len(todo[p]) - 2
  <2>1. i - Len(new) + 1 \in 1 .. Len(todo[p]) - 1
    BY <1>2, <1>4
  <2>2. i \in Len(new) + 1 .. Len(new) + Len(todo[p]) - 1
    BY <1>2, <1>4
  <2>. QED
    BY <1>1, <1>2, <2>1, <2>2 DEF CommitsLast
<1>. QED
  BY <1>2, <1>3, <1>4

(* A statement about watchers.                                             *)
LEMMA SelfWatch ==
    ASSUME Typed, NEW p \in Process, ProcessInv(p), Running(p),
           Head(todo[p]) \in WatcherStatement,
           NEW new \in Seq(WatcherStatement), Rewritten(p, new),
           handler' = handler,
           owned(p)' \subseteq owned(p) \cup Watchers(User)
    PROVE  ProcessInv(p)'
<1>1. new \in Seq(Statements(handler[p]))
  <2>1. WatcherStatement \subseteq Statements(handler[p])
    BY HeadWatches, HeadOf, StatementsAre
  <2>. QED
    BY <2>1
<1>2. CASE handler[p] \in Admins
  BY <1>1, <1>2, SelfAdmin
<1>3. CASE handler[p] = "update_task_fields" /\ owner[TaskRow] # p
  <2>1. /\ Len(todo'[p]) = Len(new) + Len(todo[p]) - 1
        /\ Len(new) \in Nat /\ Len(todo[p]) \in Nat \ {0}
        /\ \A i \in 1 .. Len(new) : todo'[p][i] = new[i]
        /\ \A i \in Len(new) + 1 .. Len(new) + Len(todo[p]) - 1 :
               todo'[p][i] = todo[p][i - Len(new) + 1]
        /\ \A i \in 1 .. Len(todo'[p]) : todo'[p][i] \in Statements(handler[p])
    BY <1>1, RewrittenTodo
  <2>2. \A i \in 1 .. Len(new) : new[i] \in WatcherStatement
    OBVIOUS
  <2>3. \A i \in 1 .. Len(new) : new[i][1] # "commit"
    BY <2>2 DEF WatcherStatement
  <2>4. CommitsLast(todo'[p])
    BY <1>1, <1>3, <2>3, CommitsStayLast DEF Services
  <2>5. PICK n \in 1 .. Len(todo[p]) :
            /\ todo[p][n] \in TaskStatement
            /\ \A i \in 1 .. n - 1 : todo[p][i] \in WatcherStatement
            /\ \A i \in n + 1 .. Len(todo[p]) : todo[p][i] \in NoticeStatement
    BY <1>3 DEF ProcessInv, ServiceInv, InOrder, Services
  <2>6. n # 1
    BY <2>5, HeadOf, Apart
  <2> DEFINE m == n - 1 + Len(new)
  <2>7. m \in 1 .. Len(todo'[p]) /\ m \in Len(new) + 1 .. Len(new) + Len(todo[p]) - 1
        /\ m - Len(new) + 1 = n
    BY <2>1, <2>5, <2>6
  <2>8. todo'[p][m] \in TaskStatement
    BY <2>1, <2>5, <2>7
  <2>9. ASSUME NEW i \in 1 .. m - 1 PROVE todo'[p][i] \in WatcherStatement
    <3>1. CASE i \in 1 .. Len(new)
      BY <2>1, <2>2, <3>1
    <3>2. CASE i \in Len(new) + 1 .. m - 1
      <4>1. i - Len(new) + 1 \in 1 .. n - 1
        BY <2>1, <3>2
      <4>2. i \in Len(new) + 1 .. Len(new) + Len(todo[p]) - 1
        BY <2>1, <2>7, <3>2
      <4>. QED
        BY <2>1, <2>5, <4>1, <4>2
    <3>. QED
      BY <2>1, <3>1, <3>2
  <2>10. ASSUME NEW i \in m + 1 .. Len(todo'[p]) PROVE todo'[p][i] \in NoticeStatement
    <3>1. i - Len(new) + 1 \in n + 1 .. Len(todo[p])
      BY <2>1
    <3>2. i \in Len(new) + 1 .. Len(new) + Len(todo[p]) - 1
      BY <2>1
    <3>. QED
      BY <2>1, <2>5, <3>1, <3>2
  <2>11. InOrder(todo'[p])
    <3> HIDE DEF m
    <3>. QED
      BY <2>7, <2>8, <2>9, <2>10 DEF InOrder
  <2>12. TaskRow \in Key /\ TaskRow \notin Watchers(User)
    BY Parts
  <2>13. owner'[TaskRow] # p
    BY <1>3, <2>12 DEF owned
  <2>14. owned(p)' \subseteq Watchers(User)
    BY <1>3 DEF ProcessInv, ServiceInv, Services
  <2>15. ServiceInv(p)'
    BY <2>4, <2>11, <2>13, <2>14 DEF ServiceInv
  <2>. QED
    BY <1>3, <2>1, <2>15 DEF ProcessInv, WatcherWriters
<1>. QED
  BY <1>2, <1>3, HeadWatches

(* One about the task: it stays the next one, or the task is taken.        *)
LEMMA SelfTask ==
    ASSUME Typed, NEW p \in Process, ProcessInv(p), Running(p),
           Head(todo[p]) \in TaskStatement,
           NEW new, handler' = handler, Rewritten(p, new),
           \/ new = <<<<"insert_task", {TaskRow}>>>> /\ owned(p)' = owned(p)
           \/ new = <<>> /\ owned(p)' = owned(p) \cup {TaskRow}
    PROVE  new \in Seq(Statements(handler[p])) /\ ProcessInv(p)'
<1>1. <<"insert_task", {TaskRow}>> \in TaskStatement
  BY DEF TaskStatement
<1>2. TaskStatement \subseteq Statements(handler[p])
  BY HeadSaves, HeadOf, StatementsAre
<1>3. new \in Seq(Statements(handler[p]))
  <2> DEFINE s == <<"insert_task", {TaskRow}>>
             S == Statements(handler[p])
  <2>1. s \in S
    BY <1>1, <1>2
  <2>2. new \in {<<s>>, <<>>}
    OBVIOUS
  <2> HIDE DEF s, S
  <2>3. <<s>> \in Seq(S) /\ <<>> \in Seq(S)
    BY <2>1
  <2>. QED
    BY <2>2, <2>3 DEF S
<1>4. CASE handler[p] \in Admins
  BY <1>3, <1>4, SelfAdmin
<1>5. CASE handler[p] \in Services /\ owner[TaskRow] # p
  <2>1. /\ Len(todo'[p]) = Len(new) + Len(todo[p]) - 1
        /\ Len(new) \in Nat /\ Len(todo[p]) \in Nat \ {0}
        /\ \A i \in 1 .. Len(new) : todo'[p][i] = new[i]
        /\ \A i \in Len(new) + 1 .. Len(new) + Len(todo[p]) - 1 :
               todo'[p][i] = todo[p][i - Len(new) + 1]
        /\ \A i \in 1 .. Len(todo'[p]) : todo'[p][i] \in Statements(handler[p])
    BY <1>3, RewrittenTodo
  <2>2. \A i \in 1 .. Len(new) : new[i][1] # "commit"
    OBVIOUS
  <2>3. CommitsLast(todo'[p])
    BY <1>3, <1>5, <2>2, CommitsStayLast
  <2>4. /\ InOrder(todo[p])
        /\ owned(p) \subseteq Watchers(User)
    BY <1>5 DEF ProcessInv, ServiceInv
  <2>5. \A i \in 2 .. Len(todo[p]) : todo[p][i] \in NoticeStatement
    <3>1. PICK n \in 1 .. Len(todo[p]) :
              /\ \A i \in 1 .. n - 1 : todo[p][i] \in WatcherStatement
              /\ \A i \in n + 1 .. Len(todo[p]) : todo[p][i] \in NoticeStatement
      BY <2>4 DEF InOrder
    <3>2. n = 1
      BY <2>1, <3>1, HeadOf, Apart
    <3>. QED
      BY <3>1, <3>2
  <2>6. TaskRow \in Key /\ TaskRow \notin Watchers(User)
    BY Parts
  <2>7. handler[p] # "run_task_alerts" /\ handler[p] # "idle"
    BY <1>5 DEF Services
  <2>8. CASE new = <<<<"insert_task", {TaskRow}>>>> /\ owned(p)' = owned(p)
    <3>1. Len(new) = 1 /\ new[1] \in TaskStatement
      BY <1>1, <2>8
    <3>2. todo'[p][1] \in TaskStatement
      BY <2>1, <3>1
    <3>3. \A i \in 2 .. Len(todo'[p]) : todo'[p][i] \in NoticeStatement
      BY <2>1, <2>5, <3>1
    <3>4. InOrder(todo'[p])
      BY <2>1, <3>1, <3>2, <3>3 DEF InOrder
    <3>5. owner'[TaskRow] # p
      BY <2>4, <2>6, <2>8 DEF owned
    <3>6. ServiceInv(p)'
      BY <2>3, <2>4, <2>8, <3>4, <3>5 DEF ServiceInv
    <3>7. handler[p] \notin WatcherWriters => (owned(p) \cap Watchers(User) = {})'
      BY <2>8 DEF ProcessInv
    <3>. QED
      BY <1>3, <2>1, <2>7, <3>6, <3>7 DEF ProcessInv
  <2>9. CASE new = <<>> /\ owned(p)' = owned(p) \cup {TaskRow}
    <3>1. Len(new) = 0
      BY <2>9
    <3>2. \A i \in 1 .. Len(todo'[p]) : todo'[p][i] \in NoticeStatement
      BY <2>1, <2>5, <3>1
    <3>3. owner'[TaskRow] = p
      BY <2>6, <2>9 DEF owned
    <3>4. ServiceInv(p)'
      BY <2>3, <3>2, <3>3 DEF ServiceInv
    <3>5. handler[p] \notin WatcherWriters => (owned(p) \cap Watchers(User) = {})'
      BY <2>6, <2>9 DEF ProcessInv
    <3>. QED
      BY <1>3, <2>1, <2>7, <3>4, <3>5 DEF ProcessInv
  <2>. QED
    BY <2>8, <2>9
<1>. QED
  BY <1>3, <1>4, <1>5, HeadSaves

(* One about notices, in a service, which owns the task by then.           *)
LEMMA SelfService ==
    ASSUME Typed, NEW p \in Process, ProcessInv(p), Running(p),
           Head(todo[p]) \in NoticeStatement, handler[p] \in Services,
           NEW new \in Seq(NoticeStatement), Rewritten(p, new),
           \A i \in 1 .. Len(new) : new[i][1] # "commit",
           handler' = handler,
           owned(p) \subseteq owned(p)', owned(p)' \subseteq owned(p) \cup NoticeKey
    PROVE  ProcessInv(p)'
<1>1. new \in Seq(Statements(handler[p]))
  <2>1. NoticeStatement \subseteq Statements(handler[p])
    BY HeadOf, StatementsAre
  <2>. QED
    BY <2>1
<1>2. handler[p] \notin Admins \cup {"idle", "run_task_alerts"}
  BY DEF Admins, Services
<1>3. owner[TaskRow] = p
  BY <1>2, HeadNotifies
<1>4. /\ Len(todo'[p]) = Len(new) + Len(todo[p]) - 1
      /\ Len(new) \in Nat /\ Len(todo[p]) \in Nat \ {0}
      /\ \A i \in 1 .. Len(new) : todo'[p][i] = new[i]
      /\ \A i \in Len(new) + 1 .. Len(new) + Len(todo[p]) - 1 :
             todo'[p][i] = todo[p][i - Len(new) + 1]
      /\ \A i \in 1 .. Len(todo'[p]) : todo'[p][i] \in Statements(handler[p])
  BY <1>1, RewrittenTodo
<1>5. CommitsLast(todo'[p])
  BY <1>1, CommitsStayLast
<1>6. \A i \in 1 .. Len(todo[p]) : todo[p][i] \in NoticeStatement
  BY <1>3 DEF ProcessInv, ServiceInv
<1>7. ASSUME NEW i \in 1 .. Len(todo'[p]) PROVE todo'[p][i] \in NoticeStatement
  <2>1. CASE i \in 1 .. Len(new)
    BY <1>4, <2>1
  <2>2. CASE i \in Len(new) + 1 .. Len(new) + Len(todo[p]) - 1
    <3>1. i - Len(new) + 1 \in 1 .. Len(todo[p])
      BY <1>4, <2>2
    <3>. QED
      BY <1>4, <1>6, <2>2, <3>1
  <2>. QED
    BY <1>4, <2>1, <2>2
<1>8. owner'[TaskRow] = p
  BY <1>3, Parts DEF owned
<1>9. ServiceInv(p)'
  BY <1>5, <1>7, <1>8 DEF ServiceInv
<1>10. handler[p] \notin WatcherWriters => owned(p)' \cap Watchers(User) = {}
  BY Parts DEF ProcessInv
<1>. QED
  BY <1>2, <1>4, <1>9, <1>10 DEF ProcessInv

(* One of the job: it goes on to commit what it owns.                      *)
LEMMA SelfJob ==
    ASSUME Typed, NEW p \in Process, ProcessInv(p), Running(p),
           handler[p] = "run_task_alerts",
           NEW new \in Seq(JobStatement), Rewritten(p, new),
           handler' = handler,
           owned(p)' \subseteq NoticeKey,
           owned(p)' # {} => Len(new) # 0 /\ new[1][1] = "commit"
    PROVE  ProcessInv(p)'
<1>1. Statements(handler[p]) = JobStatement
  BY HeadOf, StatementsAre
<1>2. /\ todo'[p] \in Seq(Statement)
      /\ Len(todo'[p]) = Len(new) + Len(todo[p]) - 1
      /\ Len(new) \in Nat /\ Len(todo[p]) \in Nat \ {0}
      /\ \A i \in 1 .. Len(new) : todo'[p][i] = new[i]
      /\ \A i \in 1 .. Len(todo'[p]) : todo'[p][i] \in Statements(handler[p])
  BY <1>1, RewrittenTodo
<1>3. ASSUME owned(p)' # {} PROVE Running(p)' /\ op(p)' = "commit"
  <2>1. 1 \in 1 .. Len(new)
    BY <1>2, <1>3
  <2>2. todo'[p][1][1] = "commit" /\ Len(todo'[p]) # 0
    BY <1>2, <1>3, <2>1
  <2>3. Head(todo'[p]) = todo'[p][1] /\ todo'[p] # <<>>
    BY <1>2, <2>2
  <2>. QED
    BY <2>2, <2>3 DEF Running, op
<1>4. JobInv(p)'
  BY <1>3 DEF JobInv
<1>5. owned(p)' \cap Watchers(User) = {}
  BY Parts
<1>6. handler[p] \notin Services \cup {"idle"}
  BY DEF Services
<1>. QED
  BY <1>2, <1>4, <1>5, <1>6 DEF ProcessInv

(* One about notices that takes none of them.                              *)
LEMMA SelfNotice ==
    ASSUME Typed, NEW p \in Process, ProcessInv(p), Running(p),
           Head(todo[p]) \in NoticeStatement, op(p) # "commit",
           NEW new \in Seq(NoticeStatement), Rewritten(p, new),
           \A i \in 1 .. Len(new) : new[i][1] # "commit",
           Head(todo[p]) \in JobStatement => new \in Seq(JobStatement),
           handler' = handler, owned(p)' = owned(p)
    PROVE  new \in Seq(Statements(handler[p])) /\ ProcessInv(p)'
<1>1. new \in Seq(Statements(handler[p]))
  <2>1. CASE handler[p] = "run_task_alerts"
    BY <2>1, HeadNotifies, HeadOf, StatementsAre DEF Admins, Services
  <2>2. CASE handler[p] # "run_task_alerts"
    <3>1. NoticeStatement \subseteq Statements(handler[p])
      BY <2>2, HeadNotifies, HeadOf, StatementsAre
    <3>. QED
      BY <3>1
  <2>. QED
    BY <2>1, <2>2
<1>2. CASE handler[p] \in Admins
  BY <1>1, <1>2, SelfAdmin
<1>3. CASE handler[p] \in Services
  <2>1. owned(p) \subseteq owned(p)' /\ owned(p)' \subseteq owned(p) \cup NoticeKey
    OBVIOUS
  <2>2. ProcessInv(p)'
    BY <1>3, <2>1, SelfService
  <2>. QED
    BY <1>1, <2>2
<1>4. CASE handler[p] = "run_task_alerts" /\ Head(todo[p]) \in JobStatement
  <2>1. owned(p)' \subseteq NoticeKey /\ owned(p)' = {}
    BY <1>4 DEF ProcessInv, JobInv
  <2>. QED
    BY <1>1, <1>4, <2>1, SelfJob
<1>. QED
  BY <1>1, <1>2, <1>3, <1>4, HeadNotifies

-----------------------------------------------------------------------------
(* What `more` puts before the others.                                     *)
some(statement, K) == IF K = {} THEN <<>> ELSE <<<<statement, K>>>>

LEMMA Some ==
    ASSUME NEW S, NEW statement, NEW K, K # {} => <<statement, K>> \in S
    PROVE  /\ some(statement, K) \in Seq(S)
           /\ \A i \in 1 .. Len(some(statement, K)) :
                  some(statement, K)[i][1] = statement
<1>1. CASE K = {}
  <2>1. some(statement, K) = <<>> /\ Len(<<>>) = 0
    BY <1>1 DEF some
  <2>. QED
    BY <2>1
<1>2. CASE K # {}
  <2> DEFINE s == <<statement, K>>
  <2>1. s[1] = statement
    OBVIOUS
  <2>2. s \in S /\ some(statement, K) = <<s>>
    BY <1>2 DEF some
  <2> HIDE DEF s
  <2>3. some(statement, K) \in Seq(S)
        /\ \A i \in 1 .. Len(some(statement, K)) : some(statement, K)[i] = s
    BY <2>2
  <2>. QED
    BY <2>1, <2>3
<1>. QED
  BY <1>1, <1>2

LEMMA More ==
    ASSUME NEW statement, NEW K, NEW others \in Seq(Statement)
    PROVE  more(statement, K, others) = some(statement, K) \o others
<1>1. <<>> \o others = others
  OBVIOUS
<1>. QED
  BY <1>1 DEF more, some

(* A process that executes a statement finds the key it wants free.        *)
LEMMA Free ==
    ASSUME Typed, NEW p \in Process, executes(p, op(p)),
           NEW k \in wanted(p), k \in Key
    PROVE  owner[k] \in {p, Nobody}
BY DEF Typed, executes, WaitsFor

LEMMA Executing ==
    ASSUME IInv, NEW p \in Process, NEW statement, executes(p, statement)
    PROVE  /\ Typed /\ ProcessInv(p) /\ Running(p) /\ op(p) = statement
           /\ Head(todo[p]) \in Statement /\ executes(p, op(p))
           /\ rest(p) \in Seq(Statement)
           /\ Head(todo[p])[1] = statement /\ Head(todo[p])[2] = keys(p)
           /\ Head(todo[p]) = <<statement, keys(p)>>
           /\ <<>> \in Seq(Statements(handler[p]))
<1>1. Typed /\ ProcessInv(p) /\ Running(p) /\ op(p) = statement
  BY DEF IInv, executes
<1>2. todo[p] \in Seq(Statement) /\ todo[p] # <<>> /\ Head(todo[p]) \in Statement
  BY <1>1, HeadOf
<1>3. rest(p) \in Seq(Statement)
  BY <1>2 DEF rest
<1>4. Head(todo[p])[1] = statement /\ Head(todo[p])[2] = keys(p)
  BY <1>1 DEF op, keys
<1>. QED
  BY <1>1, <1>2, <1>3, <1>4, KeysOf

-----------------------------------------------------------------------------
(* One lemma for each operation: the task's.                               *)
LEMMA TaskTaken ==
    ASSUME IInv, NEW p \in Process, executes(p, op(p)),
           Head(todo[p]) \in TaskStatement, TaskRow \in wanted(p),
           take(p, TaskRow, TRUE), next(p, rest(p)),
           UNCHANGED <<table, handler, dead, made, mailed>>
    PROVE  IInv'
<1>1. Typed /\ ProcessInv(p) /\ Running(p) /\ rest(p) \in Seq(Statement)
  BY Executing
<1>2. TaskRow \in Key
  BY Parts
<1>3. Takes(p, TaskRow, TRUE)
  BY <1>1, <1>2, Free DEF Takes
<1>4. Rewritten(p, <<>>)
  <2>1. <<>> \o rest(p) = rest(p)
    BY <1>1
  <2>. QED
    BY <2>1 DEF Rewritten, next
<1>5. owned(p)' = owned(p) \cup {TaskRow}
  BY <1>1, <1>3, TakesOwned
<1>6. <<>> \in Seq(Statements(handler[p])) /\ ProcessInv(p)'
  BY <1>1, <1>4, <1>5, SelfTask
<1>. QED
  BY <1>1, <1>3, <1>4, <1>6, TakeInv

LEMMA SaveInv == ASSUME IInv, NEW p \in Process, save(p) PROVE IInv'
<1>1. executes(p, "save")
  BY DEF save
<1>2. /\ Typed /\ ProcessInv(p) /\ Running(p) /\ op(p) = "save"
      /\ Head(todo[p]) \in TaskStatement /\ keys(p) = {TaskRow}
  BY <1>1, Executing, KeysOf
<1>3. CASE TaskRow \in seen(p)
  <2>1. TaskRow \in wanted(p)
    BY <1>2, <1>3, FirstOfOne DEF wanted
  <2>. QED
    BY <1>1, <1>2, <1>3, <2>1, TaskTaken DEF save
<1>4. CASE TaskRow \notin seen(p)
  <2> DEFINE new == <<<<"insert_task", {TaskRow}>>>>
  <2>1. Rewritten(p, new)
    BY <1>4 DEF save, next, Rewritten
  <2>2. owned(p)' = owned(p) /\ handler' = handler
    BY <1>4 DEF save, owned
  <2>3. new \in Seq(Statements(handler[p])) /\ ProcessInv(p)'
    BY <1>2, <2>1, <2>2, SelfTask
  <2>4. UNCHANGED <<table, now, owner, dead, handler, made, mailed>>
    BY <1>4 DEF save
  <2>5. mailed' \in [Process -> SUBSET NoticeKey]
    BY <1>2, <2>4 DEF Typed
  <2> HIDE DEF new
  <2>. QED
    BY <1>2, <2>1, <2>3, <2>4, <2>5, StayInv
<1>. QED
  BY <1>3, <1>4

LEMMA ReleasedKeys ==
    ASSUME Typed, NEW p \in Process, release(p)
    PROVE  /\ owner' \in [Key -> Process \cup {Nobody}]
           /\ owned(p)' = {}
           /\ \A q \in Process \ {p} : owned(q)' = owned(q)
           /\ \A k \in Key : owner'[k] = IF owner[k] = p THEN Nobody ELSE owner[k]
<1>1. \A k \in Key : owner'[k] = IF owner[k] = p THEN Nobody ELSE owner[k]
  BY DEF release
<1>2. owner' \in [Key -> Process \cup {Nobody}]
  BY DEF release, Typed
<1>3. owned(p)' = {}
  BY <1>1, NobodyIsNoProcess DEF owned
<1>4. ASSUME NEW q \in Process \ {p} PROVE owned(q)' = owned(q)
  BY <1>1, NobodyIsNoProcess DEF owned
<1>. QED
  BY <1>1, <1>2, <1>3, <1>4

LEMMA AbortInv == ASSUME IInv, NEW p \in Process, abort(p) PROVE IInv'
<1>1. Typed /\ ProcessInv(p)
  BY DEF IInv
<1>2. /\ now' = (now \ owned(p)) \cup (table \cap owned(p))
      /\ todo' = [todo EXCEPT ![p] = <<>>]
      /\ release(p) /\ dead' = dead \cup {p}
      /\ UNCHANGED <<table, handler, made, mailed>>
  BY DEF abort, next
<1>3. /\ owner' \in [Key -> Process \cup {Nobody}]
      /\ owned(p)' = {}
      /\ \A q \in Process \ {p} : owned(q)' = owned(q)
      /\ \A k \in Key : owner'[k] = IF owner[k] = p THEN Nobody ELSE owner[k]
  BY <1>1, <1>2, ReleasedKeys
<1>4. \A k \in Key : owner'[k] = Nobody => (k \in now' <=> k \in table)
  BY <1>1, <1>2, <1>3 DEF Typed, owned
<1>5. todo'[p] = <<>> /\ \A q \in Process \ {p} : todo'[q] = todo[q]
  BY <1>1, <1>2 DEF Typed
<1>6. todo' \in [Process -> Seq(Statement)]
  <2>1. <<>> \in Seq(Statement)
    OBVIOUS
  <2>. QED
    BY <1>1, <1>2, <2>1 DEF Typed
<1>7. now' \subseteq Key /\ dead' \subseteq Process
  BY <1>1, <1>2 DEF Typed
<1>8. Typed'
  BY <1>1, <1>2, <1>3, <1>4, <1>6, <1>7 DEF Typed
<1>9. DeleterInv'
  <2>1. TaskRow \in Key
    BY Parts
  <2> SUFFICES ASSUME TaskRow \in table \ now'
               PROVE  /\ owner'[TaskRow] \in Process
                      /\ handler[owner'[TaskRow]] = "admin_delete"
    BY <1>2 DEF DeleterInv
  <2>2. owner[TaskRow] # p /\ TaskRow \in table \ now
    BY <1>2, <2>1 DEF owned
  <2>. QED
    BY <1>3, <2>1, <2>2 DEF IInv, DeleterInv
<1>10. ProcessInv(p)'
  <2>1. Len(todo'[p]) = 0 /\ ~ Running(p)'
    BY <1>5 DEF Running
  <2>2. owner'[TaskRow] # p
    BY <1>3, Parts, NobodyIsNoProcess
  <2>3. CommitsLast(todo'[p])
    BY <2>1 DEF CommitsLast
  <2>. QED
    BY <1>3, <2>1, <2>2, <2>3 DEF ProcessInv, ServiceInv, JobInv
<1>11. ASSUME NEW q \in Process \ {p} PROVE ProcessInv(q)'
  BY <1>2, <1>3, <1>5, OthersKeep DEF IInv
<1>. QED
  BY <1>8, <1>9, <1>10, <1>11 DEF IInv

LEMMA InsertTaskInv == ASSUME IInv, NEW p \in Process, insert_task(p) PROVE IInv'
<1>1. executes(p, "insert_task")
  BY DEF insert_task
<1>2. /\ op(p) = "insert_task"
      /\ Head(todo[p]) \in TaskStatement /\ keys(p) = {TaskRow}
  BY <1>1, Executing, KeysOf
<1>3. TaskRow \in wanted(p)
  BY <1>2, FirstOfOne DEF wanted
<1>. QED
  BY <1>1, <1>2, <1>3, TaskTaken, AbortInv DEF insert_task

LEMMA SaveColumnInv == ASSUME IInv, NEW p \in Process, save_column(p) PROVE IInv'
<1>1. executes(p, "save_column")
  BY DEF save_column
<1>2. /\ op(p) = "save_column"
      /\ Head(todo[p]) \in TaskStatement /\ keys(p) = {TaskRow}
  BY <1>1, Executing, KeysOf
<1>3. TaskRow \in seen(p) => TaskRow \in wanted(p)
  BY <1>2, FirstOfOne DEF wanted
<1>. QED
  BY <1>1, <1>2, <1>3, TaskTaken, AbortInv DEF save_column

(* Only the Admin's deletion gets here.                                    *)
LEMMA DeleteTaskInv == ASSUME IInv, NEW p \in Process, delete_task(p) PROVE IInv'
<1>1. executes(p, "delete_task")
  BY DEF delete_task
<1>2. /\ Typed /\ ProcessInv(p) /\ Running(p) /\ op(p) = "delete_task"
      /\ Head(todo[p])[1] = "delete_task" /\ keys(p) = {TaskRow}
      /\ rest(p) \in Seq(Statement)
      /\ <<>> \in Seq(Statements(handler[p]))
  BY <1>1, Executing, KeysOf
<1>3. handler[p] = "admin_delete"
  <2>1. Head(todo[p]) \notin WatcherStatement \cup TaskStatement \cup NoticeStatement
    BY <1>2 DEF WatcherStatement, TaskStatement, NoticeStatement, JobStatement
  <2>. QED
    BY <1>2, <2>1, HeadOf, StatementsAre
<1>4. Rewritten(p, <<>>)
  <2>1. <<>> \o rest(p) = rest(p)
    BY <1>2
  <2>. QED
    BY <2>1 DEF Rewritten, next, delete_task
<1>5. UNCHANGED <<table, handler, dead, made, mailed>>
  BY DEF delete_task
<1>6. ProcessInv(p)'
  BY <1>2, <1>3, <1>4, <1>5, SelfAdmin DEF Admins
<1>7. CASE TaskRow \in seen(p)
  <2>1. TaskRow \in wanted(p) /\ TaskRow \in Key
    BY <1>2, <1>7, FirstOfOne, Parts DEF wanted
  <2>2. Takes(p, TaskRow, FALSE)
    BY <1>1, <1>2, <1>3, <1>7, <2>1, Free DEF Takes, delete_task
  <2>. QED
    BY <1>2, <1>4, <1>5, <1>6, <2>2, TakeInv
<1>8. CASE TaskRow \notin seen(p)
  <2>1. UNCHANGED <<table, now, owner, dead, handler, made>>
        /\ mailed' \in [Process -> SUBSET NoticeKey]
    BY <1>2, <1>5, <1>8 DEF delete_task, Typed
  <2>. QED
    BY <1>2, <1>4, <1>6, <2>1, StayInv
<1>. QED
  BY <1>7, <1>8

-----------------------------------------------------------------------------
(* The watchers'.                                                          *)
LEMMA WatchedRest ==
    ASSUME IInv, NEW p \in Process, Running(p),
           Head(todo[p]) \in WatcherStatement,
           NEW new \in Seq(WatcherStatement), Rewritten(p, new),
           UNCHANGED <<table, now, owner, dead, handler, made, mailed>>
    PROVE  IInv'
<1>1. Typed /\ ProcessInv(p)
  BY DEF IInv
<1>2. owned(p)' \subseteq owned(p) \cup Watchers(User)
  BY DEF owned
<1>3. ProcessInv(p)'
  BY <1>1, <1>2, SelfWatch
<1>4. WatcherStatement \subseteq Statements(handler[p])
  BY <1>1, HeadWatches, HeadOf, StatementsAre
<1>5. new \in Seq(Statements(handler[p]))
  BY <1>4
<1>6. mailed' \in [Process -> SUBSET NoticeKey]
  BY <1>1 DEF Typed
<1>. QED
  BY <1>3, <1>5, <1>6, StayInv

LEMMA WatcherTaken ==
    ASSUME IInv, NEW p \in Process, Running(p),
           Head(todo[p]) \in WatcherStatement,
           NEW new \in Seq(WatcherStatement), Rewritten(p, new),
           NEW k \in Watchers(User), NEW there \in BOOLEAN, Takes(p, k, there),
           UNCHANGED <<table, dead, handler, made, mailed>>
    PROVE  IInv'
<1>1. Typed /\ ProcessInv(p)
  BY DEF IInv
<1>2. owned(p)' \subseteq owned(p) \cup Watchers(User)
  BY <1>1, TakesOwned
<1>3. ProcessInv(p)'
  BY <1>1, <1>2, SelfWatch
<1>4. WatcherStatement \subseteq Statements(handler[p])
  BY <1>1, HeadWatches, HeadOf, StatementsAre
<1>5. new \in Seq(Statements(handler[p]))
  BY <1>4
<1>. QED
  BY <1>3, <1>5, TakeInv

LEMMA SetWatchersInv == ASSUME IInv, NEW p \in Process, set_watchers(p) PROVE IInv'
<1>1. executes(p, "set_watchers")
  BY DEF set_watchers
<1>2. /\ Running(p) /\ rest(p) \in Seq(Statement)
      /\ Head(todo[p]) \in WatcherStatement /\ keys(p) \subseteq Watchers(User)
  BY <1>1, Executing, KeysOf
<1> DEFINE old == seen(p) \cap Watchers(User)
           A == old \ keys(p)
           B == keys(p) \ old
           gone == some("remove", A)
           come == some("add", B)
<1>3. A # {} => <<"remove", A>> \in WatcherStatement
  BY DEF WatcherStatement, Filled
<1>4. B # {} => <<"add", B>> \in WatcherStatement
  BY <1>2 DEF WatcherStatement, Filled
<1>5. todo' = [todo EXCEPT ![p] =
          more("remove", A, more("add", B, rest(p)))]
  BY DEF set_watchers, next
<1>6. UNCHANGED <<table, now, owner, dead, handler, made, mailed>>
  BY DEF set_watchers, rows
<1> HIDE DEF old, A, B
<1>7. gone \in Seq(WatcherStatement)
  BY <1>3, Some
<1>8. come \in Seq(WatcherStatement)
  BY <1>4, Some
<1>16. \A others \in Seq(Statement) : more("remove", A, others) = gone \o others
  BY More
<1>17. more("add", B, rest(p)) = come \o rest(p)
  BY <1>2, More
<1> HIDE DEF gone, come
<1>9. WatcherStatement \subseteq Statement
  BY DEF Statement
<1>10. gone \in Seq(Statement) /\ come \in Seq(Statement)
  BY <1>7, <1>8, <1>9
<1>11. come \o rest(p) \in Seq(Statement)
  BY <1>2, <1>10
<1>12. more("remove", A, more("add", B, rest(p)))
           = gone \o (come \o rest(p))
  BY <1>11, <1>16, <1>17
<1>13. gone \o (come \o rest(p)) = (gone \o come) \o rest(p)
  BY <1>2, <1>10, ConcatAssociative
<1>14. Rewritten(p, gone \o come)
  BY <1>5, <1>12, <1>13 DEF Rewritten
<1>15. gone \o come \in Seq(WatcherStatement)
  BY <1>7, <1>8
<1>. QED
  BY <1>2, <1>6, <1>14, <1>15, WatchedRest

LEMMA AddInv == ASSUME IInv, NEW p \in Process, add(p) PROVE IInv'
<1>1. executes(p, "add")
  BY DEF add
<1>2. /\ Typed /\ Running(p) /\ rest(p) \in Seq(Statement) /\ op(p) = "add"
      /\ executes(p, op(p))
      /\ Head(todo[p]) \in WatcherStatement /\ keys(p) \in Filled(Watchers(User))
  BY <1>1, Executing, KeysOf
<1>3. keys(p) \in SUBSET Key /\ keys(p) # {} /\ keys(p) \subseteq Watchers(User)
  BY <1>2, Parts DEF Filled
<1> DEFINE k == first(keys(p))
           K == keys(p) \ {k}
           new == some("add", K)
<1>4. k \in Watchers(User) /\ k \in Key
  BY <1>3, FirstIn
<1>5. k \in wanted(p)
  BY <1>2 DEF wanted
<1>6. owner[k] \in {p, Nobody}
  <2> HIDE DEF k
  <2>. QED
    BY <1>2, <1>4, <1>5, Free
<1>7. /\ next(p, more("add", K, rest(p)))
      /\ IF k \in seen(p) THEN UNCHANGED <<owner, now>> ELSE take(p, k, TRUE)
      /\ UNCHANGED <<table, dead, handler, made, mailed>>
  BY DEF add
<1> HIDE DEF k
<1>8. K # {} => <<"add", K>> \in WatcherStatement
  BY <1>3 DEF WatcherStatement, Filled
<1> HIDE DEF K
<1>9. new \in Seq(WatcherStatement)
  BY <1>8, Some
<1>13. more("add", K, rest(p)) = new \o rest(p)
  BY <1>2, More
<1> HIDE DEF new
<1>12. Rewritten(p, new)
  BY <1>7, <1>13 DEF Rewritten, next
<1>10. CASE k \in seen(p)
  BY <1>2, <1>7, <1>9, <1>10, <1>12, WatchedRest
<1>11. CASE k \notin seen(p)
  <2>1. Takes(p, k, TRUE)
    BY <1>4, <1>6, <1>7, <1>11 DEF Takes
  <2>. QED
    BY <1>2, <1>4, <1>7, <1>9, <1>12, <2>1, WatcherTaken
<1>. QED
  BY <1>10, <1>11

-----------------------------------------------------------------------------
(* The notices'.                                                           *)
LEMMA NoticedRest ==
    ASSUME IInv, NEW p \in Process, Running(p), op(p) # "commit",
           Head(todo[p]) \in NoticeStatement,
           NEW new \in Seq(NoticeStatement), Rewritten(p, new),
           \A i \in 1 .. Len(new) : new[i][1] # "commit",
           Head(todo[p]) \in JobStatement => new \in Seq(JobStatement),
           UNCHANGED <<table, now, owner, dead, handler, made>>,
           mailed' \in [Process -> SUBSET NoticeKey]
    PROVE  IInv'
<1>1. Typed /\ ProcessInv(p)
  BY DEF IInv
<1>2. owned(p)' = owned(p) /\ handler' = handler
  BY DEF owned
<1>3. new \in Seq(Statements(handler[p])) /\ ProcessInv(p)'
  BY <1>1, <1>2, SelfNotice
<1>. QED
  BY <1>3, StayInv

LEMMA ReadWatchersInv == ASSUME IInv, NEW p \in Process, read_watchers(p) PROVE IInv'
<1>1. executes(p, "read_watchers")
  BY DEF read_watchers
<1>2. /\ Typed /\ Running(p) /\ rest(p) \in Seq(Statement) /\ op(p) = "read_watchers"
      /\ Head(todo[p])[1] = "read_watchers" /\ Head(todo[p]) \in NoticeStatement
  BY <1>1, Executing, KeysOf
<1> DEFINE K == {k \in Notices({"status_changed"}, User) : <<"watcher", k[2]>> \in seen(p)}
           new == some("tell", K)
<1>3. next(p, more("tell", K, rest(p)))
      /\ UNCHANGED <<table, now, owner, dead, handler, made, mailed>>
  BY DEF read_watchers, rows
<1>4. K \subseteq NoticeKey
  BY DEF NoticeKey, Notices, Kind
<1> HIDE DEF K
<1>5. <<"tell", K>> \in JobStatement /\ <<"tell", K>> \in NoticeStatement
  BY <1>4 DEF JobStatement, NoticeStatement
<1>6. new \in Seq(JobStatement) /\ new \in Seq(NoticeStatement)
      /\ \A i \in 1 .. Len(new) : new[i][1] = "tell"
  BY <1>5, Some
<1>9. more("tell", K, rest(p)) = new \o rest(p)
  BY <1>2, More
<1> HIDE DEF new
<1>7. Rewritten(p, new)
  BY <1>3, <1>9 DEF Rewritten, next
<1>8. mailed' \in [Process -> SUBSET NoticeKey]
  BY <1>2, <1>3 DEF Typed
<1>. QED
  BY <1>2, <1>3, <1>6, <1>7, <1>8, NoticedRest

LEMMA TellInv == ASSUME IInv, NEW p \in Process, tell(p) PROVE IInv'
<1>1. executes(p, "tell")
  BY DEF tell
<1>2. /\ Typed /\ Running(p) /\ rest(p) \in Seq(Statement) /\ op(p) = "tell"
      /\ Head(todo[p]) \in NoticeStatement /\ keys(p) \subseteq NoticeKey
  BY <1>1, Executing, KeysOf
<1>3. PICK k \in keys(p) :
          LET others == more("tell", keys(p) \ {k}, rest(p))
          IN  next(p, IF k \in seen(p) THEN others ELSE <<<<"insert", {k}>>>> \o others)
  BY DEF tell
<1>4. UNCHANGED <<table, now, owner, dead, handler, made, mailed>>
  BY DEF tell, rows
<1> DEFINE K == keys(p) \ {k}
           last == some("tell", K)
           inserts == some("insert", {k})
           new == IF k \in seen(p) THEN last ELSE inserts \o last
<1>5. <<"tell", K>> \in JobStatement /\ <<"insert", {k}>> \in JobStatement
  BY <1>2 DEF JobStatement, Filled
<1>17. /\ todo' = [todo EXCEPT ![p] = IF k \in seen(p) THEN more("tell", K, rest(p))
               ELSE <<<<"insert", {k}>>>> \o more("tell", K, rest(p))]
  BY <1>3 DEF next
<1> HIDE DEF K
<1>6. /\ last \in Seq(JobStatement)
      /\ \A i \in 1 .. Len(last) : last[i][1] = "tell"
  BY <1>5, Some
<1>18. more("tell", K, rest(p)) = last \o rest(p)
  BY <1>2, More
<1>7. /\ inserts \in Seq(JobStatement)
      /\ \A i \in 1 .. Len(inserts) : inserts[i][1] = "insert"
  BY <1>5, Some
<1>8. inserts = <<<<"insert", {k}>>>>
  BY DEF some
<1> HIDE DEF last, inserts
<1>9. JobStatement \subseteq Statement /\ JobStatement \subseteq NoticeStatement
  BY DEF Statement, NoticeStatement
<1>10. last \in Seq(Statement) /\ inserts \in Seq(Statement)
  BY <1>6, <1>7, <1>9
<1>11. inserts \o (last \o rest(p)) = (inserts \o last) \o rest(p)
  BY <1>2, <1>10, ConcatAssociative
<1>12. Rewritten(p, new)
  BY <1>8, <1>11, <1>17, <1>18 DEF Rewritten
<1>13. /\ inserts \o last \in Seq(JobStatement)
       /\ \A i \in 1 .. Len(inserts \o last) : (inserts \o last)[i][1] # "commit"
  BY <1>6, <1>7
<1>14. new \in Seq(JobStatement) /\ \A i \in 1 .. Len(new) : new[i][1] # "commit"
  BY <1>6, <1>13
<1> HIDE DEF new
<1>15. new \in Seq(NoticeStatement)
  BY <1>9, <1>14
<1>16. mailed' \in [Process -> SUBSET NoticeKey]
  BY <1>2, <1>4 DEF Typed
<1>. QED
  BY <1>2, <1>4, <1>12, <1>14, <1>15, <1>16, NoticedRest

LEMMA NothingNew ==
    ASSUME NEW S
    PROVE  <<>> \in Seq(S) /\ \A i \in 1 .. Len(<<>>) : <<>>[i][1] # "commit"
<1>1. Len(<<>>) = 0
  OBVIOUS
<1>. QED
  BY <1>1

LEMMA RewrittenByNothing ==
    ASSUME IInv, NEW p \in Process, Running(p), next(p, rest(p))
    PROVE  Rewritten(p, <<>>)
<1>1. rest(p) \in Seq(Statement)
  BY DEF IInv, Typed, Running, rest
<1>2. <<>> \o rest(p) = rest(p)
  BY <1>1
<1>. QED
  BY <1>2 DEF Rewritten, next

LEMMA GetAgainInv == ASSUME IInv, NEW p \in Process, get_again(p) PROVE IInv'
<1>1. executes(p, "get_again")
  BY DEF get_again
<1>2. /\ Typed /\ Running(p) /\ op(p) = "get_again" /\ Head(todo[p]) \in NoticeStatement
  BY <1>1, Executing, KeysOf
<1>3. CASE keys(p) \subseteq seen(p)
  <2>1. /\ next(p, rest(p))
        /\ UNCHANGED <<table, now, owner, dead, handler, made, mailed>>
    BY <1>3 DEF get_again, rows
  <2>2. Rewritten(p, <<>>)
    BY <1>2, <2>1, RewrittenByNothing
  <2>3. mailed' \in [Process -> SUBSET NoticeKey]
    BY <1>2, <2>1 DEF Typed
  <2>. QED
    BY <1>2, <2>1, <2>2, <2>3, NothingNew, NoticedRest
<1>4. CASE ~ (keys(p) \subseteq seen(p))
  BY <1>4, AbortInv DEF get_again
<1>. QED
  BY <1>3, <1>4

LEMMA MailInv == ASSUME IInv, NEW p \in Process, mail(p) PROVE IInv'
<1>1. executes(p, "mail")
  BY DEF mail
<1>2. /\ Typed /\ Running(p) /\ op(p) = "mail" /\ Head(todo[p]) \in NoticeStatement
      /\ keys(p) \in Filled(NoticeKey)
  BY <1>1, Executing, KeysOf
<1>3. /\ next(p, rest(p))
      /\ mailed' = [mailed EXCEPT ![p] = @ \cup keys(p)]
      /\ UNCHANGED <<table, now, owner, dead, handler, made>>
  BY DEF mail, rows
<1>4. Rewritten(p, <<>>)
  BY <1>2, <1>3, RewrittenByNothing
<1>5. mailed' \in [Process -> SUBSET NoticeKey]
  BY <1>2, <1>3 DEF Typed, Filled
<1>. QED
  BY <1>2, <1>3, <1>4, <1>5, NothingNew, NoticedRest

(* A service and the Admin own a notice until their transaction ends; the  *)
(* job goes on to commit it.                                               *)
LEMMA InsertInv == ASSUME IInv, NEW p \in Process, insert(p) PROVE IInv'
<1>1. executes(p, "insert")
  BY DEF insert
<1>2. /\ Typed /\ ProcessInv(p) /\ Running(p) /\ op(p) = "insert"
      /\ rest(p) \in Seq(Statement) /\ executes(p, op(p))
      /\ Head(todo[p]) \in NoticeStatement /\ keys(p) \in Filled(NoticeKey)
  BY <1>1, Executing, KeysOf
<1>3. keys(p) \in SUBSET Key /\ keys(p) # {} /\ keys(p) \subseteq NoticeKey
  BY <1>2, Parts DEF Filled
<1> DEFINE k == first(keys(p))
           post == IF k[2] \in Reachable THEN <<<<"mail", {k}>>>> ELSE <<>>
           again == <<<<"get_again", {k}>>>>
           new == IF Job(p) THEN <<Commit>> \o post ELSE post
<1>4. k \in NoticeKey /\ k \in Key
  BY <1>3, FirstIn
<1>5. k \in wanted(p)
  BY <1>2 DEF wanted
<1>6. owner[k] \in {p, Nobody}
  <2> HIDE DEF k
  <2>. QED
    BY <1>2, <1>4, <1>5, Free
<1>7. IF k \in seen(p)
      THEN next(p, again \o rest(p)) /\ UNCHANGED <<owner, now>>
      ELSE take(p, k, TRUE) /\ next(p, new \o rest(p))
  BY DEF insert
<1>8. UNCHANGED <<table, dead, handler, made, mailed>>
  BY DEF insert
<1> HIDE DEF k
<1> DEFINE letter == <<"mail", {k}>>
           look == <<"get_again", {k}>>
<1>9. letter \in JobStatement /\ look \in JobStatement /\ Commit \in JobStatement
  BY <1>4 DEF JobStatement, Filled, Commit
<1>10. letter[1] = "mail" /\ look[1] = "get_again" /\ Commit[1] = "commit"
  BY DEF Commit
<1>11. again = <<look>> /\ (post = <<letter>> \/ post = <<>>)
  OBVIOUS
<1>12. JobStatement \subseteq NoticeStatement
  BY Apart
<1> HIDE DEF letter, look, again, post
<1>13. again \in Seq(JobStatement) /\ again \in Seq(NoticeStatement)
       /\ \A i \in 1 .. Len(again) : again[i][1] # "commit"
  BY <1>9, <1>10, <1>11, <1>12
<1>14. post \in Seq(JobStatement) /\ post \in Seq(NoticeStatement)
       /\ \A i \in 1 .. Len(post) : post[i][1] # "commit"
  <2>1. CASE post = <<letter>>
    BY <1>9, <1>10, <1>12, <2>1
  <2>2. CASE post = <<>>
    BY <2>2, NothingNew
  <2>. QED
    BY <1>11, <2>1, <2>2
<1>15. CASE k \in seen(p)
  <2>1. Rewritten(p, again)
    BY <1>7, <1>15 DEF Rewritten, next
  <2>2. UNCHANGED <<table, now, owner, dead, handler, made>>
        /\ mailed' \in [Process -> SUBSET NoticeKey]
    BY <1>2, <1>7, <1>8, <1>15 DEF Typed
  <2>. QED
    BY <1>2, <1>13, <2>1, <2>2, NoticedRest
<1>16. CASE k \notin seen(p)
  <2>1. Takes(p, k, TRUE)
    BY <1>4, <1>6, <1>7, <1>16, Parts DEF Takes
  <2>2. owned(p)' = owned(p) \cup {k} /\ handler' = handler
    BY <1>2, <1>8, <2>1, TakesOwned
  <2>3. Rewritten(p, new)
    BY <1>7, <1>16 DEF Rewritten, next
  <2>4. CASE handler[p] = "run_task_alerts"
    <3>1. new = <<Commit>> \o post
      BY <2>4 DEF Job
    <3> HIDE DEF new
    <3>2. <<Commit>> \in Seq(JobStatement)
      BY <1>9
    <3>3. new \in Seq(JobStatement) /\ Len(new) # 0 /\ new[1] = Commit
      BY <1>14, <3>1, <3>2
    <3>4. owned(p)' \subseteq NoticeKey
      BY <1>2, <1>4, <2>2, <2>4 DEF ProcessInv, JobInv
    <3>5. ProcessInv(p)'
      BY <1>2, <1>10, <2>2, <2>3, <2>4, <3>3, <3>4, SelfJob
    <3>6. new \in Seq(Statements(handler[p]))
      BY <1>2, <2>4, <3>3, HeadOf, StatementsAre
    <3>. QED
      BY <1>2, <1>8, <2>1, <2>3, <3>5, <3>6, TakeInv
  <2>5. CASE handler[p] # "run_task_alerts"
    <3>1. new = post
      BY <2>5 DEF Job
    <3> HIDE DEF new
    <3>2. NoticeStatement \subseteq Statements(handler[p])
      BY <1>2, <2>5, HeadNotifies, HeadOf, StatementsAre
    <3>3. new \in Seq(Statements(handler[p]))
      BY <1>14, <3>1, <3>2
    <3>4. owned(p) \subseteq owned(p)' /\ owned(p)' \subseteq owned(p) \cup NoticeKey
      BY <1>4, <2>2
    <3>5. handler[p] \in Admins \cup Services
      BY <1>2, <2>5, HeadNotifies
    <3>6. ProcessInv(p)'
      BY <1>2, <1>14, <2>2, <2>3, <3>1, <3>3, <3>4, <3>5, SelfService, SelfAdmin
    <3>. QED
      BY <1>2, <1>8, <2>1, <2>3, <3>3, <3>6, TakeInv
  <2>. QED
    BY <2>4, <2>5
<1>. QED
  BY <1>15, <1>16

(* The rows of a DELETE, which only the Admin issues about watchers.       *)
LEMMA DeleteInv == ASSUME IInv, NEW p \in Process, delete(p) PROVE IInv'
<1>1. executes(p, "delete")
  BY DEF delete
<1>2. /\ Typed /\ ProcessInv(p) /\ Running(p) /\ op(p) = "delete"
      /\ rest(p) \in Seq(Statement)
      /\ Head(todo[p]) \in Statement /\ Head(todo[p])[1] = "delete"
      /\ Head(todo[p])[2] = keys(p)
      /\ \/ keys(p) \subseteq Watchers(User)
         \/ Head(todo[p]) \in NoticeStatement /\ keys(p) \subseteq NoticeKey
  BY <1>1, Executing, KeysOf
<1> DEFINE K == keys(p) \cap seen(p)
           new == some("remove", K)
<1>3. /\ next(p, more("remove", K, rest(p)))
      /\ UNCHANGED <<table, now, owner, dead, handler, made, mailed>>
  BY DEF delete, rows
<1>4. mailed' \in [Process -> SUBSET NoticeKey]
  BY <1>2, <1>3 DEF Typed
<1>5. K \subseteq keys(p)
  OBVIOUS
<1> HIDE DEF K
<1>6. more("remove", K, rest(p)) = new \o rest(p)
  BY <1>2, More
<1>7. Rewritten(p, new)
  <2> HIDE DEF new
  <2>. QED
    BY <1>3, <1>6 DEF Rewritten, next
<1>8. CASE handler[p] \in Admins
  <2>1. K # {} => <<"remove", K>> \in Statements(handler[p])
    <3>1. K # {} => <<"remove", K>> \in WatcherStatement \cup NoticeStatement
      BY <1>2, <1>5 DEF WatcherStatement, NoticeStatement, Filled
    <3>. QED
      BY <1>2, <1>8, <3>1, HeadOf, StatementsAre
  <2>2. new \in Seq(Statements(handler[p]))
    BY <2>1, Some
  <2> HIDE DEF new
  <2>3. ProcessInv(p)'
    BY <1>2, <1>3, <1>7, <1>8, <2>2, SelfAdmin
  <2>. QED
    BY <1>2, <1>3, <1>4, <1>7, <2>2, <2>3, StayInv
<1>9. CASE handler[p] \notin Admins
  <2>1. Head(todo[p]) \in {"delete"} \X SUBSET NoticeKey
    <3>1. Head(todo[p]) \in WatcherStatement \cup TaskStatement \cup NoticeStatement
      BY <1>2, <1>9, HeadOf, StatementsAre DEF Admins
    <3>. QED
      BY <1>2, <3>1 DEF WatcherStatement, TaskStatement, NoticeStatement, JobStatement
  <2>2. Head(todo[p]) \in NoticeStatement /\ keys(p) \subseteq NoticeKey
    BY <1>2, <2>1 DEF NoticeStatement
  <2>3. Head(todo[p]) \notin JobStatement
    BY <1>2 DEF JobStatement
  <2>4. K # {} => <<"remove", K>> \in NoticeStatement
    BY <1>5, <2>2 DEF NoticeStatement, Filled
  <2>5. /\ new \in Seq(NoticeStatement)
        /\ \A i \in 1 .. Len(new) : new[i][1] = "remove"
    BY <2>4, Some
  <2> HIDE DEF new
  <2>. QED
    BY <1>2, <1>3, <1>4, <1>7, <2>2, <2>3, <2>5, NoticedRest
<1>. QED
  BY <1>8, <1>9

LEMMA RemoveInv == ASSUME IInv, NEW p \in Process, remove(p) PROVE IInv'
<1>1. executes(p, "remove")
  BY DEF remove
<1>2. /\ Typed /\ ProcessInv(p) /\ Running(p) /\ op(p) = "remove"
      /\ rest(p) \in Seq(Statement) /\ executes(p, op(p))
      /\ Head(todo[p])[1] = "remove"
      /\ \/ Head(todo[p]) \in WatcherStatement /\ keys(p) \in Filled(Watchers(User))
         \/ Head(todo[p]) \in NoticeStatement /\ keys(p) \in Filled(NoticeKey)
  BY <1>1, Executing, KeysOf
<1>3. keys(p) \in SUBSET Key /\ keys(p) # {}
  BY <1>2, Parts DEF Filled
<1> DEFINE k == first(keys(p))
           K == keys(p) \ {k}
           new == some("remove", K)
<1>4. k \in keys(p) /\ k \in Key /\ K \subseteq keys(p)
  BY <1>3, FirstIn
<1>5. k \in seen(p) => k \in wanted(p)
  BY <1>2 DEF wanted
<1>6. k \in seen(p) => owner[k] \in {p, Nobody}
  <2> HIDE DEF k
  <2>. QED
    BY <1>2, <1>4, <1>5, Free
<1>7. /\ next(p, more("remove", K, rest(p)))
      /\ IF k \in seen(p) THEN take(p, k, FALSE) ELSE UNCHANGED <<owner, now>>
      /\ UNCHANGED <<table, dead, handler, made, mailed>>
  BY DEF remove
<1> HIDE DEF k, K
<1>8. more("remove", K, rest(p)) = new \o rest(p)
  BY <1>2, More
<1>9. Rewritten(p, new)
  <2> HIDE DEF new
  <2>. QED
    BY <1>7, <1>8 DEF Rewritten, next
<1>10. k # TaskRow
  BY <1>2, <1>4, Parts DEF Filled
<1>11. k \in seen(p) => Takes(p, k, FALSE)
  BY <1>4, <1>6, <1>7, <1>10 DEF Takes
<1>12. k \notin seen(p) =>
           /\ UNCHANGED <<table, now, owner, dead, handler, made, mailed>>
           /\ mailed' \in [Process -> SUBSET NoticeKey]
  BY <1>2, <1>7 DEF Typed
<1>13. CASE Head(todo[p]) \in WatcherStatement /\ keys(p) \in Filled(Watchers(User))
  <2>1. K # {} => <<"remove", K>> \in WatcherStatement
    BY <1>4, <1>13 DEF WatcherStatement, Filled
  <2>2. new \in Seq(WatcherStatement)
    BY <2>1, Some
  <2>3. k \in Watchers(User)
    BY <1>4, <1>13 DEF Filled
  <2> HIDE DEF new
  <2>4. CASE k \in seen(p)
    BY <1>2, <1>7, <1>9, <1>11, <1>13, <2>2, <2>3, <2>4, WatcherTaken
  <2>5. CASE k \notin seen(p)
    BY <1>2, <1>9, <1>12, <1>13, <2>2, <2>5, WatchedRest
  <2>. QED
    BY <2>4, <2>5
<1>14. CASE Head(todo[p]) \in NoticeStatement /\ keys(p) \in Filled(NoticeKey)
  <2>1. Head(todo[p]) \notin JobStatement
    BY <1>2 DEF JobStatement
  <2>2. K # {} => <<"remove", K>> \in NoticeStatement
    BY <1>4, <1>14 DEF NoticeStatement, Filled
  <2>3. /\ new \in Seq(NoticeStatement)
        /\ \A i \in 1 .. Len(new) : new[i][1] = "remove"
    BY <2>2, Some
  <2>4. k \in NoticeKey
    BY <1>4, <1>14 DEF Filled
  <2> HIDE DEF new
  <2>5. CASE k \in seen(p)
    <3>1. owned(p)' = owned(p) \cup {k} /\ handler' = handler
      BY <1>2, <1>7, <1>11, <2>5, TakesOwned
    <3>2. handler[p] \in Admins \cup Services
      BY <1>2, <1>14, <2>1, HeadNotifies
    <3>3. NoticeStatement \subseteq Statements(handler[p])
      BY <1>2, <3>2, HeadOf, StatementsAre
    <3>4. new \in Seq(Statements(handler[p]))
      BY <2>3, <3>3
    <3>5. owned(p) \subseteq owned(p)' /\ owned(p)' \subseteq owned(p) \cup NoticeKey
      BY <2>4, <3>1
    <3>6. \A i \in 1 .. Len(new) : new[i][1] # "commit"
      BY <2>3
    <3>7. ProcessInv(p)'
      BY <1>2, <1>9, <1>14, <2>3, <3>1, <3>2, <3>4, <3>5, <3>6, SelfService, SelfAdmin
    <3>. QED
      BY <1>2, <1>7, <1>9, <1>11, <2>5, <3>4, <3>7, TakeInv
  <2>6. CASE k \notin seen(p)
    BY <1>2, <1>9, <1>12, <1>14, <2>1, <2>3, <2>6, NoticedRest
  <2>. QED
    BY <2>5, <2>6
<1>. QED
  BY <1>2, <1>13, <1>14

LEMMA CommitInv == ASSUME IInv, NEW p \in Process, commit(p) PROVE IInv'
<1>1. executes(p, "commit")
  BY DEF commit
<1>2. /\ Typed /\ ProcessInv(p) /\ Running(p) /\ op(p) = "commit"
      /\ Head(todo[p])[1] = "commit" /\ Head(todo[p]) \in NoticeStatement
      /\ <<>> \in Seq(Statements(handler[p]))
  BY <1>1, Executing, KeysOf
<1>3. CASE dangling(p) # {}
  BY <1>3, AbortInv DEF commit
<1>4. CASE dangling(p) = {}
  <2>1. /\ table' = seen(p)
        /\ made' = [made EXCEPT ![p] = @ \cup (newChildren(p) \cap NoticeKey)]
        /\ release(p) /\ next(p, rest(p))
        /\ UNCHANGED <<now, dead, handler, mailed>>
    BY <1>4 DEF commit
  <2>2. /\ owner' \in [Key -> Process \cup {Nobody}]
        /\ owned(p)' = {}
        /\ \A q \in Process \ {p} : owned(q)' = owned(q)
        /\ \A k \in Key : owner'[k] = IF owner[k] = p THEN Nobody ELSE owner[k]
    BY <1>2, <2>1, ReleasedKeys
  <2>3. Rewritten(p, <<>>)
    BY <1>2, <2>1, RewrittenByNothing
  <2>4. /\ todo' \in [Process -> Seq(Statement)]
        /\ \A q \in Process \ {p} : todo'[q] = todo[q]
        /\ Len(todo'[p]) = Len(todo[p]) - 1
        /\ todo'[p] \in Seq(Statement) /\ Len(todo[p]) \in Nat \ {0}
    <3>1. Len(<<>>) = 0
      OBVIOUS
    <3> DEFINE none == <<>>
    <3>2. none \in Seq(Statements(handler[p])) /\ Rewritten(p, none) /\ Len(none) = 0
      BY <1>2, <2>3, <3>1
    <3> HIDE DEF none
    <3>3. /\ todo' \in [Process -> Seq(Statement)]
          /\ \A q \in Process \ {p} : todo'[q] = todo[q]
          /\ Len(todo'[p]) = Len(none) + Len(todo[p]) - 1
          /\ todo'[p] \in Seq(Statement) /\ Len(todo[p]) \in Nat \ {0}
      BY <1>2, <3>2, RewrittenTodo
    <3>. QED
      BY <3>2, <3>3
  <2>5. table' \subseteq Key
    BY <1>2, <2>1 DEF Typed, seen
  <2>6. \A k \in Key : owner'[k] = Nobody => (k \in now <=> k \in table')
    BY <1>2, <2>1, <2>2 DEF Typed, seen, owned
  <2>7. made' \in [Process -> SUBSET NoticeKey]
    BY <1>2, <2>1 DEF Typed
  <2>8. Typed'
    BY <1>2, <2>1, <2>2, <2>4, <2>5, <2>6, <2>7 DEF Typed
  <2>9. DeleterInv'
    <3>1. TaskRow \in Key
      BY Parts
    <3> SUFFICES ASSUME TaskRow \in table' \ now
                 PROVE  /\ owner'[TaskRow] \in Process
                        /\ handler[owner'[TaskRow]] = "admin_delete"
      BY <2>1 DEF DeleterInv
    <3>2. owner[TaskRow] # p /\ TaskRow \in table \ now
      BY <2>1, <3>1 DEF owned, seen
    <3>. QED
      BY <2>2, <3>1, <3>2 DEF IInv, DeleterInv
  <2>10. ProcessInv(p)'
    <3>1. CASE handler[p] \in Admins
      BY <1>2, <2>1, <2>3, <3>1, SelfAdmin
    <3>2. CASE handler[p] = "run_task_alerts"
      <4>1. <<>> \in Seq(JobStatement)
        OBVIOUS
      <4>2. owned(p)' \subseteq NoticeKey
        BY <2>2
      <4>. QED
        BY <1>2, <2>1, <2>2, <2>3, <3>2, <4>1, <4>2, SelfJob
    <3>3. CASE handler[p] \in Services
      <4>1. Len(todo[p]) = 1
        <5>1. CommitsLast(todo[p]) /\ todo[p][1][1] = "commit"
          BY <1>2, <3>3, HeadOf DEF ProcessInv, ServiceInv
        <5>2. 1 \notin 1 .. Len(todo[p]) - 1
          BY <5>1 DEF CommitsLast
        <5> DEFINE n == Len(todo[p])
        <5>3. n \in Nat \ {0} /\ 1 \notin 1 .. n - 1
          BY <2>4, <5>2
        <5> HIDE DEF n
        <5>4. n = 1
          BY <5>3
        <5>. QED
          BY <5>4 DEF n
      <4>2. Len(todo'[p]) = 0 /\ ~ Running(p)'
        BY <2>4, <4>1 DEF Running
      <4>3. owner'[TaskRow] # p
        BY <2>2, Parts, NobodyIsNoProcess
      <4>4. CommitsLast(todo'[p])
        BY <4>2 DEF CommitsLast
      <4>5. handler[p] # "run_task_alerts"
        BY <3>3 DEF Services
      <4>. QED
        BY <2>1, <2>2, <4>2, <4>3, <4>4, <4>5 DEF ProcessInv, ServiceInv
    <3>. QED
      BY <1>2, <3>1, <3>2, <3>3, HeadNotifies
  <2>11. ASSUME NEW q \in Process \ {p} PROVE ProcessInv(q)'
    BY <2>1, <2>2, <2>4, OthersKeep DEF IInv
  <2>. QED
    BY <2>8, <2>9, <2>10, <2>11 DEF IInv
<1>. QED
  BY <1>3, <1>4

-----------------------------------------------------------------------------
(* The programs.                                                           *)
LEMMA Begun ==
    ASSUME IInv, NEW p \in Process, NEW name \in Handler,
           NEW program \in Seq(Statements(name)),
           name \in Services => CommitsLast(program) /\ InOrder(program),
           begin(p, name, program)
    PROVE  IInv'
<1>1. Typed /\ ProcessInv(p)
  BY DEF IInv
<1>2. /\ handler[p] = "idle"
      /\ handler' = [handler EXCEPT ![p] = name]
      /\ todo' = [todo EXCEPT ![p] = program]
      /\ UNCHANGED <<table, now, owner, dead, made, mailed>>
  BY DEF begin, rows
<1>3. program \in Seq(Statement)
  BY StatementsAre
<1>4. /\ todo' \in [Process -> Seq(Statement)]
      /\ todo'[p] = program /\ \A q \in Process \ {p} : todo'[q] = todo[q]
  BY <1>1, <1>2, <1>3 DEF Typed
<1>5. /\ handler' \in [Process -> Handler \cup {"idle"}]
      /\ handler'[p] = name /\ \A q \in Process \ {p} : handler'[q] = handler[q]
  BY <1>1, <1>2 DEF Typed
<1>6. owned(p) = {} /\ \A q \in Process : owned(q)' = owned(q)
  BY <1>1, <1>2 DEF ProcessInv, owned
<1>7. Typed'
  BY <1>1, <1>2, <1>4, <1>5 DEF Typed
<1>8. DeleterInv'
  <2>1. handler[p] # "admin_delete"
    BY <1>2
  <2>. QED
    BY <1>2, <1>5, <2>1 DEF IInv, DeleterInv
<1>9. ProcessInv(p)'
  <2>1. \A i \in 1 .. Len(program) : program[i] \in Statements(name)
    OBVIOUS
  <2>2. owner[TaskRow] # p
    BY <1>6, Parts DEF owned
  <2>3. name # "idle"
    BY DEF Handler
  <2>. QED
    BY <1>2, <1>4, <1>5, <1>6, <2>1, <2>2, <2>3 DEF ProcessInv, ServiceInv, JobInv
<1>10. ASSUME NEW q \in Process \ {p} PROVE ProcessInv(q)'
  BY <1>4, <1>5, <1>6, OthersKeep DEF IInv
<1>. QED
  BY <1>7, <1>8, <1>9, <1>10 DEF IInv

LEMMA Phrases ==
    /\ Save \in TaskStatement /\ Save[1] = "save"
    /\ Commit \in JobStatement
    /\ \A us \in SUBSET User :
           SetWatchers(us) \in WatcherStatement /\ SetWatchers(us)[1] = "set_watchers"
    /\ \A us \in SUBSET User : \A kind \in Kind :
           Tell(kind, us) \in JobStatement /\ Tell(kind, us)[1] = "tell"
<1>1. Save \in TaskStatement /\ Save[1] = "save"
  BY DEF Save, TaskStatement
<1>2. Commit \in JobStatement
  BY DEF Commit, JobStatement
<1>3. ASSUME NEW us \in SUBSET User
      PROVE  SetWatchers(us) \in WatcherStatement /\ SetWatchers(us)[1] = "set_watchers"
  <2>1. Watchers(us) \in SUBSET Watchers(User)
    BY DEF Watchers
  <2>. QED
    BY <2>1 DEF SetWatchers, WatcherStatement
<1>4. ASSUME NEW us \in SUBSET User, NEW kind \in Kind
      PROVE  Tell(kind, us) \in JobStatement /\ Tell(kind, us)[1] = "tell"
  <2>1. Notices({kind}, us) \in SUBSET NoticeKey
    BY DEF Notices, NoticeKey
  <2>. QED
    BY <2>1 DEF Tell, JobStatement
<1>. QED
  BY <1>1, <1>2, <1>3, <1>4

(* A save, and what follows it about notices.                              *)
LEMMA SavesThenNotifies ==
    ASSUME NEW a \in TaskStatement, NEW b \in NoticeStatement,
           NEW c \in NoticeStatement, NEW d \in NoticeStatement,
           b[1] # "commit", c[1] # "commit"
    PROVE  /\ CommitsLast(<<a, b, d>>) /\ InOrder(<<a, b, d>>)
           /\ CommitsLast(<<a, b, c, d>>) /\ InOrder(<<a, b, c, d>>)
           /\ CommitsLast(<<a, d>>) /\ InOrder(<<a, d>>)
<1>1. a[1] # "commit"
  BY DEF TaskStatement
<1>2. CommitsLast(<<a, b, d>>) /\ CommitsLast(<<a, b, c, d>>) /\ CommitsLast(<<a, d>>)
  BY <1>1 DEF CommitsLast
<1>3. InOrder(<<a, b, d>>)
  <2> DEFINE s == <<a, b, d>>
  <2>1. Len(s) = 3 /\ s[1] = a /\ s[2] = b /\ s[3] = d
    OBVIOUS
  <2> HIDE DEF s
  <2>2. 1 \in 1 .. Len(s) /\ (\A i \in 1 .. 0 : s[i] \in WatcherStatement)
        /\ \A i \in 2 .. Len(s) : s[i] \in NoticeStatement
    BY <2>1
  <2>3. InOrder(s)
    BY <2>1, <2>2 DEF InOrder
  <2>. QED
    BY <2>3 DEF s
<1>4. InOrder(<<a, b, c, d>>)
  <2> DEFINE s == <<a, b, c, d>>
  <2>1. Len(s) = 4 /\ s[1] = a /\ s[2] = b /\ s[3] = c /\ s[4] = d
    OBVIOUS
  <2> HIDE DEF s
  <2>2. 1 \in 1 .. Len(s) /\ (\A i \in 1 .. 0 : s[i] \in WatcherStatement)
        /\ \A i \in 2 .. Len(s) : s[i] \in NoticeStatement
    BY <2>1
  <2>3. InOrder(s)
    BY <2>1, <2>2 DEF InOrder
  <2>. QED
    BY <2>3 DEF s
<1>5. InOrder(<<a, d>>)
  <2> DEFINE s == <<a, d>>
  <2>1. Len(s) = 2 /\ s[1] = a /\ s[2] = d
    OBVIOUS
  <2> HIDE DEF s
  <2>2. 1 \in 1 .. Len(s) /\ (\A i \in 1 .. 0 : s[i] \in WatcherStatement)
        /\ \A i \in 2 .. Len(s) : s[i] \in NoticeStatement
    BY <2>1
  <2>3. InOrder(s)
    BY <2>1, <2>2 DEF InOrder
  <2>. QED
    BY <2>3 DEF s
<1>. QED
  BY <1>2, <1>3, <1>4, <1>5

LEMMA ReceiveInv == ASSUME IInv, NEW p \in Process, receive(p) PROVE IInv'
<1>1. JobStatement \subseteq NoticeStatement
  BY Apart
<1>2. Commit \in NoticeStatement
  BY <1>1, Phrases
<1>3. CASE begin(p, "change_status", change_status)
  <2> DEFINE look == <<"read_watchers", {}>>
  <2>1. look \in NoticeStatement /\ look[1] # "commit"
    BY DEF NoticeStatement
  <2>2. change_status = <<Save, look, Commit>>
    BY DEF change_status
  <2> HIDE DEF look
  <2>3. CommitsLast(change_status) /\ InOrder(change_status)
    BY <1>2, <2>1, <2>2, Phrases, SavesThenNotifies
  <2>4. {Save, look, Commit} \subseteq Statements("change_status")
    BY <1>2, <2>1, Phrases, StatementsAre DEF Handler, Services
  <2>5. change_status \in Seq(Statements("change_status"))
    BY <2>2, <2>4
  <2>6. "change_status" \in Handler
    BY DEF Handler
  <2>. QED
    BY <1>3, <2>3, <2>5, <2>6, Begun
<1>4. CASE \E a \in AssignInput : begin(p, "assign_task", assign_task(a[1], a[2]))
  <2>1. PICK a \in AssignInput : begin(p, "assign_task", assign_task(a[1], a[2]))
    BY <1>4
  <2>2. a[1] \in User /\ a[2] \in User
    BY Inputs
  <2> DEFINE column == <<"save_column", {TaskRow}>>
             prune == <<"delete", Notices({"alert"}, {a[1]})>>
             tell_ == Tell("reassigned", {a[2]})
             program == assign_task(a[1], a[2])
  <2>3. column \in TaskStatement
    BY DEF TaskStatement
  <2>4. prune \in NoticeStatement /\ prune[1] # "commit"
    <3>1. Notices({"alert"}, {a[1]}) \in SUBSET NoticeKey
      BY <2>2 DEF Notices, NoticeKey, Kind
    <3>. QED
      BY <3>1 DEF NoticeStatement
  <2>5. tell_ \in NoticeStatement /\ tell_[1] # "commit"
    BY <1>1, <2>2, Phrases DEF Kind
  <2>6. program = <<column, prune, tell_, Commit>>
    BY DEF assign_task
  <2> HIDE DEF column, prune, tell_, program
  <2>7. CommitsLast(program) /\ InOrder(program)
    BY <1>2, <2>3, <2>4, <2>5, <2>6, SavesThenNotifies
  <2>8. {column, prune, tell_, Commit} \subseteq Statements("assign_task")
    BY <1>2, <2>3, <2>4, <2>5, StatementsAre DEF Handler, Services
  <2>9. program \in Seq(Statements("assign_task"))
    BY <2>6, <2>8
  <2>10. "assign_task" \in Handler /\ begin(p, "assign_task", program)
    BY <2>1 DEF Handler, program
  <2>. QED
    BY <2>7, <2>9, <2>10, Begun
<1>5. CASE \E sent \in {<<>>} \cup {<<SetWatchers(ws)>> : ws \in WatcherInput} :
               begin(p, "update_task_fields", update_task_fields(sent))
  <2>1. PICK sent \in {<<>>} \cup {<<SetWatchers(ws)>> : ws \in WatcherInput} :
            begin(p, "update_task_fields", update_task_fields(sent))
    BY <1>5
  <2> DEFINE program == update_task_fields(sent)
  <2>2. "update_task_fields" \in Handler /\ begin(p, "update_task_fields", program)
    BY <2>1 DEF Handler
  <2>3. WatcherStatement \cup TaskStatement \cup NoticeStatement
            \subseteq Statements("update_task_fields")
    BY StatementsAre DEF Handler, Services
  <2>4. CASE sent = <<>>
    <3>1. program = <<Save, Commit>>
      BY <2>4 DEF update_task_fields
    <3> HIDE DEF program
    <3>2. Save \in Statements("update_task_fields") /\ Commit \in Statements("update_task_fields")
      BY <1>2, <2>3, Phrases
    <3>3. program \in Seq(Statements("update_task_fields"))
      BY <3>1, <3>2
    <3>4. <<"read_watchers", {}>> \in NoticeStatement
      BY DEF NoticeStatement
    <3>5. CommitsLast(program) /\ InOrder(program)
      <4> DEFINE b == <<"read_watchers", {}>>
      <4>1. b \in NoticeStatement /\ b[1] # "commit"
        BY <3>4
      <4> HIDE DEF b
      <4>. QED
        BY <1>2, <3>1, <4>1, Phrases, SavesThenNotifies
    <3>. QED
      BY <2>2, <3>3, <3>5, Begun
  <2>5. CASE sent \in {<<SetWatchers(ws)>> : ws \in WatcherInput}
    <3>1. PICK ws \in WatcherInput : sent = <<SetWatchers(ws)>>
      BY <2>5
    <3> DEFINE set == SetWatchers(ws)
    <3>2. set \in WatcherStatement /\ set[1] = "set_watchers"
      BY Inputs, Phrases
    <3> HIDE DEF set
    <3>3. sent = <<set>>
      BY <3>1 DEF set
    <3> DEFINE S == Statements("update_task_fields")
               tail == <<Save, Commit>>
    <3>4. program = <<set>> \o tail
      BY <3>3 DEF update_task_fields
    <3>5. set \in S /\ Save \in S /\ Commit \in S
      BY <1>2, <2>3, <3>2, Phrases
    <3> HIDE DEF S
    <3>6. tail \in Seq(S) /\ Len(tail) = 2 /\ tail[1] = Save /\ tail[2] = Commit
      BY <3>5
    <3> HIDE DEF program, tail
    <3>7. /\ program \in Seq(S) /\ Len(program) = 3
          /\ program[1] = set /\ program[2] = Save /\ program[3] = Commit
      <4> DEFINE one == <<set>>
      <4>1. one \in Seq(S) /\ Len(one) = 1 /\ one[1] = set /\ program = one \o tail
        BY <3>4, <3>5
      <4> HIDE DEF one
      <4>2. one \o tail \in Seq(S) /\ Len(one \o tail) = Len(one) + Len(tail)
        BY <3>6, <4>1, ConcatProperties
      <4>3. \A i \in 1 .. 3 : program[i] = IF i <= 1 THEN one[i] ELSE tail[i - 1]
        BY <3>6, <4>1, ConcatProperties
      <4>4. program[1] = set /\ program[2] = Save /\ program[3] = Commit
        <5>1. program[1] = one[1] /\ program[2] = tail[1] /\ program[3] = tail[2]
          BY <4>3
        <5>. QED
          BY <3>6, <4>1, <5>1
      <4>. QED
        BY <3>6, <4>1, <4>2, <4>4
    <3>8. CommitsLast(program)
      BY <3>2, <3>7, Phrases DEF CommitsLast
    <3>9. 2 \in 1 .. Len(program)
          /\ (\A i \in 1 .. 2 - 1 : program[i] \in WatcherStatement)
          /\ \A i \in 2 + 1 .. Len(program) : program[i] \in NoticeStatement
      BY <1>2, <3>2, <3>7
    <3>10. InOrder(program)
      BY <3>7, <3>9, Phrases DEF InOrder
    <3>. QED
      BY <2>2, <3>7, <3>8, <3>10, Begun DEF S
  <2>. QED
    BY <2>4, <2>5
<1>6. CASE \E ws \in WatcherInput : begin(p, "admin_change", admin_change(ws))
  <2>1. PICK ws \in WatcherInput : begin(p, "admin_change", admin_change(ws))
    BY <1>6
  <2> DEFINE set == SetWatchers(ws)
             program == admin_change(ws)
  <2>2. set \in WatcherStatement
    BY Inputs, Phrases
  <2>3. program = <<Save, set, Commit>>
    BY DEF admin_change
  <2>4. begin(p, "admin_change", program) /\ "admin_change" \in Handler
        /\ "admin_change" \notin Services
    BY <2>1 DEF Handler, Services
  <2> HIDE DEF set, program
  <2>5. {Save, set, Commit} \subseteq Statements("admin_change")
    BY <1>2, <2>2, Phrases, StatementsAre DEF Handler, Admins
  <2>6. program \in Seq(Statements("admin_change"))
    BY <2>3, <2>5
  <2>. QED
    BY <2>4, <2>6, Begun
<1>7. CASE begin(p, "admin_delete", admin_delete)
  <2> DEFINE unwatch == <<"delete", Watchers(User)>>
             prune == <<"delete", NoticeKey>>
             drop == <<"delete_task", {TaskRow}>>
  <2>1. unwatch \in Statement /\ prune \in Statement /\ drop \in Statement
        /\ Commit \in Statement
    BY <1>2 DEF Statement, NoticeStatement
  <2>2. admin_delete = <<unwatch, prune, drop, Commit>>
    BY DEF admin_delete
  <2> HIDE DEF unwatch, prune, drop
  <2>3. Statements("admin_delete") = Statement
    BY DEF Statements
  <2>4. admin_delete \in Seq(Statements("admin_delete"))
    BY <2>1, <2>2, <2>3
  <2>5. "admin_delete" \in Handler /\ "admin_delete" \notin Services
    BY DEF Handler, Services
  <2>. QED
    BY <1>7, <2>4, <2>5, Begun
<1>8. CASE begin(p, "run_task_alerts", run_task_alerts)
  <2> DEFINE tell_ == Tell("alert", User)
  <2>1. tell_ \in JobStatement
    BY Phrases DEF Kind
  <2>2. run_task_alerts = <<tell_>>
    BY DEF run_task_alerts
  <2> HIDE DEF tell_
  <2>3. "run_task_alerts" \in Handler /\ "run_task_alerts" \notin Services
        /\ Statements("run_task_alerts") = JobStatement
    BY StatementsAre DEF Handler, Services
  <2>4. run_task_alerts \in Seq(Statements("run_task_alerts"))
    BY <2>1, <2>2, <2>3
  <2>. QED
    BY <1>8, <2>3, <2>4, Begun
<1>. QED
  BY <1>3, <1>4, <1>5, <1>6, <1>7, <1>8 DEF receive

-----------------------------------------------------------------------------
LEMMA InitInv == ASSUME Init PROVE IInv
<1>1. PICK us \in SUBSET User, vs \in SUBSET User :
          table = {TaskRow} \cup Watchers(us) \cup Notices({"alert"}, vs)
  BY DEF Init
<1>2. table \subseteq Key
  BY <1>1 DEF Key, Child, Watchers, NoticeKey, Notices, Kind
<1>3. \A p \in Process : todo[p] = <<>> /\ handler[p] = "idle"
  BY DEF Init
<1>4. todo \in [Process -> Seq(Statement)]
  <2>1. <<>> \in Seq(Statement)
    OBVIOUS
  <2>. QED
    BY <2>1 DEF Init
<1>5. Typed
  BY <1>2, <1>4 DEF Init, Typed
<1>6. DeleterInv
  BY DEF Init, DeleterInv
<1>7. ASSUME NEW p \in Process PROVE ProcessInv(p)
  <2>1. owned(p) = {}
    BY NobodyIsNoProcess DEF Init, owned
  <2>2. Len(<<>>) = 0
    OBVIOUS
  <2>. QED
    BY <1>3, <2>1, <2>2 DEF ProcessInv, Services
<1>. QED
  BY <1>5, <1>6, <1>7 DEF IInv

LEMMA StepInv == ASSUME IInv, NEW p \in Process, step(p) PROVE IInv'
BY SaveInv, InsertTaskInv, SaveColumnInv, DeleteTaskInv, SetWatchersInv, AddInv,
   DeleteInv, RemoveInv, ReadWatchersInv, TellInv, InsertInv, GetAgainInv,
   MailInv, CommitInv
   DEF step

LEMMA NextInv == ASSUME IInv, [Next]_vars PROVE IInv'
<1>1. CASE \E p \in Process : receive(p) \/ step(p) \/ kill(p)
  BY <1>1, ReceiveInv, StepInv, AbortInv DEF kill
<1>2. CASE break_deadlock
  BY <1>2, AbortInv DEF break_deadlock
<1>3. CASE UNCHANGED vars
  <2>1. UNCHANGED <<table, now, owner, handler, todo, dead, made, mailed>>
    BY <1>3 DEF vars, rows
  <2>2. Typed' /\ DeleterInv'
    BY <2>1 DEF IInv, Typed, DeleterInv
  <2>3. ASSUME NEW p \in Process PROVE ProcessInv(p)'
    <3>1. owned(p)' = owned(p)
      BY <2>1 DEF owned
    <3>. QED
      BY <2>1, <3>1, OthersKeep DEF IInv
  <2>. QED
    BY <2>2, <2>3 DEF IInv
<1>. QED
  BY <1>1, <1>2, <1>3 DEF Next

(* The inductive invariant holds in every reachable state.                 *)
THEOREM Invariance == Spec => []IInv
<1>. QED
  BY InitInv, NextInv, PTL DEF Spec

(* The variables of the requests and of the rows hold what TypeOK says,    *)
(* for any users and any number of processes.                              *)
THEOREM TypeCorrect == Spec => []TypeOK
<1>1. ASSUME IInv PROVE TypeOK
  <2>1. Typed
    BY <1>1 DEF IInv
  <2>2. ASSUME NEW p \in Process, NEW i \in 1 .. Len(todo[p])
        PROVE  todo[p][i] \in Op \X SUBSET Key
    <3>1. todo[p] \in Seq(Statement)
      BY <2>1 DEF Typed
    <3>2. todo[p][i] \in Statement
      BY <3>1
    <3>. QED
      BY <3>2, Apart
  <2>. QED
    BY <2>1, <2>2 DEF Typed, TypeOK
<1>. QED
  BY <1>1, Invariance, PTL

-----------------------------------------------------------------------------
(* What a process that is not the Admin's may wait for.                    *)
LEMMA Wants ==
    ASSUME Typed, NEW p \in Process, ProcessInv(p), Running(p),
           handler[p] \notin Admins, NEW k \in wanted(p)
    PROVE  \/ k \in Watchers(User) /\ handler[p] = "update_task_fields"
           \/ k = TaskRow /\ owner[TaskRow] # p /\ op(p) # "commit"
           \/ k = TaskRow /\ TaskRow \in table \ now
           \/ /\ k \in NoticeKey /\ op(p) # "commit"
              /\ \/ handler[p] = "run_task_alerts"
                 \/ handler[p] \in Services /\ owner[TaskRow] = p
<1> DEFINE s == Head(todo[p])
<1>1. /\ s \in Statement /\ s[1] = op(p) /\ s[2] = keys(p)
      /\ s \in Statements(handler[p]) /\ handler[p] \in Handler
  BY HeadOf
<1>2. op(p) # "delete_task"
  <2>1. s \in WatcherStatement \cup TaskStatement \cup NoticeStatement
    BY <1>1, StatementsAre DEF Admins
  <2>. QED
    BY <1>1, <2>1 DEF WatcherStatement, TaskStatement, NoticeStatement, JobStatement
<1>3. CASE op(p) \in {"save", "insert_task", "save_column"}
  <2>1. s \in TaskStatement /\ keys(p) = {TaskRow}
    BY <1>1, <1>3, KeysOf
  <2>2. owner[TaskRow] # p
    BY <2>1, HeadSaves
  <2>3. k = TaskRow
    BY <1>3, <2>1, FirstOfOne DEF wanted
  <2>. QED
    BY <1>3, <2>2, <2>3
<1>4. CASE op(p) = "commit"
  BY <1>4 DEF wanted
<1>5. CASE op(p) \in {"add", "remove", "insert"}
  <2>1. \/ s \in WatcherStatement /\ keys(p) \in Filled(Watchers(User))
        \/ s \in NoticeStatement /\ keys(p) \in Filled(NoticeKey)
    BY <1>1, <1>5, KeysOf
  <2>2. keys(p) \in SUBSET Key /\ keys(p) # {}
    BY <2>1, Parts DEF Filled
  <2>3. k \in keys(p)
    <3>1. first(keys(p)) \in keys(p)
      BY <2>2, FirstIn
    <3>. QED
      BY <1>5, <3>1 DEF wanted
  <2>4. CASE s \in WatcherStatement /\ keys(p) \in Filled(Watchers(User))
    BY <2>3, <2>4, HeadWatches DEF Filled
  <2>5. CASE s \in NoticeStatement /\ keys(p) \in Filled(NoticeKey)
    BY <1>5, <2>3, <2>5, HeadNotifies DEF Filled
  <2>. QED
    BY <2>1, <2>4, <2>5
<1>6. op(p) \in {"save", "insert_task", "save_column", "commit", "add", "remove", "insert"}
  BY <1>2 DEF wanted
<1>. QED
  BY <1>3, <1>4, <1>5, <1>6

(* Without the Django Admin, and with one request at a time that writes    *)
(* the list of watchers, requests and runs of the job never deadlock: all  *)
(* take the watchers' rows before the task's and that before the notices'. *)
THEOREM DeadlocksAlwaysExplained == Spec => []DeadlocksExplained
<1>1. ASSUME IInv PROVE DeadlocksExplained
  <2> SUFFICES ASSUME NEW S \in SUBSET Process, Deadlocked(S),
                      ~ \E p \in S : handler[p] \in {"admin_change", "admin_delete"},
                      ~ \E p, q \in S :
                            /\ p # q
                            /\ handler[p] = "update_task_fields"
                            /\ handler[q] = "update_task_fields"
               PROVE  FALSE
    BY DEF DeadlocksExplained
  <2>1. Typed /\ \A p \in S : ProcessInv(p) /\ handler[p] \notin Admins
    BY <1>1 DEF IInv, Admins
  <2>2. \A p \in S : Running(p) /\ \E q \in S, k \in wanted(p) : p # q /\ owner[k] = q
    BY DEF Deadlocked, WaitsFor
  <2>3. TaskRow \in Key /\ Watchers(User) \subseteq Key /\ NoticeKey \subseteq Key
        /\ TaskRow \notin NoticeKey
        /\ Watchers(User) \cap NoticeKey = {} /\ TaskRow \notin Watchers(User)
    BY Parts
  <2>4. ~ (TaskRow \in table \ now /\ owner[TaskRow] \in S)
    BY <1>1 DEF IInv, DeleterInv
  <2>5. ASSUME NEW p \in S
        PROVE  \/ owner[TaskRow] # p /\ owner[TaskRow] \in S /\ op(p) # "commit"
               \/ op(p) # "commit" /\ \E k \in NoticeKey : owner[k] \in S /\ owner[k] # p
    <3>1. PICK q \in S, k \in wanted(p) : p # q /\ owner[k] = q
      BY <2>2
    <3>2. ~ (k \in Watchers(User) /\ handler[p] = "update_task_fields")
      <4> SUFFICES ASSUME k \in Watchers(User), handler[p] = "update_task_fields"
                   PROVE  FALSE
        OBVIOUS
      <4>1. k \in owned(q)
        BY <2>3, <3>1 DEF owned
      <4>2. handler[q] \in WatcherWriters
        BY <2>1, <4>1 DEF ProcessInv
      <4>. QED
        BY <2>1, <3>1, <4>2 DEF WatcherWriters
    <3>3. \/ k = TaskRow /\ owner[TaskRow] # p /\ op(p) # "commit"
          \/ k = TaskRow /\ TaskRow \in table \ now
          \/ k \in NoticeKey /\ op(p) # "commit"
      BY <2>1, <2>2, <3>2, Wants
    <3>. QED
      BY <2>4, <3>1, <3>3
  \* Whoever owns a notice owns the task.
  <2>6. ASSUME NEW r \in S, NEW k \in NoticeKey, owner[k] = r
        PROVE  owner[TaskRow] = r
    <3>1. k \in owned(r)
      BY <2>3, <2>6 DEF owned
    <3>2. handler[r] \in Services \cup {"run_task_alerts"}
      BY <2>1, <3>1 DEF ProcessInv, Typed, Handler, Services, Admins
    <3>3. handler[r] # "run_task_alerts"
      BY <2>1, <2>5, <3>1 DEF ProcessInv, JobInv
    <3>. QED
      BY <2>1, <2>2, <2>3, <3>1, <3>2, <3>3 DEF ProcessInv, ServiceInv
  \* And nobody else's row is left for it to wait for.
  <2>7. ASSUME NEW q \in S, owner[TaskRow] = q PROVE FALSE
    BY <2>5, <2>6, <2>7
  <2>8. PICK p \in S : TRUE
    BY DEF Deadlocked
  <2>. QED
    BY <2>5, <2>6, <2>7, <2>8
<1>. QED
  BY <1>1, Invariance, PTL

-----------------------------------------------------------------------------
(* What a step does to the process that takes it.  The statements of a     *)
(* process are those that it had, and those that follow from its first.    *)
Agenda(s) == {s[i] : i \in 1 .. Len(s)}

Stmt == Op \X SUBSET Key

Follows(p, s) ==
    \/ s[1] = "insert_task" /\ op(p) = "save"
    \/ s[1] = "add" /\ op(p) \in {"set_watchers", "add"}
    \/ s[1] = "tell" /\ op(p) \in {"read_watchers", "tell"}
    \/ s[1] = "insert" /\ op(p) = "tell" /\ \E k \in keys(p) : s[2] = {k}
    \/ s[1] = "get_again" /\ op(p) = "insert" /\ s[2] = {first(keys(p))}
    \/ /\ s[1] = "remove"
       /\ \/ op(p) \in {"delete", "remove"} /\ s[2] \subseteq keys(p)
          \/ op(p) = "set_watchers" /\ s[2] \subseteq Watchers(User)
    \/ /\ s[1] = "mail" /\ op(p) = "insert"
       /\ first(keys(p)) \notin seen(p) /\ s[2] = {first(keys(p))}
    \/ s[1] = "commit" /\ op(p) = "insert" /\ Job(p)

\* Nothing but commits comes after the deletion of the task.
DropsLast(s) ==
    \A i \in 1 .. Len(s) : s[i][1] = "delete_task" =>
        \A j \in i + 1 .. Len(s) : s[j][1] = "commit"

Fits(p, s) ==
    /\ s \in Seq(Stmt)
    /\ Agenda(rest(p)) \subseteq Agenda(s)
    /\ \A x \in Agenda(s) : x \in Agenda(rest(p)) \/ Follows(p, x)
    /\ DropsLast(todo[p]) => DropsLast(s)
    /\ (~ Job(p) /\ CommitsLast(todo[p])) => CommitsLast(s)

\* After the INSERT of k comes its commit, in the job, and its mail.
Posts(p, k) ==
    /\ Job(p) =>
           /\ todo'[p] # <<>> /\ Head(todo'[p]) = Commit
           /\ k[2] \in Reachable =>
                  Len(todo'[p]) >= 2 /\ todo'[p][2] = <<"mail", {k}>>
    /\ (~ Job(p) /\ k[2] \in Reachable) =>
           todo'[p] # <<>> /\ Head(todo'[p]) = <<"mail", {k}>>

Grabs(p, k, there) ==
    /\ k \in keys(p) /\ k \in Key /\ owner[k] \in {p, Nobody}
    /\ take(p, k, there)
    /\ there => op(p) \in {"save", "insert_task", "save_column", "add", "insert"}
    /\ ~ there => op(p) \in {"delete_task", "remove"}
    /\ op(p) = "insert" => k = first(keys(p)) /\ k \notin seen(p) /\ Posts(p, k)

\* The notices that it is going to see to.
PendingIn(s) ==
    UNION {x[2] : x \in {y \in Agenda(s) : y[1] \in {"tell", "insert", "get_again"}}}

Pending(p) == PendingIn(todo[p])

Progress(p) ==
    /\ op(p) \in {"save", "insert_task", "save_column"} =>
           \/ owner'[TaskRow] = p
           \/ todo'[p] # <<>> /\ Head(todo'[p])[1] = "insert_task"
    /\ (op(p) = "delete_task" /\ TaskRow \in seen(p)) => owner'[TaskRow] = p
    /\ op(p) = "get_again" => keys(p) \subseteq seen(p)
    /\ op(p) = "tell" => keys(p) \subseteq seen(p) \cup PendingIn(todo'[p])
    /\ op(p) = "read_watchers" =>
           \A u \in User : <<"watcher", u>> \in seen(p) =>
               <<"status_changed", u>> \in PendingIn(todo'[p])

Works(p) ==
    /\ Running(p) /\ op(p) # "commit"
    /\ UNCHANGED <<table, dead, handler, made>>
    /\ mailed' = IF op(p) = "mail"
                 THEN [mailed EXCEPT ![p] = @ \cup keys(p)] ELSE mailed
    /\ \E s : Fits(p, s) /\ todo' = [todo EXCEPT ![p] = s]
    /\ Progress(p)
    /\ \/ /\ UNCHANGED <<owner, now>>
          /\ op(p) = "insert" => first(keys(p)) \in seen(p)
       \/ \E k \in keys(p), there \in BOOLEAN : Grabs(p, k, there)

LEMMA PutAgenda ==
    ASSUME NEW a \in Stmt, NEW s \in Seq(Stmt)
    PROVE  /\ <<a>> \o s \in Seq(Stmt)
           /\ Agenda(<<a>> \o s) = {a} \cup Agenda(s)
           /\ (a[1] # "commit" /\ CommitsLast(s)) => CommitsLast(<<a>> \o s)
           /\ (a[1] # "delete_task" /\ DropsLast(s)) => DropsLast(<<a>> \o s)
<1> DEFINE t == <<a>> \o s
<1>1. /\ t \in Seq(Stmt) /\ Len(t) = Len(s) + 1 /\ t[1] = a
      /\ \A i \in 1 .. Len(s) : t[i + 1] = s[i]
  OBVIOUS
<1>2. \A i \in 2 .. Len(s) + 1 : t[i] = s[i - 1]
  OBVIOUS
<1>3. Len(s) \in Nat
  OBVIOUS
<1> HIDE DEF t
<1>4. Agenda(t) \subseteq {a} \cup Agenda(s)
  <2> SUFFICES ASSUME NEW i \in 1 .. Len(t) PROVE t[i] \in {a} \cup Agenda(s)
    BY DEF Agenda
  <2>1. CASE i = 1
    BY <1>1, <2>1
  <2>2. CASE i # 1
    <3>1. i \in 2 .. Len(s) + 1 /\ i - 1 \in 1 .. Len(s)
      BY <1>1, <1>3, <2>2
    <3>. QED
      BY <1>2, <3>1 DEF Agenda
  <2>. QED
    BY <2>1, <2>2
<1>5. {a} \cup Agenda(s) \subseteq Agenda(t)
  <2>1. 1 \in 1 .. Len(t) /\ \A i \in 1 .. Len(s) : i + 1 \in 1 .. Len(t)
    BY <1>1, <1>3
  <2>. QED
    BY <1>1, <2>1 DEF Agenda
<1>6. ASSUME a[1] # "commit", CommitsLast(s) PROVE CommitsLast(t)
  <2> SUFFICES ASSUME NEW i \in 1 .. Len(t) - 1 PROVE t[i][1] # "commit"
    BY DEF CommitsLast
  <2>1. CASE i = 1
    BY <1>1, <1>6, <2>1
  <2>2. CASE i # 1
    <3>1. i \in 2 .. Len(s) + 1 /\ i - 1 \in 1 .. Len(s) - 1
      BY <1>1, <1>3, <2>2
    <3>. QED
      BY <1>2, <1>6, <3>1 DEF CommitsLast
  <2>. QED
    BY <2>1, <2>2
<1>7. ASSUME a[1] # "delete_task", DropsLast(s) PROVE DropsLast(t)
  <2> SUFFICES ASSUME NEW i \in 1 .. Len(t), t[i][1] = "delete_task",
                      NEW j \in i + 1 .. Len(t)
               PROVE  t[j][1] = "commit"
    BY DEF DropsLast
  <2>1. i # 1
    BY <1>1, <1>7
  <2>2. /\ i \in 2 .. Len(s) + 1 /\ j \in 2 .. Len(s) + 1
        /\ i - 1 \in 1 .. Len(s) /\ j - 1 \in (i - 1) + 1 .. Len(s)
    BY <1>1, <1>3, <2>1
  <2>. QED
    BY <1>2, <1>7, <2>2 DEF DropsLast
<1>. QED
  BY <1>1, <1>4, <1>5, <1>6, <1>7 DEF t

LEMMA PutTwo ==
    ASSUME NEW a \in Stmt, NEW b \in Stmt, NEW s \in Seq(Stmt)
    PROVE  /\ Len(<<a>> \o (<<b>> \o s)) >= 2
           /\ (<<a>> \o (<<b>> \o s))[2] = b
<1> DEFINE t == <<b>> \o s
<1>1. t \in Seq(Stmt) /\ Len(t) >= 1 /\ t[1] = b
  OBVIOUS
<1> HIDE DEF t
<1>2. Len(<<a>> \o t) >= 2 /\ (<<a>> \o t)[2] = t[1]
  BY <1>1
<1>. QED
  BY <1>1, <1>2 DEF t

LEMMA SecondOf ==
    ASSUME NEW S, NEW s \in Seq(S), Len(s) >= 2
    PROVE  Tail(s) # <<>> /\ Head(Tail(s)) = s[2]
<1>1. Len(Tail(s)) >= 1 /\ Tail(s) \in Seq(S) /\ Tail(s)[1] = s[2]
  OBVIOUS
<1>. QED
  BY <1>1

LEMMA TailOfOne ==
    ASSUME NEW S, NEW s \in Seq(S), Len(s) = 1
    PROVE  Tail(s) = <<>>
<1>1. Tail(s) \in Seq(S) /\ Len(Tail(s)) = 0
  OBVIOUS
<1>. QED
  BY <1>1, EmptySeq

LEMMA TailAgenda ==
    ASSUME NEW s \in Seq(Stmt), s # <<>>
    PROVE  /\ Tail(s) \in Seq(Stmt)
           /\ Head(s) \in Agenda(s)
           /\ Agenda(s) = {Head(s)} \cup Agenda(Tail(s))
           /\ CommitsLast(s) => CommitsLast(Tail(s))
           /\ DropsLast(s) => DropsLast(Tail(s))
           /\ (DropsLast(s) /\ Head(s)[1] = "delete_task") =>
                  \A x \in Agenda(Tail(s)) : x[1] = "commit"
<1> DEFINE t == Tail(s)
<1>1. /\ t \in Seq(Stmt) /\ Len(t) = Len(s) - 1 /\ Len(s) \in Nat \ {0}
      /\ \A i \in 1 .. Len(t) : t[i] = s[i + 1]
      /\ Head(s) = s[1]
  OBVIOUS
<1> HIDE DEF t
<1>2. \A i \in 1 .. Len(t) : i + 1 \in 1 .. Len(s)
  BY <1>1
<1>3. \A i \in 1 .. Len(t) - 1 : i \in 1 .. Len(t) /\ i + 1 \in 1 .. Len(s) - 1
  BY <1>1
<1>4. 1 \in 1 .. Len(s)
  BY <1>1
<1>5. {Head(s)} \cup Agenda(t) \subseteq Agenda(s)
  BY <1>1, <1>2, <1>4 DEF Agenda
<1>7. Agenda(s) \subseteq {Head(s)} \cup Agenda(t)
  <2> SUFFICES ASSUME NEW i \in 1 .. Len(s), i # 1 PROVE s[i] \in Agenda(t)
    BY <1>1 DEF Agenda
  <2>1. i - 1 \in 1 .. Len(t) /\ s[i] = t[i - 1]
    BY <1>1
  <2>. QED
    BY <2>1 DEF Agenda
<1>8. ASSUME DropsLast(s) PROVE DropsLast(t)
  <2> SUFFICES ASSUME NEW i \in 1 .. Len(t), t[i][1] = "delete_task",
                      NEW j \in i + 1 .. Len(t)
               PROVE  t[j][1] = "commit"
    BY DEF DropsLast
  <2>1. /\ i + 1 \in 1 .. Len(s) /\ j + 1 \in (i + 1) + 1 .. Len(s)
        /\ j \in 1 .. Len(t)
    BY <1>1
  <2>. QED
    BY <1>1, <1>8, <2>1 DEF DropsLast
<1>9. ASSUME DropsLast(s), Head(s)[1] = "delete_task", NEW x \in Agenda(t)
      PROVE  x[1] = "commit"
  <2>1. PICK i \in 1 .. Len(t) : x = t[i]
    BY DEF Agenda
  <2>2. i + 1 \in 1 + 1 .. Len(s)
    BY <1>1
  <2>. QED
    BY <1>1, <1>4, <1>9, <2>1, <2>2 DEF DropsLast
<1>6. CommitsLast(s) => CommitsLast(t)
  BY <1>1, <1>3 DEF CommitsLast
<1>. QED
  BY <1>1, <1>5, <1>6, <1>7, <1>8, <1>9 DEF t

LEMMA NoneOrOne ==
    ASSUME NEW a
    PROVE  /\ Agenda(<<>>) = {} /\ CommitsLast(<<>>)
           /\ Agenda(<<a>>) = {a} /\ CommitsLast(<<a>>)
<1>1. Len(<<>>) = 0
  OBVIOUS
<1>. QED
  BY <1>1 DEF Agenda, CommitsLast

LEMMA Two ==
    ASSUME NEW a, NEW b, a[1] # "commit"
    PROVE  Agenda(<<a, b>>) = {a, b} /\ CommitsLast(<<a, b>>)
BY DEF Agenda, CommitsLast

LEMMA Three ==
    ASSUME NEW a, NEW b, NEW c, a[1] # "commit", b[1] # "commit"
    PROVE  Agenda(<<a, b, c>>) = {a, b, c} /\ CommitsLast(<<a, b, c>>)
<1>1. Agenda(<<a, b, c>>) = {a, b, c}
  BY DEF Agenda
<1>. QED
  BY <1>1 DEF CommitsLast

LEMMA Four ==
    ASSUME NEW a, NEW b, NEW c, NEW d,
           a[1] # "commit", b[1] # "commit", c[1] # "commit"
    PROVE  Agenda(<<a, b, c, d>>) = {a, b, c, d} /\ CommitsLast(<<a, b, c, d>>)
<1>1. Agenda(<<a, b, c, d>>) = {a, b, c, d}
  BY DEF Agenda
<1>. QED
  BY <1>1 DEF CommitsLast

LEMMA FitsRest ==
    ASSUME IInv, NEW p \in Process, Running(p)
    PROVE  /\ todo[p] \in Seq(Stmt) /\ Fits(p, rest(p))
           /\ Head(todo[p]) \in Agenda(todo[p])
<1>1. todo[p] \in Seq(Statement) /\ todo[p] # <<>>
  BY DEF IInv, Typed, Running
<1>2. Statement \subseteq Stmt
  BY Apart DEF Stmt
<1>3. todo[p] \in Seq(Stmt)
  BY <1>1, <1>2
<1>. QED
  BY <1>1, <1>3, TailAgenda DEF Fits, rest

LEMMA FitsPut ==
    ASSUME NEW p, NEW s, Fits(p, s), NEW a \in Stmt, Follows(p, a),
           a[1] = "commit" => Job(p)
    PROVE  Fits(p, <<a>> \o s) /\ a \in Agenda(<<a>> \o s)
           /\ Agenda(s) \subseteq Agenda(<<a>> \o s)
<1>1. a[1] # "delete_task"
  BY DEF Follows
<1>. QED
  BY <1>1, PutAgenda DEF Fits

LEMMA FitsMore ==
    ASSUME NEW p, NEW s, Fits(p, s), NEW o \in Op \ {"commit"},
           NEW K \in SUBSET Key, K # {} => Follows(p, <<o, K>>)
    PROVE  /\ Fits(p, more(o, K, s))
           /\ K # {} => <<o, K>> \in Agenda(more(o, K, s))
<1>1. CASE K = {}
  BY <1>1 DEF more
<1>2. CASE K # {}
  <2> DEFINE a == <<o, K>>
  <2>1. a \in Stmt /\ a[1] # "commit" /\ Follows(p, a)
    BY <1>2 DEF Stmt
  <2>2. more(o, K, s) = <<a>> \o s
    BY <1>2 DEF more
  <2> HIDE DEF a
  <2>3. Fits(p, more(o, K, s)) /\ a \in Agenda(more(o, K, s))
    BY <2>1, <2>2, FitsPut
  <2>. QED
    BY <2>3 DEF a
<1>. QED
  BY <1>1, <1>2

-----------------------------------------------------------------------------
(* A step works through a statement, commits or gives up.                  *)
Commits(p) ==
    /\ Running(p) /\ op(p) = "commit" /\ dangling(p) = {}
    /\ table' = seen(p)
    /\ made' = [made EXCEPT ![p] = @ \cup (newChildren(p) \cap NoticeKey)]
    /\ release(p)
    /\ todo' = [todo EXCEPT ![p] = rest(p)]
    /\ UNCHANGED <<now, dead, handler, mailed>>

LEMMA TaskWorks ==
    ASSUME IInv, NEW p \in Process,
           save(p) \/ insert_task(p) \/ save_column(p) \/ delete_task(p)
    PROVE  Works(p) \/ abort(p)
<1>1. /\ op(p) \in {"save", "insert_task", "save_column", "delete_task"}
      /\ executes(p, op(p))
  BY DEF save, insert_task, save_column, delete_task, executes
<1>2. /\ Typed /\ Running(p) /\ Fits(p, rest(p)) /\ keys(p) = {TaskRow}
      /\ Head(todo[p])[1] = op(p)
  BY <1>1, Executing, FitsRest, KeysOf
<1>3. TaskRow \in Key
  BY Parts
<1>4. (TaskRow \in seen(p) \/ op(p) = "insert_task") => owner[TaskRow] \in {p, Nobody}
  <2>1. (TaskRow \in seen(p) \/ op(p) = "insert_task") => TaskRow \in wanted(p)
    BY <1>1, <1>2, FirstOfOne DEF wanted
  <2>. QED
    BY <1>1, <1>2, <1>3, <2>1, Free
<1>5. op(p) \notin {"mail", "insert", "commit", "remove"}
  BY <1>1
<1> DEFINE a == <<"insert_task", {TaskRow}>>
           fallback == <<a>> \o rest(p)
<1>6. \A there \in BOOLEAN : take(p, TaskRow, there) => owner'[TaskRow] = p
  BY <1>2, <1>3 DEF take, Typed
<1>7. ASSUME ~ abort(p)
      PROVE  /\ UNCHANGED <<table, handler, dead, made, mailed>>
             /\ \/ UNCHANGED <<owner, now>>
                \/ Grabs(p, TaskRow, op(p) # "delete_task")
             /\ next(p, rest(p)) \/ (next(p, fallback) /\ op(p) = "save")
             /\ op(p) \in {"save", "insert_task", "save_column"} =>
                    owner'[TaskRow] = p \/ (next(p, fallback) /\ op(p) = "save")
             /\ (op(p) = "delete_task" /\ TaskRow \in seen(p)) => owner'[TaskRow] = p
  <2> HIDE DEF fallback
  <2>1. CASE save(p)
    <3>1. op(p) = "save" /\ (next(p, fallback) <=> next(p, <<a>> \o rest(p)))
      BY <2>1 DEF save, executes, fallback
    <3>. QED
      BY <1>2, <1>3, <1>4, <1>6, <2>1, <3>1 DEF save, Grabs
  <2>2. CASE insert_task(p)
    <3>1. op(p) = "insert_task"
      BY <2>2 DEF insert_task, executes
    <3>. QED
      BY <1>2, <1>3, <1>4, <1>6, <1>7, <2>2, <3>1 DEF insert_task, Grabs
  <2>3. CASE save_column(p)
    <3>1. op(p) = "save_column"
      BY <2>3 DEF save_column, executes
    <3>. QED
      BY <1>2, <1>3, <1>4, <1>6, <1>7, <2>3, <3>1 DEF save_column, Grabs
  <2>4. CASE delete_task(p)
    <3>1. op(p) = "delete_task"
      BY <2>4 DEF delete_task, executes
    <3>. QED
      BY <1>2, <1>3, <1>4, <1>6, <2>4, <3>1 DEF delete_task, Grabs
  <2>. QED
    BY <2>1, <2>2, <2>3, <2>4
<1>8. a \in Stmt /\ a[1] = "insert_task"
  BY <1>3 DEF Stmt, Op
<1> HIDE DEF a
<1>9. op(p) = "save" => Fits(p, fallback)
  BY <1>2, <1>8, FitsPut DEF Follows
<1>10. fallback # <<>> /\ Head(fallback) = a
  BY <1>2, <1>8 DEF Fits
<1> HIDE DEF fallback
<1>11. \A s : next(p, s) => todo'[p] = s
  BY <1>2 DEF next, Typed
<1>12. ~ abort(p) => Progress(p)
  BY <1>1, <1>7, <1>8, <1>10, <1>11 DEF Progress
<1>. QED
  BY <1>2, <1>5, <1>7, <1>9, <1>12 DEF Works, next

LEMMA NoProgress ==
    ASSUME NEW p \in Process,
           op(p) \in {"set_watchers", "add", "delete", "remove", "insert", "mail"}
    PROVE  Progress(p)
BY DEF Progress

LEMMA WatchWorks ==
    ASSUME IInv, NEW p \in Process,
           set_watchers(p) \/ add(p) \/ delete(p) \/ remove(p)
    PROVE  Works(p)
<1>1. /\ op(p) \in {"set_watchers", "add", "delete", "remove"}
      /\ executes(p, op(p))
  BY DEF set_watchers, add, delete, remove, executes
<1>2. /\ Typed /\ Running(p) /\ Fits(p, rest(p))
      /\ Head(todo[p]) \in Statement /\ Head(todo[p])[1] = op(p)
      /\ Head(todo[p])[2] = keys(p)
  BY <1>1, Executing, FitsRest
<1>3. keys(p) \in SUBSET Key
  BY <1>2, Apart
<1>4. op(p) \in {"add", "remove"} => keys(p) # {}
  BY <1>2, KeysOf DEF Filled
<1> DEFINE k == first(keys(p))
<1>5. op(p) \in {"add", "remove"} => k \in keys(p) /\ k \in Key
  BY <1>3, <1>4, FirstIn
<1>6. op(p) = "remove" /\ k \in seen(p) => k \in wanted(p)
  BY <1>2 DEF wanted
<1>7. op(p) = "add" => k \in wanted(p)
  BY <1>2 DEF wanted
<1> HIDE DEF k
<1>8. (op(p) = "add" \/ (op(p) = "remove" /\ k \in seen(p))) => owner[k] \in {p, Nobody}
  BY <1>1, <1>2, <1>5, <1>6, <1>7, Free
<1>9. op(p) \notin {"mail", "insert", "commit", "delete_task"}
  BY <1>1
<1>10. UNCHANGED <<table, handler, dead, made, mailed>>
  BY DEF set_watchers, add, delete, remove, rows
<1>11. UNCHANGED <<owner, now>> \/ Grabs(p, k, op(p) # "remove")
  <2>1. CASE set_watchers(p) \/ delete(p)
    BY <2>1 DEF set_watchers, delete, rows
  <2>2. CASE add(p)
    <3>1. op(p) = "add"
      BY <2>2 DEF add, executes
    <3>. QED
      BY <1>5, <1>8, <2>2, <3>1 DEF add, Grabs, k
  <2>3. CASE remove(p)
    <3>1. op(p) = "remove"
      BY <2>3 DEF remove, executes
    <3>. QED
      BY <1>5, <1>8, <2>3, <3>1 DEF remove, Grabs, k
  <2>. QED
    BY <2>1, <2>2, <2>3
<1>12. \E s : Fits(p, s) /\ next(p, s)
  <2>1. CASE set_watchers(p)
    <3> DEFINE old == seen(p) \cap Watchers(User)
               adds == more("add", keys(p) \ old, rest(p))
    <3>1. /\ next(p, more("remove", old \ keys(p), adds))
          /\ op(p) = "set_watchers"
      BY <2>1 DEF set_watchers, executes
    <3>2. Fits(p, adds)
      <4> DEFINE K == keys(p) \ old
      <4>1. K \in SUBSET Key /\ Follows(p, <<"add", K>>)
        BY <1>3, <3>1 DEF Follows
      <4> HIDE DEF K
      <4>2. Fits(p, more("add", K, rest(p)))
        BY <1>2, <4>1, FitsMore DEF Op
      <4>. QED
        BY <4>2 DEF K
    <3>3. old \ keys(p) \in SUBSET Key /\ Follows(p, <<"remove", old \ keys(p)>>)
      BY <3>1, Parts DEF Follows
    <3> HIDE DEF adds, old
    <3>4. Fits(p, more("remove", old \ keys(p), adds))
      <4> DEFINE K == old \ keys(p)
      <4>1. K \in SUBSET Key /\ Follows(p, <<"remove", K>>)
        BY <3>3
      <4> HIDE DEF K
      <4>2. Fits(p, more("remove", K, adds))
        BY <3>2, <4>1, FitsMore DEF Op
      <4>. QED
        BY <4>2 DEF K
    <3>. QED
      BY <3>1, <3>4
  <2>2. CASE add(p)
    <3> DEFINE K == keys(p) \ {k}
    <3>1. K \in SUBSET Key /\ Follows(p, <<"add", K>>)
      BY <1>3, <2>2 DEF Follows, add, executes
    <3>2. next(p, more("add", K, rest(p)))
      BY <2>2 DEF add, k
    <3> HIDE DEF K
    <3>3. Fits(p, more("add", K, rest(p)))
      BY <1>2, <3>1, FitsMore DEF Op
    <3>. QED
      BY <3>2, <3>3
  <2>3. CASE delete(p)
    <3> DEFINE K == keys(p) \cap seen(p)
    <3>1. op(p) = "delete"
      BY <2>3 DEF delete, executes
    <3>2. K \in SUBSET Key /\ Follows(p, <<"remove", K>>)
      BY <1>3, <3>1 DEF Follows
    <3>3. next(p, more("remove", K, rest(p)))
      BY <2>3 DEF delete
    <3> HIDE DEF K
    <3>4. Fits(p, more("remove", K, rest(p)))
      BY <1>2, <3>2, FitsMore DEF Op
    <3>. QED
      BY <3>3, <3>4
  <2>4. CASE remove(p)
    <3> DEFINE K == keys(p) \ {k}
    <3>1. op(p) = "remove"
      BY <2>4 DEF remove, executes
    <3>2. K \in SUBSET Key /\ Follows(p, <<"remove", K>>)
      BY <1>3, <3>1 DEF Follows
    <3>3. next(p, more("remove", K, rest(p)))
      BY <2>4 DEF remove, k
    <3> HIDE DEF K
    <3>4. Fits(p, more("remove", K, rest(p)))
      BY <1>2, <3>2, FitsMore DEF Op
    <3>. QED
      BY <3>3, <3>4
  <2>. QED
    BY <2>1, <2>2, <2>3, <2>4
<1>13. \/ UNCHANGED <<owner, now>>
       \/ \E j \in keys(p), there \in BOOLEAN : Grabs(p, j, there)
  BY <1>11 DEF Grabs
<1>14. Progress(p)
  BY <1>1, NoProgress
<1>. QED
  BY <1>2, <1>9, <1>10, <1>12, <1>13, <1>14 DEF Works, next

LEMMA NoticeWorks ==
    ASSUME IInv, NEW p \in Process,
           read_watchers(p) \/ tell(p) \/ insert(p) \/ get_again(p) \/ mail(p)
    PROVE  Works(p) \/ abort(p)
<1>1. /\ op(p) \in {"read_watchers", "tell", "insert", "get_again", "mail"}
      /\ executes(p, op(p))
  BY DEF read_watchers, tell, insert, get_again, mail, executes
<1>2. /\ Typed /\ Running(p) /\ Fits(p, rest(p))
      /\ Head(todo[p]) \in Statement /\ Head(todo[p])[1] = op(p)
      /\ Head(todo[p])[2] = keys(p)
  BY <1>1, Executing, FitsRest
<1>3. keys(p) \in SUBSET Key
  BY <1>2, Apart
<1>4. CASE read_watchers(p)
  <2> DEFINE K == {k \in Notices({"status_changed"}, User) :
                       <<"watcher", k[2]>> \in seen(p)}
  <2>1. op(p) = "read_watchers"
    BY <1>4 DEF read_watchers, executes
  <2>2. K \in SUBSET Key
    BY Parts DEF NoticeKey, Notices, Kind
  <2>3. /\ next(p, more("tell", K, rest(p)))
        /\ UNCHANGED <<table, now, owner, dead, handler, made, mailed>>
    BY <1>4 DEF read_watchers, rows
  <2>4. \A u \in User : <<"watcher", u>> \in seen(p) => <<"status_changed", u>> \in K
    BY DEF Notices
  <2> HIDE DEF K
  <2>5. Follows(p, <<"tell", K>>)
    BY <2>1 DEF Follows
  <2> DEFINE s == more("tell", K, rest(p))
  <2>6. Fits(p, s) /\ (K # {} => <<"tell", K>> \in Agenda(s))
    BY <1>2, <2>2, <2>5, FitsMore DEF Op
  <2> HIDE DEF s
  <2>7. K \subseteq PendingIn(s)
    BY <2>6 DEF PendingIn
  <2>8. todo' = [todo EXCEPT ![p] = s] /\ todo'[p] = s
    BY <1>2, <2>3 DEF s, next, Typed
  <2>9. Progress(p)
    BY <2>1, <2>4, <2>7, <2>8 DEF Progress
  <2>. QED
    BY <1>2, <2>1, <2>3, <2>6, <2>8, <2>9 DEF Works
<1>5. CASE tell(p)
  <2>1. op(p) = "tell"
    BY <1>5 DEF tell, executes
  <2>2. PICK k \in keys(p) :
            next(p, IF k \in seen(p) THEN more("tell", keys(p) \ {k}, rest(p))
                    ELSE <<<<"insert", {k}>>>> \o more("tell", keys(p) \ {k}, rest(p)))
    BY <1>5 DEF tell
  <2> DEFINE others == more("tell", keys(p) \ {k}, rest(p))
             a == <<"insert", {k}>>
  <2>3. Fits(p, others) /\ keys(p) \ {k} \subseteq PendingIn(others)
    <3> DEFINE K == keys(p) \ {k}
    <3>1. K \in SUBSET Key /\ Follows(p, <<"tell", K>>)
      BY <1>3, <2>1 DEF Follows
    <3> HIDE DEF K
    <3>2. /\ Fits(p, more("tell", K, rest(p)))
          /\ K # {} => <<"tell", K>> \in Agenda(more("tell", K, rest(p)))
      BY <1>2, <3>1, FitsMore DEF Op
    <3>3. K \subseteq PendingIn(more("tell", K, rest(p)))
      BY <3>2 DEF PendingIn
    <3>. QED
      BY <3>2, <3>3 DEF K
  <2>4. a \in Stmt /\ a[1] = "insert" /\ a[2] = {k}
    BY <1>3 DEF Stmt, Op
  <2> HIDE DEF a
  <2>5. Follows(p, a)
    BY <2>1, <2>4 DEF Follows
  <2> HIDE DEF others
  <2>6. Fits(p, <<a>> \o others) /\ keys(p) \subseteq PendingIn(<<a>> \o others)
    <3>1. /\ Fits(p, <<a>> \o others) /\ a \in Agenda(<<a>> \o others)
          /\ Agenda(others) \subseteq Agenda(<<a>> \o others)
      BY <2>3, <2>4, <2>5, FitsPut
    <3>. QED
      BY <2>3, <2>4, <3>1 DEF PendingIn
  <2>7. next(p, IF k \in seen(p) THEN others ELSE <<a>> \o others)
    BY <2>2 DEF others, a
  <2>8. UNCHANGED <<table, now, owner, dead, handler, made, mailed>>
    BY <1>5 DEF tell, rows
  <2>9. PICK s : Fits(p, s) /\ next(p, s) /\ keys(p) \subseteq seen(p) \cup PendingIn(s)
    BY <2>3, <2>6, <2>7
  <2>10. Progress(p)
    BY <1>2, <2>1, <2>9 DEF Progress, next, Typed
  <2>. QED
    BY <1>2, <2>1, <2>8, <2>9, <2>10 DEF Works, next
<1>6. CASE insert(p)
  <2> DEFINE k == first(keys(p))
             letter == <<"mail", {k}>>
             look == <<"get_again", {k}>>
             post == IF k[2] \in Reachable THEN <<letter>> ELSE <<>>
  <2>1. op(p) = "insert"
    BY <1>6 DEF insert, executes
  <2>2. keys(p) # {}
    BY <1>2, <2>1, KeysOf DEF Filled
  <2>0. Progress(p)
    BY <2>1, NoProgress
  <2>3. k \in keys(p) /\ k \in Key
    BY <1>3, <2>2, FirstIn
  <2>4. k \in wanted(p)
    BY <2>1 DEF wanted
  <2>5. IF k \in seen(p)
        THEN next(p, <<look>> \o rest(p)) /\ UNCHANGED <<owner, now>>
        ELSE /\ take(p, k, TRUE)
             /\ next(p, (IF Job(p) THEN <<Commit>> \o post ELSE post) \o rest(p))
    BY <1>6 DEF insert
  <2>6. UNCHANGED <<table, dead, handler, made, mailed>>
    BY <1>6 DEF insert
  <2>7. (Follows(p, letter) \/ k \in seen(p)) /\ Follows(p, look)
    BY <2>1 DEF Follows
  <2>8. Job(p) => Follows(p, Commit)
    BY <2>1 DEF Follows, Commit
  <2>9. letter \in Stmt /\ look \in Stmt /\ Commit \in Stmt
    BY <2>3 DEF Stmt, Op, Commit
  <2>10. letter[1] = "mail" /\ look[1] = "get_again"
    OBVIOUS
  <2> HIDE DEF k, letter, look
  <2>11. owner[k] \in {p, Nobody}
    BY <1>1, <1>2, <2>3, <2>4, Free
  <2>12. CASE k \in seen(p)
    <3>1. Fits(p, <<look>> \o rest(p))
      BY <1>2, <2>7, <2>9, <2>10, FitsPut
    <3>2. todo' = [todo EXCEPT ![p] = <<look>> \o rest(p)] /\ UNCHANGED <<owner, now>>
      BY <2>5, <2>12 DEF next
    <3>3. op(p) = "insert" => first(keys(p)) \in seen(p)
      BY <2>12 DEF k
    <3>. QED
      BY <1>2, <2>1, <2>6, <3>1, <3>2, <3>3, <2>0 DEF Works
  <2>13. CASE k \notin seen(p)
    <3>1. Fits(p, post \o rest(p)) /\ post \o rest(p) \in Seq(Stmt)
      <4>1. <<>> \o rest(p) = rest(p)
        BY <1>2 DEF Fits
      <4>2. Fits(p, <<letter>> \o rest(p))
        BY <1>2, <2>7, <2>9, <2>10, <2>13, FitsPut
      <4>. QED
        BY <1>2, <4>1, <4>2 DEF Fits
    <3>2. (<<Commit>> \o post) \o rest(p) = <<Commit>> \o (post \o rest(p))
      <4>1. <<Commit>> \in Seq(Stmt) /\ rest(p) \in Seq(Stmt) /\ post \in Seq(Stmt)
        BY <1>2, <2>9 DEF Fits
      <4> HIDE DEF post
      <4>. QED
        BY <4>1
    <3> DEFINE s == (IF Job(p) THEN <<Commit>> \o post ELSE post) \o rest(p)
    <3> HIDE DEF post
    <3>3. Job(p) => Fits(p, <<Commit>> \o (post \o rest(p)))
      BY <2>8, <2>9, <3>1, FitsPut
    <3>4. Fits(p, s)
      BY <3>1, <3>2, <3>3
    <3>5. todo' = [todo EXCEPT ![p] = s] /\ take(p, k, TRUE)
      BY <2>5, <2>13 DEF next
    <3> HIDE DEF s
    <3>6. Grabs(p, k, TRUE)
      <4>1. k = first(keys(p))
        BY DEF k
      <4>2. rest(p) \in Seq(Stmt) /\ (post = <<letter>> \/ post = <<>>)
        BY <1>2 DEF Fits, post
      <4>3. k[2] \in Reachable => post = <<letter>>
        BY DEF post
      <4>4. todo'[p] = s
        BY <1>2, <3>5 DEF Typed
      <4>5. ASSUME Job(p)
            PROVE  /\ todo'[p] # <<>> /\ Head(todo'[p]) = Commit
                   /\ k[2] \in Reachable => Len(todo'[p]) >= 2 /\ todo'[p][2] = letter
        <5>1. s = <<Commit>> \o (post \o rest(p))
          BY <3>2, <4>5 DEF s
        <5>2. s # <<>> /\ Head(s) = Commit
          BY <2>9, <3>1, <5>1
        <5>3. post = <<letter>> => Len(s) >= 2 /\ s[2] = letter
          BY <2>9, <4>2, <5>1, PutTwo
        <5>. QED
          BY <4>3, <4>4, <5>2, <5>3
      <4>6. ASSUME ~ Job(p), k[2] \in Reachable
            PROVE  todo'[p] # <<>> /\ Head(todo'[p]) = letter
        <5>1. s = <<letter>> \o rest(p)
          BY <4>3, <4>6 DEF s
        <5>2. s # <<>> /\ Head(s) = letter
          BY <2>9, <4>2, <5>1
        <5>. QED
          BY <4>4, <5>2
      <4>7. Posts(p, k)
        BY <4>5, <4>6 DEF Posts, letter
      <4>. QED
        BY <2>1, <2>3, <2>11, <2>13, <3>5, <4>1, <4>7 DEF Grabs
    <3>7. \E j \in keys(p), there \in BOOLEAN : Grabs(p, j, there)
      BY <2>3, <3>6
    <3>. QED
      BY <1>2, <2>1, <2>6, <3>4, <3>5, <3>7, <2>0 DEF Works
  <2>. QED
    BY <2>12, <2>13
<1>7. CASE get_again(p)
  <2>1. op(p) = "get_again"
    BY <1>7 DEF get_again, executes
  <2>2. \/ abort(p)
        \/ /\ next(p, rest(p)) /\ keys(p) \subseteq seen(p)
           /\ UNCHANGED <<table, now, owner, dead, handler, made, mailed>>
    BY <1>7 DEF get_again, rows
  <2>. QED
    BY <1>2, <2>1, <2>2 DEF Works, next, Progress
<1>8. CASE mail(p)
  <2>1. op(p) = "mail"
    BY <1>8 DEF mail, executes
  <2>2. Progress(p)
    BY <2>1, NoProgress
  <2>. QED
    BY <1>2, <1>8, <2>1, <2>2 DEF Works, next, mail, rows
<1>. QED
  BY <1>4, <1>5, <1>6, <1>7, <1>8

LEMMA StepWorks ==
    ASSUME IInv, NEW p \in Process, step(p)
    PROVE  Works(p) \/ Commits(p) \/ (Running(p) /\ abort(p))
<1>1. Running(p)
  BY DEF step, save, insert_task, save_column, delete_task, set_watchers, add,
         delete, remove, read_watchers, tell, insert, get_again, mail, commit,
         executes
<1>2. commit(p) => Commits(p) \/ abort(p)
  BY DEF commit, Commits, executes, next
<1>. QED
  BY <1>1, <1>2, TaskWorks, WatchWorks, NoticeWorks DEF step

(* What anybody's step leaves alone of the others.                         *)
LeavesAlone(q) ==
    /\ todo'[q] = todo[q] /\ handler'[q] = handler[q]
    /\ made'[q] = made[q] /\ mailed'[q] = mailed[q]
    /\ q \in dead' <=> q \in dead
    /\ owned(q)' = owned(q)
    /\ \A k \in owned(q) : (k \in now' <=> k \in now) /\ (k \in table' <=> k \in table)

LEMMA OthersAlone ==
    ASSUME IInv, NEW p \in Process, Works(p) \/ Commits(p) \/ abort(p),
           NEW q \in Process \ {p}
    PROVE  LeavesAlone(q)
<1>1. Typed
  BY DEF IInv
<1>2. CASE Works(p)
  <2>1. /\ todo'[q] = todo[q] /\ mailed'[q] = mailed[q]
        /\ UNCHANGED <<table, dead, handler, made>>
    BY <1>1, <1>2 DEF Works, Typed
  <2>2. CASE UNCHANGED <<owner, now>>
    BY <2>1, <2>2 DEF LeavesAlone, owned
  <2>3. CASE \E k \in keys(p), there \in BOOLEAN : Grabs(p, k, there)
    <3>1. PICK k \in keys(p), there \in BOOLEAN : Grabs(p, k, there)
      BY <2>3
    <3>2. /\ k \in Key /\ owner[k] \in {p, Nobody}
          /\ owner' = [owner EXCEPT ![k] = p]
          /\ now' = IF there THEN now \cup {k} ELSE now \ {k}
      BY <3>1 DEF Grabs, take
    <3>3. owned(q)' = owned(q) /\ k \notin owned(q)
      BY <1>1, <3>2, NobodyIsNoProcess DEF owned, Typed
    <3>. QED
      BY <2>1, <3>2, <3>3 DEF LeavesAlone
  <2>. QED
    BY <1>2, <2>2, <2>3 DEF Works
<1>3. CASE Commits(p)
  <2>1. /\ todo'[q] = todo[q] /\ made'[q] = made[q] /\ owned(q)' = owned(q)
        /\ UNCHANGED <<now, dead, handler, mailed>> /\ table' = seen(p)
    BY <1>1, <1>3, ReleasedKeys DEF Commits, Typed
  <2>2. owned(q) \cap owned(p) = {}
    BY DEF owned
  <2>. QED
    BY <2>1, <2>2 DEF LeavesAlone, seen
<1>4. CASE abort(p)
  <2>1. /\ todo'[q] = todo[q] /\ owned(q)' = owned(q)
        /\ UNCHANGED <<table, made, handler, mailed>> /\ dead' = dead \cup {p}
        /\ now' = (now \ owned(p)) \cup (table \cap owned(p))
    BY <1>1, <1>4, ReleasedKeys DEF abort, next, Typed
  <2>2. owned(q) \cap owned(p) = {}
    BY DEF owned
  <2>. QED
    BY <2>1, <2>2 DEF LeavesAlone
<1>. QED
  BY <1>2, <1>3, <1>4

LEMMA ReceivesAlone ==
    ASSUME IInv, NEW p \in Process, receive(p)
    PROVE  /\ handler[p] = "idle"
           /\ UNCHANGED <<table, now, owner, dead, made, mailed>>
           /\ \A q \in Process \ {p} : LeavesAlone(q)
           /\ \/ \E ws \in SUBSET User :
                     \/ /\ handler'[p] = "change_status"
                        /\ todo'[p] = change_status
                     \/ /\ handler'[p] = "update_task_fields"
                        /\ todo'[p] \in {update_task_fields(<<>>),
                                         update_task_fields(<<SetWatchers(ws)>>)}
                     \/ handler'[p] = "admin_change" /\ todo'[p] = admin_change(ws)
              \/ \E a \in User \X User :
                     handler'[p] = "assign_task" /\ todo'[p] = assign_task(a[1], a[2])
              \/ handler'[p] = "admin_delete" /\ todo'[p] = admin_delete
              \/ handler'[p] = "run_task_alerts" /\ todo'[p] = run_task_alerts
<1>1. Typed
  BY DEF IInv
<1>2. ASSUME NEW name, NEW program, begin(p, name, program)
      PROVE  /\ handler[p] = "idle"
             /\ UNCHANGED <<table, now, owner, dead, made, mailed>>
             /\ \A q \in Process \ {p} : LeavesAlone(q)
             /\ handler'[p] = name /\ todo'[p] = program
  BY <1>1, <1>2 DEF begin, Typed, LeavesAlone, owned, rows
<1>3. CASE begin(p, "change_status", change_status)
  BY <1>2, <1>3
<1>4. CASE \E a \in AssignInput : begin(p, "assign_task", assign_task(a[1], a[2]))
  <2>1. PICK a \in AssignInput : begin(p, "assign_task", assign_task(a[1], a[2]))
    BY <1>4
  <2>2. a \in User \X User
    BY Inputs
  <2>3. handler'[p] = "assign_task" /\ todo'[p] = assign_task(a[1], a[2])
    BY <1>2, <2>1
  <2>. QED
    BY <1>2, <2>1, <2>2, <2>3
<1>5. CASE \E sent \in {<<>>} \cup {<<SetWatchers(ws)>> : ws \in WatcherInput} :
               begin(p, "update_task_fields", update_task_fields(sent))
  <2>1. PICK sent \in {<<>>} \cup {<<SetWatchers(ws)>> : ws \in WatcherInput} :
            begin(p, "update_task_fields", update_task_fields(sent))
    BY <1>5
  <2>2. PICK ws \in SUBSET User : sent \in {<<>>, <<SetWatchers(ws)>>}
    <3>1. WatcherInput \subseteq SUBSET User /\ {} \in SUBSET User
      BY Inputs
    <3>. QED
      BY <2>1, <3>1
  <2>3. /\ handler'[p] = "update_task_fields"
        /\ todo'[p] \in {update_task_fields(<<>>),
                         update_task_fields(<<SetWatchers(ws)>>)}
    BY <1>2, <2>1, <2>2
  <2>. QED
    BY <1>2, <2>1, <2>3
<1>6. CASE \E ws \in WatcherInput : begin(p, "admin_change", admin_change(ws))
  BY <1>2, <1>6, Inputs
<1>7. CASE begin(p, "admin_delete", admin_delete)
  BY <1>2, <1>7
<1>8. CASE begin(p, "run_task_alerts", run_task_alerts)
  BY <1>2, <1>8
<1>. QED
  BY <1>3, <1>4, <1>5, <1>6, <1>7, <1>8 DEF receive

(* Every step is one of these.                                             *)
LEMMA NextWorks ==
    ASSUME IInv, [Next]_vars
    PROVE  \/ \E p \in Process : receive(p)
           \/ \E p \in Process : Works(p) \/ Commits(p) \/ (Running(p) /\ abort(p))
           \/ UNCHANGED <<table, now, owner, handler, todo, dead, made, mailed>>
<1>1. break_deadlock => \E p \in Process : Running(p) /\ abort(p)
  BY DEF break_deadlock, Deadlocked, WaitsFor
<1>. QED
  BY <1>1, StepWorks DEF Next, kill, vars, rows

-----------------------------------------------------------------------------
(* Which notices are still to be mailed.  A run of the job commits one and *)
(* then mails it, so one is left at most; a service mails those that its   *)
(* transaction has yet to commit, but for the one it is about to mail.     *)
Sendable == {k \in NoticeKey : k[2] \in Reachable}
AtMostOne(S) == \A j, k \in S : j = k

Uncommitted(p) == newChildren(p) \cap NoticeKey
Unsent(p) == (made[p] \ mailed[p]) \cap Sendable
Sending(p) == IF Running(p) /\ op(p) = "mail" THEN keys(p) ELSE {}

JobMails(p) ==
    /\ AtMostOne(Unsent(p))
    /\ Running(p) => Unsent(p) \subseteq Sending(p)
    /\ (~ Running(p) /\ p \notin dead) => Unsent(p) = {}
    /\ (Running(p) /\ op(p) = "commit") =>
           /\ AtMostOne(Uncommitted(p))
           /\ Uncommitted(p) \cap Sendable # {} =>
                  Len(todo[p]) >= 2 /\ todo[p][2] = <<"mail", Uncommitted(p)>>

ServiceMails(p) ==
    /\ Unsent(p) = {}
    /\ Uncommitted(p) \cap Sendable \subseteq mailed[p] \cup Sending(p)

Mails(p) == IF Job(p) THEN JobMails(p) ELSE ServiceMails(p)

LEMMA MailsAlone ==
    ASSUME NEW q \in Process, Mails(q), LeavesAlone(q)
    PROVE  Mails(q)'
<1>1. Uncommitted(q)' = Uncommitted(q)
  BY DEF LeavesAlone, Uncommitted, newChildren
<1>2. /\ Unsent(q)' = Unsent(q)
      /\ Running(q)' = Running(q) /\ op(q)' = op(q) /\ Sending(q)' = Sending(q)
      /\ Job(q)' = Job(q) /\ (q \in dead)' = (q \in dead)
      /\ todo'[q] = todo[q] /\ mailed'[q] = mailed[q]
  BY DEF LeavesAlone, Unsent, Sending, Running, op, keys, Job
<1>3. JobMails(q) => JobMails(q)'
  BY <1>1, <1>2 DEF JobMails, AtMostOne
<1>4. ServiceMails(q) => ServiceMails(q)'
  BY <1>1, <1>2 DEF ServiceMails
<1>. QED
  BY <1>2, <1>3, <1>4 DEF Mails

(* A notice nobody sees yet comes from an INSERT.                          *)
LEMMA UncommittedWorks ==
    ASSUME IInv, NEW p \in Process, Works(p)
    PROVE  /\ Typed
           /\ op(p) # "insert" => Uncommitted(p)' \subseteq Uncommitted(p)
           /\ op(p) = "insert" =>
                  \/ first(keys(p)) \in seen(p) /\ Uncommitted(p)' = Uncommitted(p)
                  \/ LET k == first(keys(p))
                     IN  /\ k \notin seen(p) /\ k \in NoticeKey /\ Posts(p, k)
                         /\ Uncommitted(p)' \subseteq Uncommitted(p) \cup {k}
                         /\ k \notin table => Uncommitted(p)' = Uncommitted(p) \cup {k}
           /\ Job(p) => Uncommitted(p) = {} /\ owned(p) = {}
<1>1. Typed /\ ProcessInv(p) /\ Running(p) /\ table' = table
  BY DEF IInv, Works
<1>2. Head(todo[p]) \in Statement /\ Head(todo[p])[1] = op(p)
      /\ Head(todo[p])[2] = keys(p)
  BY <1>1, HeadOf DEF op, keys
<1>3. Job(p) => Uncommitted(p) = {} /\ owned(p) = {}
  BY <1>1 DEF ProcessInv, JobInv, Job, Works, Uncommitted, newChildren
<1>4. CASE /\ UNCHANGED <<owner, now>>
           /\ op(p) = "insert" => first(keys(p)) \in seen(p)
  BY <1>1, <1>3, <1>4 DEF Uncommitted, newChildren, owned
<1>5. CASE \E k \in keys(p), there \in BOOLEAN : Grabs(p, k, there)
  <2>1. PICK k \in keys(p), there \in BOOLEAN : Grabs(p, k, there)
    BY <1>5
  <2>2. /\ k \in Key /\ owner' = [owner EXCEPT ![k] = p]
        /\ now' = IF there THEN now \cup {k} ELSE now \ {k}
        /\ there => op(p) \in {"save", "insert_task", "save_column", "add", "insert"}
        /\ op(p) = "insert" => there
        /\ op(p) = "insert" => k = first(keys(p)) /\ k \notin seen(p) /\ Posts(p, k)
    BY <2>1 DEF Grabs, take
  <2>3. owned(p)' = owned(p) \cup {k}
    BY <1>1, <2>2 DEF owned, Typed
  <2>4. Uncommitted(p)' \subseteq Uncommitted(p) \cup ({k} \cap NoticeKey)
    BY <1>1, <2>2, <2>3 DEF Uncommitted, newChildren
  <2>5. ~ there => Uncommitted(p)' \subseteq Uncommitted(p)
    BY <1>1, <2>2, <2>3 DEF Uncommitted, newChildren
  <2>6. ASSUME there, op(p) # "insert" PROVE k \notin NoticeKey
    <3>1. keys(p) = {TaskRow} \/ keys(p) \subseteq Watchers(User)
      BY <1>2, <2>2, <2>6, KeysOf DEF Filled
    <3>. QED
      BY <3>1, Parts
  <2>7. ASSUME op(p) = "insert" PROVE k \in NoticeKey
    BY <1>2, <2>7, KeysOf DEF Filled
  <2>8. ASSUME op(p) = "insert", k \notin table
        PROVE  Uncommitted(p)' = Uncommitted(p) \cup {k}
    BY <1>1, <2>2, <2>3, <2>4, <2>7, <2>8, Parts DEF Uncommitted, newChildren
  <2>. QED
    BY <1>1, <1>3, <2>2, <2>4, <2>5, <2>6, <2>7, <2>8
<1>. QED
  BY <1>4, <1>5 DEF Works

LEMMA MailsWorks ==
    ASSUME IInv, NEW p \in Process, Mails(p), Works(p)
    PROVE  Mails(p)'
<1>1. Typed /\ ProcessInv(p) /\ Running(p) /\ op(p) # "commit"
  BY DEF IInv, Works
<1>2. Job(p)' = Job(p) /\ made'[p] = made[p] /\ table' = table /\ dead' = dead
  BY DEF Works, Job
<1>3. Job(p) => Uncommitted(p) = {} /\ owned(p) = {}
  BY UncommittedWorks
<1>4. /\ Head(todo[p])[1] = op(p) /\ Head(todo[p])[2] = keys(p)
      /\ op(p) = "mail" => keys(p) \subseteq NoticeKey
  <2>1. Head(todo[p]) \in Statement /\ Head(todo[p])[1] = op(p)
        /\ Head(todo[p])[2] = keys(p)
    BY <1>1, HeadOf DEF op, keys
  <2>. QED
    BY <2>1, KeysOf DEF Filled
<1>5. CASE op(p) = "mail"
  <2>1. mailed'[p] = mailed[p] \cup keys(p)
    BY <1>1, <1>5 DEF Works, Typed
  <2>2. Uncommitted(p)' \subseteq Uncommitted(p)
    BY <1>5, UncommittedWorks
  <2>3. Unsent(p) \subseteq Sending(p) /\ Sending(p) = keys(p)
    BY <1>1, <1>5 DEF Mails, JobMails, ServiceMails, Sending
  <2>4. Unsent(p)' = {}
    BY <1>2, <2>1, <2>3 DEF Unsent
  <2>5. CASE Job(p)
    <3>1. Uncommitted(p)' = {}
      BY <1>3, <2>2, <2>5
    <3>. QED
      BY <1>2, <2>4, <2>5, <3>1 DEF Mails, JobMails, AtMostOne
  <2>6. CASE ~ Job(p)
    <3>1. Uncommitted(p)' \cap Sendable \subseteq mailed'[p]
      BY <2>1, <2>2, <2>3, <2>6 DEF Mails, ServiceMails
    <3>. QED
      BY <1>2, <2>4, <2>6, <3>1 DEF Mails, ServiceMails
  <2>. QED
    BY <2>5, <2>6
<1>6. CASE op(p) # "mail"
  <2>1. mailed'[p] = mailed[p] /\ Sending(p) = {}
    BY <1>6 DEF Works, Sending
  <2>2. Unsent(p) = {}
    BY <1>1, <2>1 DEF Mails, JobMails, ServiceMails
  <2>3. Unsent(p)' = {}
    BY <1>2, <2>1, <2>2 DEF Unsent
  <2>4. Uncommitted(p)' \subseteq Uncommitted(p) \/
        (/\ first(keys(p)) \in NoticeKey /\ first(keys(p)) \notin seen(p)
         /\ Posts(p, first(keys(p)))
         /\ Uncommitted(p)' \subseteq Uncommitted(p) \cup {first(keys(p))}
         /\ first(keys(p)) \notin table =>
                Uncommitted(p)' = Uncommitted(p) \cup {first(keys(p))})
    BY UncommittedWorks
  <2>5. CASE Uncommitted(p)' \subseteq Uncommitted(p)
    <3>1. CASE Job(p)
      <4>1. Uncommitted(p)' = {}
        BY <1>3, <2>5, <3>1
      <4>. QED
        BY <1>2, <2>3, <3>1, <4>1 DEF Mails, JobMails, AtMostOne
    <3>2. CASE ~ Job(p)
      BY <1>2, <2>1, <2>3, <2>5, <3>2 DEF Mails, ServiceMails
    <3>. QED
      BY <3>1, <3>2
  <2>6. ASSUME NEW k, k = first(keys(p)), k \in NoticeKey, k \notin seen(p), Posts(p, k),
               Uncommitted(p)' \subseteq Uncommitted(p) \cup {k},
               k \notin table => Uncommitted(p)' = Uncommitted(p) \cup {k}
        PROVE  Mails(p)'
    <3>1. CASE Job(p)
      <4>1. Uncommitted(p)' = {k}
        BY <1>3, <2>6, <3>1 DEF seen
      <4>2. k \in Sendable => Len(todo'[p]) >= 2 /\ todo'[p][2] = <<"mail", {k}>>
        BY <2>6, <3>1 DEF Posts, Sendable
      <4>3. Running(p)'
        BY <2>6, <3>1 DEF Posts, Running
      <4>. QED
        BY <1>2, <2>3, <3>1, <4>1, <4>2, <4>3 DEF Mails, JobMails, AtMostOne
    <3>2. CASE ~ Job(p)
      <4>1. Uncommitted(p) \cap Sendable \subseteq mailed[p]
        BY <2>1, <3>2 DEF Mails, ServiceMails
      <4>2. k \in Sendable => Sending(p)' = {k}
        <5>1. k \in Sendable => todo'[p] # <<>> /\ Head(todo'[p]) = <<"mail", {k}>>
          BY <2>6, <3>2 DEF Posts, Sendable
        <5>. QED
          BY <5>1 DEF Sending, Running, op, keys
      <4>. QED
        BY <1>2, <2>1, <2>3, <2>6, <3>2, <4>1, <4>2 DEF Mails, ServiceMails
    <3>. QED
      BY <3>1, <3>2
  <2>. QED
    BY <2>4, <2>5, <2>6
<1>. QED
  BY <1>5, <1>6

LEMMA MailsCommits ==
    ASSUME IInv, NEW p \in Process, Mails(p), Commits(p)
    PROVE  Mails(p)'
<1>1. /\ Typed /\ Running(p) /\ op(p) = "commit"
      /\ made'[p] = made[p] \cup Uncommitted(p) /\ mailed' = mailed /\ dead' = dead
      /\ Job(p)' = Job(p) /\ todo'[p] = rest(p)
      /\ release(p)
  BY DEF IInv, Commits, Typed, Job, Uncommitted
<1>2. Uncommitted(p)' = {}
  <2>1. owned(p)' = {}
    BY <1>1, ReleasedKeys
  <2>. QED
    BY <2>1 DEF Uncommitted, newChildren
<1>3. Sending(p) = {} /\ Unsent(p) = {}
  BY <1>1 DEF Sending, Mails, JobMails, ServiceMails
<1>4. Unsent(p)' = (Uncommitted(p) \cap Sendable) \ mailed[p]
  BY <1>1, <1>3 DEF Unsent
<1>5. CASE ~ Job(p)
  BY <1>1, <1>2, <1>3, <1>4, <1>5 DEF Mails, ServiceMails
<1>6. CASE Job(p)
  <2>1. AtMostOne(Unsent(p)')
    BY <1>1, <1>4, <1>6 DEF Mails, JobMails, AtMostOne
  <2>2. CASE Uncommitted(p) \cap Sendable = {}
    BY <1>1, <1>2, <1>4, <1>6, <2>1, <2>2 DEF Mails, JobMails, AtMostOne
  <2>3. CASE Uncommitted(p) \cap Sendable # {}
    <3>1. Len(todo[p]) >= 2 /\ todo[p][2] = <<"mail", Uncommitted(p)>>
      BY <1>1, <1>6, <2>3 DEF Mails, JobMails
    <3>2. todo[p] \in Seq(Statement)
      BY <1>1 DEF Typed
    <3>3. rest(p) # <<>> /\ Head(rest(p)) = todo[p][2]
      BY <3>1, <3>2, SecondOf DEF rest
    <3>4. Running(p)' /\ Sending(p)' = Uncommitted(p)
      BY <1>1, <3>1, <3>3 DEF Running, Sending, op, keys
    <3>. QED
      BY <1>1, <1>2, <1>4, <1>6, <2>1, <3>4 DEF Mails, JobMails, AtMostOne
  <2>. QED
    BY <2>2, <2>3
<1>. QED
  BY <1>5, <1>6

LEMMA MailsAbort ==
    ASSUME IInv, NEW p \in Process, Mails(p), Running(p), abort(p)
    PROVE  Mails(p)'
<1>1. /\ Typed /\ todo'[p] = <<>> /\ p \in dead'
      /\ UNCHANGED <<made, mailed, handler>> /\ release(p)
  BY DEF IInv, Typed, abort, next
<1>2. Uncommitted(p)' = {}
  <2>1. owned(p)' = {}
    BY <1>1, ReleasedKeys
  <2>. QED
    BY <2>1 DEF Uncommitted, newChildren
<1>. QED
  BY <1>1, <1>2 DEF Mails, JobMails, ServiceMails, Unsent, Job, Running, AtMostOne

LEMMA MailsReceive ==
    ASSUME IInv, NEW p \in Process, Mails(p), receive(p)
    PROVE  Mails(p)'
<1>1. handler[p] = "idle" /\ UNCHANGED <<table, now, owner, dead, made, mailed>>
  BY ReceivesAlone
<1>2. owned(p) = {}
  BY <1>1 DEF IInv, ProcessInv
<1>3. Uncommitted(p)' = {}
  BY <1>1, <1>2 DEF Uncommitted, newChildren, owned
<1>4. Unsent(p)' = {}
  BY <1>1 DEF Mails, Job, ServiceMails, Unsent
<1>5. Job(p)' => Running(p)'
  <2>1. ASSUME handler'[p] = "run_task_alerts" PROVE todo'[p] = run_task_alerts
    BY <2>1, ReceivesAlone
  <2>2. run_task_alerts # <<>>
    BY DEF run_task_alerts
  <2>. QED
    BY <2>1, <2>2 DEF Job, Running
<1>. QED
  BY <1>3, <1>4, <1>5 DEF Mails, JobMails, ServiceMails, AtMostOne

LEMMA MailsInit == ASSUME Init, NEW p \in Process PROVE Mails(p)
<1>1. owned(p) = {} /\ made[p] = {} /\ ~ Job(p)
  BY NobodyIsNoProcess DEF Init, owned, Job
<1>. QED
  BY <1>1 DEF Mails, ServiceMails, Unsent, Uncommitted, newChildren

MailsInv == \A p \in Process : Mails(p)

LEMMA MailsNext == ASSUME IInv, MailsInv, [Next]_vars PROVE MailsInv'
<1>1. CASE \E p \in Process : receive(p)
  <2>1. PICK p \in Process : receive(p)
    BY <1>1
  <2>2. ASSUME NEW q \in Process \ {p} PROVE Mails(q)'
    BY <2>1, ReceivesAlone, MailsAlone DEF MailsInv
  <2>. QED
    BY <2>1, <2>2, MailsReceive DEF MailsInv
<1>2. CASE \E p \in Process : Works(p) \/ Commits(p) \/ (Running(p) /\ abort(p))
  <2>1. PICK p \in Process : Works(p) \/ Commits(p) \/ (Running(p) /\ abort(p))
    BY <1>2
  <2>2. ASSUME NEW q \in Process \ {p} PROVE Mails(q)'
    BY <2>1, OthersAlone, MailsAlone DEF MailsInv
  <2>. QED
    BY <2>1, <2>2, MailsWorks, MailsCommits, MailsAbort DEF MailsInv
<1>3. CASE UNCHANGED <<table, now, owner, handler, todo, dead, made, mailed>>
  <2>1. ASSUME NEW q \in Process PROVE Mails(q)'
    BY <1>3, MailsAlone DEF MailsInv, LeavesAlone, owned
  <2>. QED
    BY <2>1 DEF MailsInv
<1>. QED
  BY <1>1, <1>2, <1>3, NextWorks

(* Every notice that is kept is mailed to a user who can be reached,       *)
(* however many requests and runs of the job there are, but for at most    *)
(* one that a killed run had just committed.                               *)
THEOREM KeptNoticesAlwaysMailed == Spec => []KeptNoticesMailed
<1>1. ASSUME Init PROVE MailsInv
  BY <1>1, MailsInit DEF MailsInv
<1>2. ASSUME IInv, MailsInv PROVE KeptNoticesMailed
  <2> SUFFICES ASSUME NEW p \in Process, ~ Running(p)
               PROVE  LET unsent == {k \in made[p] \ mailed[p] : k[2] \in Reachable}
                      IN  \/ unsent = {}
                          \/ Job(p) /\ p \in dead /\ \E k \in NoticeKey : unsent = {k}
    BY DEF KeptNoticesMailed
  <2>1. made[p] \subseteq NoticeKey
    BY <1>2 DEF IInv, Typed
  <2>2. Unsent(p) = {k \in made[p] \ mailed[p] : k[2] \in Reachable}
    BY <2>1 DEF Unsent, Sendable
  <2>3. Mails(p)
    BY <1>2 DEF MailsInv
  <2>4. Unsent(p) = {} \/ \E k \in NoticeKey : Unsent(p) = {k}
    BY <2>3 DEF Mails, JobMails, ServiceMails, AtMostOne, Unsent, Sendable
  <2>5. Unsent(p) # {} => Job(p) /\ p \in dead
    BY <2>3 DEF Mails, JobMails, ServiceMails
  <2>. QED
    BY <2>2, <2>4, <2>5
<1>. QED
  BY <1>1, <1>2, MailsNext, Invariance, PTL DEF Spec

-----------------------------------------------------------------------------
(* Who takes an alert out of the table: a reassignment and the Admin's     *)
(* deletion, whose commit ends them.  Until one of them has committed, an  *)
(* alert that a run of the job has created stays, and no other run can     *)
(* create it.  A run mails what it has created.                            *)
Removers == {"assign_task", "admin_delete"}

Alerts(p) ==
    /\ ~ Job(p) => CommitsLast(todo[p])
    /\ handler[p] = "idle" => made[p] = {} /\ mailed[p] = {}
    /\ p \in dead => handler[p] # "idle" /\ ~ Running(p)
    /\ Job(p) => /\ mailed[p] \subseteq made[p]
                 /\ \A s \in Agenda(todo[p]) :
                        s[1] = "mail" => s[2] \subseteq made[p] \cup Uncommitted(p)
    /\ handler[p] \notin Removers =>
           /\ \A s \in Agenda(todo[p]) :
                  s[1] \in {"delete", "remove"} => s[2] \subseteq Watchers(User)
           /\ owned(p) \cap NoticeKey \cap table \subseteq now

RunsApart ==
    ~ Withdrawn =>
        \A p \in Process : Job(p) =>
            /\ made[p] \subseteq table
            /\ \A q \in Process \ {p} : Job(q) => made[p] \cap made[q] = {}

AlertsInv == (\A p \in Process : Alerts(p)) /\ RunsApart

LEMMA Programs ==
    ASSUME IInv, NEW p \in Process, receive(p)
    PROVE  /\ CommitsLast(todo'[p])
           /\ \A s \in Agenda(todo'[p]) : s[1] # "mail"
           /\ handler'[p] \notin Removers =>
                  \A s \in Agenda(todo'[p]) : s[1] \notin {"delete", "remove"}
           /\ handler'[p] \in Handler
<1> DEFINE look == <<"read_watchers", {}>>
           tail == <<Save, Commit>>
<1>1. /\ look[1] = "read_watchers" /\ Save[1] = "save" /\ Commit[1] = "commit"
      /\ \A us : SetWatchers(us)[1] = "set_watchers"
      /\ \A kind, us : Tell(kind, us)[1] = "tell"
  BY DEF Save, Commit, SetWatchers, Tell
<1>2. Agenda(tail) = {Save, Commit} /\ CommitsLast(tail)
  BY <1>1, Two
<1> HIDE DEF look
<1>3. CASE handler'[p] = "change_status" /\ todo'[p] = change_status
  <2>1. todo'[p] = <<Save, look, Commit>>
    BY <1>3 DEF change_status, look
  <2>2. CommitsLast(todo'[p]) /\ Agenda(todo'[p]) = {Save, look, Commit}
    BY <1>1, <2>1, Three
  <2>. QED
    BY <1>1, <1>3, <2>2 DEF Handler
<1>4. ASSUME NEW ws \in SUBSET User, handler'[p] = "update_task_fields",
             todo'[p] = update_task_fields(<<>>)
      PROVE  /\ CommitsLast(todo'[p])
             /\ \A s \in Agenda(todo'[p]) : s[1] \notin {"mail", "delete", "remove"}
  <2>1. todo'[p] = tail
    BY <1>4 DEF update_task_fields
  <2>. QED
    BY <1>1, <1>2, <2>1
<1>5. ASSUME NEW ws \in SUBSET User, handler'[p] = "update_task_fields",
             todo'[p] = update_task_fields(<<SetWatchers(ws)>>)
      PROVE  /\ CommitsLast(todo'[p])
             /\ \A s \in Agenda(todo'[p]) : s[1] \notin {"mail", "delete", "remove"}
  <2> DEFINE set == SetWatchers(ws)
  <2>1. todo'[p] = <<set>> \o tail
    BY <1>5 DEF update_task_fields
  <2>2. set \in Stmt /\ Save \in Stmt /\ Commit \in Stmt
    <3>1. Watchers(ws) \in SUBSET Key
      BY DEF Watchers, Key, Child
    <3>. QED
      BY <3>1, Parts DEF Stmt, Op, SetWatchers, Save, Commit
  <2>3. set[1] = "set_watchers"
    BY <1>1
  <2>4. tail \in Seq(Stmt)
    BY <2>2
  <2> HIDE DEF set, tail
  <2>5. CommitsLast(todo'[p]) /\ Agenda(todo'[p]) = {set} \cup Agenda(tail)
    BY <1>2, <2>1, <2>2, <2>3, <2>4, PutAgenda
  <2>. QED
    BY <1>1, <1>2, <2>3, <2>5
<1>6. ASSUME NEW ws \in SUBSET User, handler'[p] = "admin_change",
             todo'[p] = admin_change(ws)
      PROVE  /\ CommitsLast(todo'[p])
             /\ \A s \in Agenda(todo'[p]) : s[1] \notin {"mail", "delete", "remove"}
  <2> DEFINE set == SetWatchers(ws)
  <2>1. todo'[p] = <<Save, set, Commit>> /\ set[1] = "set_watchers"
    BY <1>1, <1>6 DEF admin_change
  <2> HIDE DEF set
  <2>2. CommitsLast(todo'[p]) /\ Agenda(todo'[p]) = {Save, set, Commit}
    BY <1>1, <2>1, Three
  <2>. QED
    BY <1>1, <2>1, <2>2
<1>7. ASSUME NEW a \in User \X User, handler'[p] = "assign_task",
             todo'[p] = assign_task(a[1], a[2])
      PROVE  CommitsLast(todo'[p]) /\ \A s \in Agenda(todo'[p]) : s[1] # "mail"
  <2> DEFINE column == <<"save_column", {TaskRow}>>
             prune == <<"delete", Notices({"alert"}, {a[1]})>>
             told == Tell("reassigned", {a[2]})
  <2>1. /\ todo'[p] = <<column, prune, told, Commit>>
        /\ column[1] = "save_column" /\ prune[1] = "delete" /\ told[1] = "tell"
    BY <1>1, <1>7 DEF assign_task
  <2> HIDE DEF column, prune, told
  <2>2. CommitsLast(todo'[p]) /\ Agenda(todo'[p]) = {column, prune, told, Commit}
    BY <1>1, <2>1, Four
  <2>. QED
    BY <1>1, <2>1, <2>2
<1>8. ASSUME handler'[p] = "admin_delete", todo'[p] = admin_delete
      PROVE  CommitsLast(todo'[p]) /\ \A s \in Agenda(todo'[p]) : s[1] # "mail"
  <2> DEFINE unwatch == <<"delete", Watchers(User)>>
             prune == <<"delete", NoticeKey>>
             drop == <<"delete_task", {TaskRow}>>
  <2>1. /\ todo'[p] = <<unwatch, prune, drop, Commit>>
        /\ unwatch[1] = "delete" /\ prune[1] = "delete" /\ drop[1] = "delete_task"
    BY <1>8 DEF admin_delete
  <2> HIDE DEF unwatch, prune, drop
  <2>2. CommitsLast(todo'[p]) /\ Agenda(todo'[p]) = {unwatch, prune, drop, Commit}
    BY <1>1, <2>1, Four
  <2>. QED
    BY <1>1, <2>1, <2>2
<1>9. ASSUME handler'[p] = "run_task_alerts", todo'[p] = run_task_alerts
      PROVE  /\ CommitsLast(todo'[p])
             /\ \A s \in Agenda(todo'[p]) : s[1] \notin {"mail", "delete", "remove"}
  <2> DEFINE told == Tell("alert", User)
  <2>1. todo'[p] = <<told>> /\ told[1] = "tell"
    BY <1>1, <1>9 DEF run_task_alerts
  <2> HIDE DEF told
  <2>2. CommitsLast(todo'[p]) /\ Agenda(todo'[p]) = {told}
    BY <2>1, NoneOrOne
  <2>. QED
    BY <2>1, <2>2
<1>. QED
  BY <1>3, <1>4, <1>5, <1>6, <1>7, <1>8, <1>9, ReceivesAlone DEF Removers, Handler

LEMMA AlertsAlone ==
    ASSUME NEW q \in Process, Alerts(q), LeavesAlone(q)
    PROVE  Alerts(q)'
<1>1. Uncommitted(q)' = Uncommitted(q)
  BY DEF LeavesAlone, Uncommitted, newChildren
<1>2. /\ todo'[q] = todo[q] /\ handler'[q] = handler[q] /\ Running(q)' = Running(q)
      /\ Job(q)' = Job(q) /\ made'[q] = made[q] /\ mailed'[q] = mailed[q]
      /\ q \in dead' <=> q \in dead
      /\ owned(q)' = owned(q)
      /\ \A k \in owned(q) : (k \in now' <=> k \in now) /\ (k \in table' <=> k \in table)
  BY DEF LeavesAlone, Running, Job
<1>. QED
  BY <1>1, <1>2 DEF Alerts

LEMMA AlertsReceive ==
    ASSUME IInv, NEW p \in Process, Alerts(p), receive(p)
    PROVE  Alerts(p)'
<1>1. /\ handler[p] = "idle" /\ UNCHANGED <<table, now, owner, dead, made, mailed>>
      /\ handler'[p] # "idle"
  BY ReceivesAlone, Programs DEF Handler
<1>2. owned(p) = {} /\ made[p] = {} /\ mailed[p] = {} /\ p \notin dead
  BY <1>1 DEF IInv, ProcessInv, Alerts
<1>3. owned(p)' = {}
  BY <1>1, <1>2 DEF owned
<1>. QED
  BY <1>1, <1>2, <1>3, Programs DEF Alerts

LEMMA AlertsAbort ==
    ASSUME IInv, NEW p \in Process, Alerts(p), Running(p), abort(p)
    PROVE  Alerts(p)'
<1>1. /\ Typed /\ todo'[p] = <<>>
      /\ UNCHANGED <<made, mailed, handler>> /\ release(p)
  BY DEF IInv, Typed, abort, next
<1>2. owned(p)' = {}
  BY <1>1, ReleasedKeys
<1>3. Agenda(todo'[p]) = {} /\ CommitsLast(todo'[p])
  BY <1>1, NoneOrOne
<1>4. handler[p] # "idle"
  BY HeadOf DEF IInv, Handler
<1>. QED
  BY <1>1, <1>2, <1>3, <1>4 DEF Alerts, Job, Running

LEMMA AlertsCommits ==
    ASSUME IInv, NEW p \in Process, Alerts(p), Commits(p)
    PROVE  Alerts(p)'
<1>1. /\ Typed /\ Running(p) /\ todo'[p] = rest(p)
      /\ made'[p] = made[p] \cup Uncommitted(p)
      /\ UNCHANGED <<dead, mailed, handler>> /\ release(p)
  BY DEF IInv, Typed, Commits, Uncommitted
<1>2. owned(p)' = {}
  BY <1>1, ReleasedKeys
<1>3. /\ Agenda(todo'[p]) \subseteq Agenda(todo[p])
      /\ CommitsLast(todo[p]) => CommitsLast(todo'[p])
  <2>1. todo[p] \in Seq(Stmt) /\ todo[p] # <<>>
    BY <1>1, FitsRest DEF Running
  <2>. QED
    BY <1>1, <2>1, TailAgenda DEF rest
<1>4. handler[p] # "idle" /\ p \notin dead
  BY <1>1, HeadOf DEF IInv, Handler, Alerts
<1>. QED
  BY <1>1, <1>2, <1>3, <1>4 DEF Alerts, Job

LEMMA AlertsWorks ==
    ASSUME IInv, NEW p \in Process, Alerts(p), Works(p)
    PROVE  Alerts(p)'
<1>1. /\ Typed /\ ProcessInv(p) /\ Running(p) /\ handler[p] # "idle"
      /\ UNCHANGED <<table, dead, handler, made>>
  BY HeadOf DEF IInv, Works, Handler
<1>2. /\ Head(todo[p])[1] = op(p) /\ Head(todo[p])[2] = keys(p)
      /\ Head(todo[p]) \in Statement /\ Head(todo[p]) \in Agenda(todo[p])
  BY <1>1, HeadOf, FitsRest DEF op, keys
<1>3. p \notin dead
  BY <1>1 DEF Alerts
<1>4. PICK s : Fits(p, s) /\ todo' = [todo EXCEPT ![p] = s]
  BY DEF Works
<1>5. todo'[p] = s
  BY <1>1, <1>4 DEF Typed
<1>6. ~ Job(p) => CommitsLast(todo'[p])
  BY <1>4, <1>5 DEF Fits, Alerts
<1>7. \A x \in Agenda(todo'[p]) : x \in Agenda(todo[p]) \/ Follows(p, x)
  <2>1. Agenda(rest(p)) \subseteq Agenda(todo[p])
    BY <1>1, FitsRest, TailAgenda DEF rest, Running
  <2>. QED
    BY <1>4, <1>5, <2>1 DEF Fits
<1>8. ASSUME Job(p)
      PROVE  /\ mailed'[p] \subseteq made[p]
             /\ \A x \in Agenda(todo'[p]) :
                    x[1] = "mail" => x[2] \subseteq made[p] \cup Uncommitted(p)'
  <2>1. Uncommitted(p) = {} /\ owned(p) = {}
    BY <1>8, UncommittedWorks
  <2>2. mailed[p] \subseteq made[p]
        /\ \A x \in Agenda(todo[p]) : x[1] = "mail" => x[2] \subseteq made[p]
    BY <1>8, <2>1 DEF Alerts
  <2>3. mailed'[p] \subseteq made[p]
    BY <1>1, <1>2, <2>2 DEF Works, Typed
  <2>4. ASSUME NEW x \in Agenda(todo'[p]), x[1] = "mail"
        PROVE  x[2] \subseteq made[p] \cup Uncommitted(p)'
    <3>1. CASE x \in Agenda(todo[p])
      BY <2>2, <2>4, <3>1
    <3>2. CASE Follows(p, x)
      <4>1. op(p) = "insert" /\ first(keys(p)) \notin seen(p) /\ x[2] = {first(keys(p))}
        BY <2>4, <3>2 DEF Follows
      <4> DEFINE k == first(keys(p))
      <4>2. k \in NoticeKey
        <5>1. keys(p) \in SUBSET Key /\ keys(p) # {} /\ keys(p) \subseteq NoticeKey
          BY <1>2, <4>1, KeysOf, Parts DEF Filled
        <5>. QED
          BY <5>1, FirstIn
      <4>3. k \notin table
        BY <2>1, <4>1 DEF seen
      <4>4. x[2] \subseteq Uncommitted(p)'
        BY <2>1, <4>1, <4>2, <4>3, UncommittedWorks
      <4>. QED
        BY <4>4
    <3>. QED
      BY <1>7, <3>1, <3>2
  <2>. QED
    BY <2>3, <2>4
<1>9. ASSUME handler[p] \notin Removers
      PROVE  /\ \A x \in Agenda(todo'[p]) :
                    x[1] \in {"delete", "remove"} => x[2] \subseteq Watchers(User)
             /\ owned(p)' \cap NoticeKey \cap table \subseteq now'
  <2>1. /\ \A x \in Agenda(todo[p]) :
               x[1] \in {"delete", "remove"} => x[2] \subseteq Watchers(User)
        /\ owned(p) \cap NoticeKey \cap table \subseteq now
    BY <1>9 DEF Alerts
  <2>2. op(p) \in {"delete", "remove"} => keys(p) \subseteq Watchers(User)
    BY <1>2, <2>1
  <2>3. ASSUME NEW x \in Agenda(todo'[p]), x[1] \in {"delete", "remove"}
        PROVE  x[2] \subseteq Watchers(User)
    BY <1>7, <2>1, <2>2, <2>3 DEF Follows
  <2>4. CASE UNCHANGED <<owner, now>>
    BY <2>1, <2>3, <2>4 DEF owned
  <2>5. CASE \E k \in keys(p), there \in BOOLEAN : Grabs(p, k, there)
    <3>1. PICK k \in keys(p), there \in BOOLEAN : Grabs(p, k, there)
      BY <2>5
    <3>2. /\ owner' = [owner EXCEPT ![k] = p] /\ k \in Key
          /\ now' = IF there THEN now \cup {k} ELSE now \ {k}
          /\ ~ there => op(p) \in {"delete_task", "remove"}
      BY <3>1 DEF Grabs, take
    <3>3. owned(p)' = owned(p) \cup {k}
      BY <1>1, <3>2 DEF owned, Typed
    <3>4. ~ there => k \notin NoticeKey
      BY <1>2, <2>2, <3>2, KeysOf, Parts
    <3>. QED
      BY <2>1, <2>3, <3>2, <3>3, <3>4
  <2>. QED
    BY <2>4, <2>5 DEF Works
<1>. QED
  BY <1>1, <1>3, <1>6, <1>8, <1>9 DEF Alerts, Job

(* What has been withdrawn stays so: who has committed takes no more steps.*)
LEMMA WithdrawnStays ==
    ASSUME IInv, Withdrawn, NEW p \in Process, Running(p) \/ handler[p] = "idle",
           \A q \in Process \ {p} : LeavesAlone(q)
    PROVE  Withdrawn'
<1>1. PICK r \in Process :
          handler[r] \in Removers /\ ~ Running(r) /\ r \notin dead
  BY DEF Withdrawn, Removers
<1>2. r # p
  BY <1>1 DEF Removers
<1>3. LeavesAlone(r)
  BY <1>2
<1>. QED
  BY <1>1, <1>3 DEF Withdrawn, Removers, LeavesAlone, Running

(* Only the job commits before its last statement.                         *)
LEMMA CommitEnds ==
    ASSUME IInv, NEW p \in Process, Alerts(p), Commits(p), ~ Job(p)
    PROVE  todo'[p] = <<>>
<1>1. todo[p] \in Seq(Stmt) /\ todo[p] # <<>> /\ CommitsLast(todo[p])
  BY FitsRest DEF Commits, Running, Alerts
<1>2. todo[p][1][1] = "commit"
  BY <1>1 DEF Commits, op
<1> DEFINE n == Len(todo[p])
<1>3. n \in Nat \ {0} /\ 1 \notin 1 .. n - 1
  BY <1>1, <1>2 DEF CommitsLast
<1> HIDE DEF n
<1>4. n = 1
  BY <1>3
<1>5. Tail(todo[p]) = <<>>
  BY <1>1, <1>4, TailOfOne DEF n
<1>. QED
  BY <1>5 DEF Commits, rest, IInv, Typed

LEMMA ApartReceive ==
    ASSUME IInv, AlertsInv, NEW p \in Process, receive(p)
    PROVE  RunsApart'
<1>1. /\ handler[p] = "idle" /\ UNCHANGED <<table, now, owner, dead, made, mailed>>
      /\ \A q \in Process \ {p} : LeavesAlone(q)
  BY ReceivesAlone
<1>2. made[p] = {}
  BY <1>1 DEF AlertsInv, Alerts
<1>3. ~ Withdrawn' => ~ Withdrawn
  BY <1>1, WithdrawnStays
<1>4. \A q \in Process \ {p} : Job(q)' = Job(q)
  BY <1>1 DEF LeavesAlone, Job
<1>. QED
  BY <1>1, <1>2, <1>3, <1>4 DEF AlertsInv, RunsApart

LEMMA ApartQuiet ==
    ASSUME IInv, AlertsInv, NEW p \in Process, Works(p) \/ (Running(p) /\ abort(p))
    PROVE  RunsApart'
<1>1. UNCHANGED <<table, handler, made>> /\ Running(p)
  BY DEF Works, abort
<1>2. \A q \in Process \ {p} : LeavesAlone(q)
  BY OthersAlone
<1>3. ~ Withdrawn' => ~ Withdrawn
  BY <1>1, <1>2, WithdrawnStays
<1>. QED
  BY <1>1, <1>3 DEF AlertsInv, RunsApart, Job

LEMMA ApartCommits ==
    ASSUME IInv, AlertsInv, NEW p \in Process, Commits(p)
    PROVE  RunsApart'
<1>1. /\ Typed /\ Running(p) /\ table' = seen(p) /\ UNCHANGED <<dead, handler>>
      /\ made' = [made EXCEPT ![p] = @ \cup Uncommitted(p)]
      /\ \A q \in Process : Alerts(q)
  BY DEF IInv, Commits, AlertsInv, Uncommitted
<1>2. \A q \in Process \ {p} : LeavesAlone(q)
  BY OthersAlone
<1> SUFFICES ASSUME ~ Withdrawn'
             PROVE  \A q \in Process : Job(q) =>
                        /\ made'[q] \subseteq table'
                        /\ \A r \in Process \ {q} :
                               Job(r) => made'[q] \cap made'[r] = {}
  BY <1>1 DEF RunsApart, Job
<1>3. ~ Withdrawn
  BY <1>1, <1>2, WithdrawnStays
<1>4. \A q \in Process : Job(q) =>
          /\ made[q] \subseteq table
          /\ \A r \in Process \ {q} : Job(r) => made[q] \cap made[r] = {}
  BY <1>3 DEF AlertsInv, RunsApart
<1>5. handler[p] \notin Removers
  <2> SUFFICES ASSUME handler[p] \in Removers PROVE FALSE
    OBVIOUS
  <2>1. todo'[p] = <<>>
    BY <1>1, CommitEnds DEF Removers, Job
  <2>2. p \notin dead
    BY <1>1 DEF Alerts
  <2>. QED
    BY <1>1, <2>1, <2>2 DEF Withdrawn, Removers, Running
<1>6. table \cap NoticeKey \subseteq table'
  BY <1>1, <1>5 DEF Alerts, seen, owned
<1>7. Uncommitted(p) \subseteq table' /\ Uncommitted(p) \cap table = {}
  BY <1>1 DEF Uncommitted, newChildren, seen
<1>8. \A q \in Process : made[q] \subseteq NoticeKey
  BY <1>1 DEF Typed
<1>9. /\ made'[p] = made[p] \cup Uncommitted(p)
      /\ \A q \in Process \ {p} : made'[q] = made[q]
  BY <1>1 DEF Typed
<1>. QED
  BY <1>4, <1>6, <1>7, <1>8, <1>9

LEMMA AlertsNext == ASSUME IInv, AlertsInv, [Next]_vars PROVE AlertsInv'
<1>1. CASE \E p \in Process : receive(p)
  <2>1. PICK p \in Process : receive(p)
    BY <1>1
  <2>2. ASSUME NEW q \in Process \ {p} PROVE Alerts(q)'
    BY <2>1, ReceivesAlone, AlertsAlone DEF AlertsInv
  <2>. QED
    BY <2>1, <2>2, AlertsReceive, ApartReceive DEF AlertsInv
<1>2. CASE \E p \in Process : Works(p) \/ Commits(p) \/ (Running(p) /\ abort(p))
  <2>1. PICK p \in Process : Works(p) \/ Commits(p) \/ (Running(p) /\ abort(p))
    BY <1>2
  <2>2. ASSUME NEW q \in Process \ {p} PROVE Alerts(q)'
    BY <2>1, OthersAlone, AlertsAlone DEF AlertsInv
  <2>3. Alerts(p)'
    BY <2>1, AlertsWorks, AlertsCommits, AlertsAbort DEF AlertsInv
  <2>. QED
    BY <2>1, <2>2, <2>3, ApartQuiet, ApartCommits DEF AlertsInv
<1>3. CASE UNCHANGED <<table, now, owner, handler, todo, dead, made, mailed>>
  <2>1. ASSUME NEW q \in Process PROVE Alerts(q)'
    BY <1>3, AlertsAlone DEF AlertsInv, LeavesAlone, owned
  <2>2. RunsApart'
    BY <1>3 DEF AlertsInv, RunsApart, Withdrawn, Running, Job
  <2>. QED
    BY <2>1, <2>2 DEF AlertsInv
<1>. QED
  BY <1>1, <1>2, <1>3, NextWorks

LEMMA AlertsInit == ASSUME Init PROVE AlertsInv
<1>1. ASSUME NEW p \in Process PROVE Alerts(p)
  <2>1. /\ handler[p] = "idle" /\ todo[p] = <<>> /\ made[p] = {} /\ mailed[p] = {}
        /\ p \notin dead /\ owned(p) = {}
    BY NobodyIsNoProcess DEF Init, owned
  <2>2. Agenda(todo[p]) = {} /\ CommitsLast(todo[p])
    BY <2>1, NoneOrOne
  <2>. QED
    BY <2>1, <2>2 DEF Alerts, Job
<1>2. RunsApart
  BY DEF Init, RunsApart, Job
<1>. QED
  BY <1>1, <1>2 DEF AlertsInv

(* However many runs of the job overlap with each other and with requests, *)
(* they mail nobody an alert that is not in his bell, and no two of them   *)
(* mail the same one, unless a reassignment or a deletion has committed.   *)
THEOREM AlertsNeverMailedTwice == Spec => []AlertsMailedOnce
<1>1. ASSUME AlertsInv PROVE AlertsMailedOnce
  BY <1>1 DEF AlertsInv, Alerts, RunsApart, AlertsMailedOnce
<1>. QED
  BY <1>1, AlertsInit, AlertsNext, Invariance, PTL DEF Spec

-----------------------------------------------------------------------------
(* Who holds the task's row, and what that keeps the others from doing.    *)
(* The Admin saves the task before he writes the watchers.  Its deletion   *)
(* takes the task's row, if there is one, after the rows that hang on it.  *)
(* And from the moment a change of status has read who watches the task,   *)
(* each of them has a notice that it sees or is going to see to.           *)
ForeignKey == TaskRow \notin table => Child \cap table = {}

Saving(p) ==
    (handler[p] = "admin_change" /\ Running(p) /\ owner[TaskRow] # p)
        => op(p) \in {"save", "insert_task"}

Deleting(p) ==
    handler[p] = "admin_delete" =>
        /\ \A s \in Agenda(todo[p]) :
               s[1] \in {"delete", "remove", "delete_task", "commit"}
        /\ DropsLast(todo[p])
        /\ owned(p) \cap now = {}
        /\ \/ \E s \in Agenda(todo[p]) : s[1] = "delete_task"
           \/ /\ \A s \in Agenda(todo[p]) : s[1] = "commit"
              /\ owner[TaskRow] = p \/ owned(p) \cap table = {}

Reads(p) == \E s \in Agenda(todo[p]) : s[1] = "read_watchers"

Covered(p) ==
    \A u \in User : <<"watcher", u>> \in table =>
        <<"status_changed", u>> \in seen(p) \cup Pending(p)

Telling(p) ==
    handler[p] = "change_status" =>
        /\ \A s \in Agenda(todo[p]) :
               s[1] \in {"insert", "get_again"} => s[2] = {first(s[2])}
        /\ Running(p) =>
               /\ \E s \in Agenda(todo[p]) : s[1] = "commit"
               /\ Reads(p) \/ (owner[TaskRow] = p /\ Covered(p))

Locks(p) == Saving(p) /\ Deleting(p) /\ Telling(p)

LocksInv == ForeignKey /\ \A p \in Process : Locks(p)

\* What a step of another process may do to the table under the lock.
Spares(q) ==
    owner[TaskRow] = q =>
        /\ table \cap NoticeKey \subseteq table'
        /\ table' \cap Watchers(User) \subseteq table

LEMMA WatchedBy ==
    ASSUME NEW u \in User
    PROVE  /\ <<"watcher", u>> \in Watchers(User)
           /\ <<"status_changed", u>> \in NoticeKey
BY DEF Watchers, NoticeKey, Notices, Kind

LEMMA LocksAlone ==
    ASSUME IInv, NEW q \in Process, Locks(q), LeavesAlone(q), Spares(q)
    PROVE  Locks(q)'
<1>1. TaskRow \in Key
  BY Parts
<1>2. /\ todo'[q] = todo[q] /\ handler'[q] = handler[q] /\ Running(q)' = Running(q)
      /\ op(q)' = op(q) /\ Reads(q)' = Reads(q) /\ Pending(q)' = Pending(q)
      /\ owned(q)' = owned(q) /\ (owner'[TaskRow] = q <=> owner[TaskRow] = q)
      /\ \A k \in owned(q) : (k \in now' <=> k \in now) /\ (k \in table' <=> k \in table)
  BY <1>1 DEF LeavesAlone, Running, op, Reads, Pending, owned
<1>3. Saving(q)'
  BY <1>2 DEF Locks, Saving
<1>4. Deleting(q)'
  BY <1>2 DEF Locks, Deleting
<1>5. ASSUME owner[TaskRow] = q, Covered(q) PROVE Covered(q)'
  <2>1. seen(q) \cap NoticeKey \subseteq seen(q)'
    BY <1>2, <1>5 DEF Spares, seen
  <2>2. table' \cap Watchers(User) \subseteq table
    BY <1>5 DEF Spares
  <2>. QED
    BY <1>2, <1>5, <2>1, <2>2, WatchedBy DEF Covered
<1>6. Telling(q)'
  BY <1>2, <1>5 DEF Locks, Telling
<1>. QED
  BY <1>3, <1>4, <1>6 DEF Locks

(* Whoever commits without the task's row neither adds a watcher nor takes *)
(* a notice away.                                                          *)
LEMMA CommitSpares ==
    ASSUME IInv, AlertsInv, LocksInv, NEW p \in Process, Commits(p),
           NEW q \in Process \ {p}
    PROVE  Spares(q)
<1> SUFFICES ASSUME owner[TaskRow] = q
             PROVE  /\ table \cap NoticeKey \subseteq table'
                    /\ table' \cap Watchers(User) \subseteq table
  BY DEF Spares
<1>1. /\ Typed /\ ProcessInv(p) /\ Running(p) /\ op(p) = "commit"
      /\ table' = (table \ owned(p)) \cup (now \cap owned(p))
      /\ Alerts(p) /\ Locks(p) /\ owner[TaskRow] # p
  BY DEF IInv, AlertsInv, LocksInv, Commits, seen
<1>2. /\ Head(todo[p]) \in NoticeStatement /\ Head(todo[p])[1] = "commit"
      /\ Head(todo[p]) \in Agenda(todo[p])
  BY <1>1, HeadOf, KeysOf, FitsRest DEF op
<1>3. CASE handler[p] = "run_task_alerts"
  <2>1. owned(p) \subseteq NoticeKey
    BY <1>1, <1>3 DEF ProcessInv, JobInv
  <2>2. owned(p) \cap NoticeKey \cap table \subseteq now
    BY <1>1, <1>3 DEF Alerts, Removers
  <2>. QED
    BY <1>1, <2>1, <2>2, Parts
<1>4. CASE handler[p] = "admin_delete"
  <2>1. todo'[p] = <<>>
    BY <1>1, <1>4, CommitEnds DEF Job
  <2>2. Agenda(todo[p]) = {Head(todo[p])} \cup Agenda(rest(p))
    BY <1>1, FitsRest, TailAgenda DEF Running, rest
  <2>3. Agenda(rest(p)) = {}
    <3>1. rest(p) = <<>>
      BY <1>1, <2>1 DEF Commits, Typed
    <3>. QED
      BY <3>1, NoneOrOne
  <2>4. \A s \in Agenda(todo[p]) : s[1] # "delete_task"
    BY <1>2, <2>2, <2>3
  <2>5. owned(p) \cap now = {} /\ owned(p) \cap table = {}
    BY <1>1, <1>4, <2>4 DEF Locks, Deleting
  <2>. QED
    BY <1>1, <2>5
<1>5. CASE handler[p] = "admin_change"
  BY <1>1, <1>5 DEF Locks, Saving
<1>. QED
  BY <1>1, <1>2, <1>3, <1>4, <1>5, HeadNotifies DEF Admins

(* The constraint of the database: no commit leaves a child without the    *)
(* task.                                                                   *)
LEMMA ForeignKeyCommits ==
    ASSUME IInv, ForeignKey, NEW p \in Process, Commits(p)
    PROVE  ForeignKey'
<1>1. /\ table' = seen(p) /\ dangling(p) = {} /\ TaskRow \in Key /\ Child \subseteq Key
  BY Parts DEF Commits
<1>2. CASE TaskRow \notin seen(p) /\ owner[TaskRow] = p
  BY <1>1, <1>2 DEF dangling, ForeignKey
<1>3. CASE TaskRow \notin seen(p) /\ owner[TaskRow] # p
  <2>1. newChildren(p) = {}
    BY <1>1, <1>3 DEF dangling
  <2>2. Child \cap table = {}
    BY <1>1, <1>3 DEF seen, owned, ForeignKey
  <2>. QED
    BY <1>1, <2>1, <2>2 DEF ForeignKey, seen, newChildren
<1>. QED
  BY <1>1, <1>2, <1>3 DEF ForeignKey

LEMMA LocksStopped ==
    ASSUME IInv, NEW p \in Process, todo'[p] = <<>>, owned(p)' = {}
    PROVE  Locks(p)'
<1>1. Agenda(todo'[p]) = {} /\ Len(<<>>) = 0
  BY NoneOrOne
<1>2. DropsLast(todo'[p])
  BY <1>1 DEF DropsLast
<1>. QED
  BY <1>1, <1>2 DEF Locks, Saving, Deleting, Telling, Running

LEMMA LocksEnd ==
    ASSUME IInv, AlertsInv, NEW p \in Process, Commits(p) \/ abort(p)
    PROVE  Locks(p)'
<1>1. Typed /\ Alerts(p)
  BY DEF IInv, AlertsInv
<1>2. handler' = handler /\ release(p)
  BY DEF Commits, abort
<1>3. owned(p)' = {}
  BY <1>1, <1>2, ReleasedKeys
<1>4. CASE Commits(p) /\ Job(p)
  BY <1>2, <1>4 DEF Locks, Saving, Deleting, Telling, Job
<1>5. CASE Commits(p) /\ ~ Job(p)
  BY <1>1, <1>3, <1>5, CommitEnds, LocksStopped
<1>6. CASE abort(p)
  <2>1. todo'[p] = <<>>
    BY <1>1, <1>6 DEF abort, next, Typed
  <2>. QED
    BY <1>3, <2>1, LocksStopped
<1>. QED
  BY <1>4, <1>5, <1>6

LEMMA LocksReceive ==
    ASSUME IInv, NEW p \in Process, receive(p)
    PROVE  Locks(p)'
<1>1. /\ handler[p] = "idle" /\ UNCHANGED <<table, now, owner, dead, made, mailed>>
  BY ReceivesAlone
<1>2. owned(p)' = {}
  BY <1>1 DEF IInv, ProcessInv, owned
<1>3. CASE handler'[p] = "change_status"
  <2> DEFINE look == <<"read_watchers", {}>>
  <2>1. look[1] = "read_watchers" /\ Save[1] = "save" /\ Commit[1] = "commit"
    BY DEF Save, Commit
  <2>2. todo'[p] = <<Save, look, Commit>>
    BY <1>3, ReceivesAlone DEF change_status
  <2> HIDE DEF look
  <2>3. Agenda(todo'[p]) = {Save, look, Commit}
    BY <2>1, <2>2, Three
  <2>. QED
    BY <1>3, <2>1, <2>3 DEF Locks, Saving, Deleting, Telling, Reads
<1>4. CASE handler'[p] = "admin_change"
  <2>1. PICK ws \in SUBSET User : todo'[p] = admin_change(ws)
    BY <1>4, ReceivesAlone
  <2> DEFINE set == SetWatchers(ws)
  <2>2. todo'[p] = <<Save, set, Commit>>
    BY <2>1 DEF admin_change
  <2> HIDE DEF set
  <2>3. op(p)' = "save"
    BY <2>2 DEF op, Save
  <2>. QED
    BY <1>4, <2>3 DEF Locks, Saving, Deleting, Telling
<1>5. CASE handler'[p] = "admin_delete"
  <2> DEFINE unwatch == <<"delete", Watchers(User)>>
             prune == <<"delete", NoticeKey>>
             drop == <<"delete_task", {TaskRow}>>
             program == <<unwatch, prune, drop, Commit>>
  <2>1. todo'[p] = program
    BY <1>5, ReceivesAlone DEF admin_delete
  <2>2. /\ unwatch[1] = "delete" /\ prune[1] = "delete" /\ drop[1] = "delete_task"
        /\ Commit[1] = "commit"
    BY DEF Commit
  <2> HIDE DEF unwatch, prune, drop
  <2>3. Agenda(program) = {unwatch, prune, drop, Commit}
    BY <2>2, Four
  <2>4. DropsLast(program)
    BY <2>2 DEF DropsLast
  <2> HIDE DEF program
  <2>5. owned(p)' \cap now' = {}
    BY <1>2
  <2>6. Deleting(p)'
    BY <2>1, <2>2, <2>3, <2>4, <2>5 DEF Deleting
  <2>. QED
    BY <1>5, <2>6 DEF Locks, Saving, Telling
<1>. QED
  BY <1>3, <1>4, <1>5 DEF Locks, Saving, Deleting, Telling

(* The process's own steps, one part of its invariant after the other.     *)
LEMMA OwnSteps ==
    ASSUME IInv, NEW p \in Process, Works(p)
    PROVE  /\ Typed /\ ProcessInv(p) /\ Running(p) /\ Progress(p) /\ op(p) # "commit"
           /\ UNCHANGED <<table, handler>>
           /\ Head(todo[p])[1] = op(p) /\ Head(todo[p])[2] = keys(p)
           /\ Head(todo[p]) \in Statement
           /\ Agenda(todo[p]) = {Head(todo[p])} \cup Agenda(rest(p))
           /\ Agenda(rest(p)) \subseteq Agenda(todo'[p])
           /\ \A x \in Agenda(todo'[p]) : x \in Agenda(rest(p)) \/ Follows(p, x)
           /\ DropsLast(todo[p]) => DropsLast(todo'[p])
           /\ (DropsLast(todo[p]) /\ op(p) = "delete_task") =>
                  \A x \in Agenda(rest(p)) : x[1] = "commit"
           /\ owner[TaskRow] = p => owner'[TaskRow] = p
<1>1. /\ Typed /\ ProcessInv(p) /\ Running(p) /\ Progress(p) /\ op(p) # "commit"
      /\ UNCHANGED <<table, handler>>
  BY DEF IInv, Works
<1>2. /\ Head(todo[p])[1] = op(p) /\ Head(todo[p])[2] = keys(p)
      /\ Head(todo[p]) \in Statement
  BY <1>1, HeadOf DEF op, keys
<1>3. /\ Agenda(todo[p]) = {Head(todo[p])} \cup Agenda(rest(p))
      /\ (DropsLast(todo[p]) /\ op(p) = "delete_task") =>
             \A x \in Agenda(rest(p)) : x[1] = "commit"
  <2>1. todo[p] \in Seq(Stmt) /\ todo[p] # <<>>
    BY <1>1, FitsRest DEF Running
  <2>. QED
    BY <1>2, <2>1, TailAgenda DEF rest
<1>4. PICK s : Fits(p, s) /\ todo' = [todo EXCEPT ![p] = s]
  BY DEF Works
<1>5. todo'[p] = s
  BY <1>1, <1>4 DEF Typed
<1>6. owner[TaskRow] = p => owner'[TaskRow] = p
  BY <1>1, Parts DEF Works, Grabs, take, Typed
<1>. QED
  BY <1>1, <1>2, <1>3, <1>4, <1>5, <1>6 DEF Fits

LEMMA SavingWorks ==
    ASSUME IInv, NEW p \in Process, Saving(p), Works(p)
    PROVE  Saving(p)'
<1> SUFFICES ASSUME handler[p] = "admin_change", owner'[TaskRow] # p
             PROVE  op(p)' = "insert_task"
  BY OwnSteps DEF Saving
<1>1. op(p) \in {"save", "insert_task"}
  BY OwnSteps DEF Saving
<1>. QED
  BY <1>1, OwnSteps DEF Progress, op

LEMMA DeletingWorks ==
    ASSUME IInv, ForeignKey, NEW p \in Process, Deleting(p), Works(p)
    PROVE  Deleting(p)'
<1> SUFFICES ASSUME handler[p] = "admin_delete" PROVE Deleting(p)'
  BY OwnSteps DEF Deleting
<1>1. /\ \A s \in Agenda(todo[p]) :
             s[1] \in {"delete", "remove", "delete_task", "commit"}
      /\ DropsLast(todo[p]) /\ owned(p) \cap now = {}
      /\ \/ \E s \in Agenda(todo[p]) : s[1] = "delete_task"
         \/ \A s \in Agenda(todo[p]) : s[1] = "commit"
  BY DEF Deleting
<1>2. op(p) \in {"delete", "remove", "delete_task"}
  BY <1>1, OwnSteps
<1>3. /\ \A x \in Agenda(todo'[p]) :
             x[1] \in {"delete", "remove", "delete_task", "commit"}
      /\ DropsLast(todo'[p])
  BY <1>1, <1>2, OwnSteps DEF Follows
<1>4. owned(p)' \cap now' = {}
      /\ (UNCHANGED <<owner, now>> \/ op(p) # "delete_task" \/ owner'[TaskRow] = p)
  <2>1. CASE UNCHANGED <<owner, now>>
    BY <1>1, <2>1 DEF owned
  <2>2. CASE \E k \in keys(p), there \in BOOLEAN : Grabs(p, k, there)
    <3>1. PICK k \in keys(p), there \in BOOLEAN : Grabs(p, k, there)
      BY <2>2
    <3>2. /\ owner' = [owner EXCEPT ![k] = p] /\ now' = now \ {k} /\ k \in Key
      BY <1>2, <3>1 DEF Grabs, take
    <3>3. owned(p)' = owned(p) \cup {k} /\ owner'[k] = p
      BY <3>2, OwnSteps DEF owned, Typed
    <3>4. op(p) = "delete_task" => k = TaskRow
      BY <3>1, OwnSteps, KeysOf
    <3>. QED
      BY <1>1, <3>2, <3>3, <3>4
  <2>. QED
    BY <2>1, <2>2 DEF Works
<1>5. CASE op(p) = "delete_task"
  <2>1. \A x \in Agenda(todo'[p]) : x[1] = "commit"
    BY <1>1, <1>5, OwnSteps DEF Follows
  <2>2. owner'[TaskRow] = p \/ owned(p)' \cap table' = {}
    <3> SUFFICES ASSUME owner'[TaskRow] # p PROVE owned(p)' \cap table' = {}
      OBVIOUS
    <3>1. TaskRow \notin seen(p) /\ owner[TaskRow] # p /\ UNCHANGED <<owner, table>>
      BY <1>4, <1>5, OwnSteps DEF Progress
    <3>2. TaskRow \notin table /\ TaskRow \notin owned(p)
      BY <3>1, Parts DEF seen, owned
    <3>3. owned(p)' \subseteq Child
      BY <3>1, <3>2 DEF owned, Key
    <3>. QED
      BY <3>1, <3>2, <3>3 DEF ForeignKey
  <2>. QED
    BY <1>3, <1>4, <2>1, <2>2 DEF Deleting
<1>6. CASE op(p) # "delete_task"
  <2>1. \E s \in Agenda(todo'[p]) : s[1] = "delete_task"
    BY <1>1, <1>2, <1>6, OwnSteps
  <2>. QED
    BY <1>3, <1>4, <2>1 DEF Deleting
<1>. QED
  BY <1>5, <1>6

(* No notice that a change of status sees or is going to see to gets lost. *)
LEMMA CoversWorks ==
    ASSUME IInv, AlertsInv, NEW p \in Process, Telling(p), Works(p),
           handler[p] = "change_status",
           NEW k \in NoticeKey, k \in seen(p) \cup Pending(p)
    PROVE  k \in seen(p)' \cup Pending(p)'
<1>1. Pending(p)' = PendingIn(todo'[p])
  BY DEF Pending
<1>2. \A j \in seen(p) \cap NoticeKey : j \in seen(p)'
  <2>1. CASE UNCHANGED <<owner, now>>
    BY <2>1, OwnSteps DEF seen, owned
  <2>2. CASE \E j \in keys(p), there \in BOOLEAN : Grabs(p, j, there)
    <3>1. PICK j \in keys(p), there \in BOOLEAN : Grabs(p, j, there)
      BY <2>2
    <3>2. /\ owner' = [owner EXCEPT ![j] = p] /\ j \in Key
          /\ now' = IF there THEN now \cup {j} ELSE now \ {j}
          /\ ~ there => op(p) \in {"delete_task", "remove"}
      BY <3>1 DEF Grabs, take
    <3>3. owned(p)' = owned(p) \cup {j}
      BY <3>2, OwnSteps DEF owned, Typed
    <3>4. ~ there => j \notin NoticeKey
      <4>1. op(p) = "remove" => keys(p) \subseteq Watchers(User)
        BY OwnSteps DEF AlertsInv, Alerts, Removers
      <4>. QED
        BY <3>2, <4>1, OwnSteps, KeysOf, Parts
    <3>. QED
      BY <3>2, <3>3, <3>4, OwnSteps DEF seen
  <2>. QED
    BY <2>1, <2>2 DEF Works
<1>3. CASE k \in seen(p)
  BY <1>2, <1>3
<1>4. CASE k \in Pending(p)
  <2>1. PICK x \in Agenda(todo[p]) :
            x[1] \in {"tell", "insert", "get_again"} /\ k \in x[2]
    BY <1>4 DEF Pending, PendingIn
  <2>2. CASE x \in Agenda(rest(p))
    BY <1>1, <2>1, <2>2, OwnSteps DEF PendingIn
  <2>3. CASE x = Head(todo[p])
    <3>1. op(p) \in {"tell", "insert", "get_again"} /\ k \in keys(p)
      BY <2>1, <2>3, OwnSteps
    <3>2. CASE op(p) = "tell"
      BY <1>1, <1>2, <3>1, <3>2, OwnSteps DEF Progress
    <3>3. CASE op(p) = "get_again"
      BY <1>2, <3>1, <3>3, OwnSteps DEF Progress
    <3>4. CASE op(p) = "insert"
      <4>1. keys(p) = {first(keys(p))}
        BY <2>3, <3>4, OwnSteps DEF Telling
      <4>2. k = first(keys(p))
        BY <3>1, <4>1
      <4>3. CASE k \in seen(p)
        BY <1>2, <4>3
      <4>4. CASE k \notin seen(p)
        <5>1. PICK j \in keys(p), there \in BOOLEAN : Grabs(p, j, there)
          BY <3>4, <4>2, <4>4 DEF Works
        <5>2. /\ owner' = [owner EXCEPT ![k] = p] /\ k \in Key
              /\ now' = now \cup {k}
          BY <3>4, <4>2, <5>1 DEF Grabs, take
        <5>3. k \in owned(p)'
          BY <5>2, OwnSteps DEF owned, Typed
        <5>. QED
          BY <5>2, <5>3 DEF seen
      <4>. QED
        BY <4>3, <4>4
    <3>. QED
      BY <3>1, <3>2, <3>3, <3>4
  <2>. QED
    BY <2>2, <2>3, OwnSteps
<1>. QED
  BY <1>3, <1>4

LEMMA TellingWorks ==
    ASSUME IInv, AlertsInv, NEW p \in Process, Telling(p), Works(p)
    PROVE  Telling(p)'
<1> SUFFICES ASSUME handler[p] = "change_status" PROVE Telling(p)'
  BY OwnSteps DEF Telling
<1>1. /\ \A s \in Agenda(todo[p]) :
             s[1] \in {"insert", "get_again"} => s[2] = {first(s[2])}
      /\ \E s \in Agenda(todo[p]) : s[1] = "commit"
      /\ Reads(p) \/ (owner[TaskRow] = p /\ Covered(p))
  BY OwnSteps DEF Telling
<1>2. \A s \in Agenda(todo'[p]) :
          s[1] \in {"insert", "get_again"} => s[2] = {first(s[2])}
  <2> SUFFICES ASSUME NEW x \in Agenda(todo'[p]), x[1] \in {"insert", "get_again"}
               PROVE  x[2] = {first(x[2])}
    OBVIOUS
  <2>1. CASE x \in Agenda(rest(p))
    BY <1>1, <2>1, OwnSteps
  <2>2. CASE Follows(p, x)
    <3>1. PICK k : x[2] = {k}
      BY <2>2 DEF Follows
    <3>. QED
      BY <3>1, FirstOfOne
  <2>. QED
    BY <2>1, <2>2, OwnSteps
<1>3. \E s \in Agenda(todo'[p]) : s[1] = "commit"
  BY <1>1, OwnSteps
<1>4. CASE owner[TaskRow] = p /\ Covered(p)
  <2>1. owner'[TaskRow] = p
    BY <1>4, OwnSteps
  <2>2. Covered(p)'
    <3> SUFFICES ASSUME NEW u \in User, <<"watcher", u>> \in table'
                 PROVE  <<"status_changed", u>> \in seen(p)' \cup Pending(p)'
      BY DEF Covered
    <3> DEFINE k == <<"status_changed", u>>
    <3>1. k \in NoticeKey /\ k \in seen(p) \cup Pending(p)
      BY <1>4, OwnSteps, WatchedBy DEF Covered
    <3> HIDE DEF k
    <3>2. k \in seen(p)' \cup Pending(p)'
      BY <3>1, CoversWorks
    <3>. QED
      BY <3>2 DEF k
  <2>. QED
    BY <1>2, <1>3, <2>1, <2>2 DEF Telling
<1>5. CASE Reads(p) /\ op(p) = "read_watchers"
  <2>1. Head(todo[p]) \in NoticeStatement
    BY <1>5, OwnSteps, KeysOf
  <2>2. owner[TaskRow] = p /\ owner'[TaskRow] = p
    BY <2>1, OwnSteps, HeadNotifies DEF Admins
  <2>3. owned(p) \cap Watchers(User) = {}
    BY OwnSteps DEF ProcessInv, WatcherWriters, Admins
  <2>4. Covered(p)'
    <3> SUFFICES ASSUME NEW u \in User, <<"watcher", u>> \in table'
                 PROVE  <<"status_changed", u>> \in Pending(p)'
      BY DEF Covered
    <3>1. <<"watcher", u>> \in seen(p)
      BY <2>3, OwnSteps, WatchedBy DEF seen
    <3>. QED
      BY <1>5, <3>1, OwnSteps DEF Progress, Pending
  <2>. QED
    BY <1>2, <1>3, <2>2, <2>4 DEF Telling
<1>6. CASE Reads(p) /\ op(p) # "read_watchers"
  <2>1. Reads(p)'
    BY <1>6, OwnSteps DEF Reads
  <2>. QED
    BY <1>2, <1>3, <2>1 DEF Telling
<1>. QED
  BY <1>1, <1>4, <1>5, <1>6

LEMMA LocksInit == ASSUME Init PROVE LocksInv
<1>1. ForeignKey
  BY DEF Init, ForeignKey
<1>2. ASSUME NEW p \in Process PROVE Locks(p)
  BY <1>2 DEF Init, Locks, Saving, Deleting, Telling
<1>. QED
  BY <1>1, <1>2 DEF LocksInv

LEMMA LocksNext ==
    ASSUME IInv, AlertsInv, LocksInv, [Next]_vars
    PROVE  LocksInv'
<1>1. ASSUME NEW p \in Process, Works(p) \/ (Running(p) /\ abort(p)) \/ receive(p)
      PROVE  LocksInv'
  <2>1. UNCHANGED table
    BY <1>1, ReceivesAlone DEF Works, abort
  <2>2. ASSUME NEW q \in Process \ {p} PROVE Locks(q)'
    <3>1. LeavesAlone(q)
      BY <1>1, OthersAlone, ReceivesAlone
    <3>2. Spares(q)
      BY <2>1 DEF Spares
    <3>. QED
      BY <3>1, <3>2, LocksAlone DEF LocksInv
  <2>3. ASSUME Works(p) PROVE Locks(p)'
    <3>1. Saving(p) /\ Deleting(p) /\ Telling(p)
      BY DEF LocksInv, Locks
    <3>2. Saving(p)' /\ Deleting(p)' /\ Telling(p)'
      BY <2>3, <3>1, SavingWorks, DeletingWorks, TellingWorks DEF LocksInv
    <3>. QED
      BY <3>2 DEF Locks
  <2>4. Locks(p)'
    BY <1>1, <2>3, LocksEnd, LocksReceive
  <2>. QED
    BY <2>1, <2>2, <2>4 DEF LocksInv, ForeignKey
<1>2. ASSUME NEW p \in Process, Commits(p) PROVE LocksInv'
  <2>1. ASSUME NEW q \in Process \ {p} PROVE Locks(q)'
    BY <1>2, OthersAlone, CommitSpares, LocksAlone DEF LocksInv
  <2>. QED
    BY <1>2, <2>1, ForeignKeyCommits, LocksEnd DEF LocksInv
<1>3. CASE UNCHANGED <<table, now, owner, handler, todo, dead, made, mailed>>
  <2>1. ASSUME NEW q \in Process PROVE Locks(q)'
    <3>1. LeavesAlone(q) /\ Spares(q)
      BY <1>3 DEF LeavesAlone, Spares, owned
    <3>. QED
      BY <3>1, LocksAlone DEF LocksInv
  <2>. QED
    BY <1>3, <2>1 DEF LocksInv, ForeignKey
<1>. QED
  BY <1>1, <1>2, <1>3, NextWorks

\* One change of status that has come to its end.
LEMMA CommitTells ==
    ASSUME IInv, AlertsInv, LocksInv, NEW p \in Process, Commits(p),
           handler[p] = "change_status",
           NEW u \in User, <<"watcher", u>> \in table'
    PROVE  <<"status_changed", u>> \in table'
<1>1. /\ Typed /\ ProcessInv(p) /\ Running(p) /\ op(p) = "commit"
      /\ table' = seen(p) /\ Alerts(p) /\ Telling(p) /\ ~ Job(p)
  BY DEF IInv, AlertsInv, LocksInv, Locks, Commits, Job
<1>2. Agenda(todo[p]) = {Head(todo[p])} /\ Head(todo[p])[1] = "commit"
  <2>1. todo'[p] = <<>>
    BY <1>1, CommitEnds
  <2>2. rest(p) = <<>>
    BY <1>1, <2>1 DEF Commits, Typed
  <2>3. Agenda(todo[p]) = {Head(todo[p])} \cup Agenda(rest(p))
    BY <1>1, FitsRest, TailAgenda DEF Running, rest
  <2>. QED
    BY <1>1, <2>2, <2>3, NoneOrOne DEF op
<1>3. ~ Reads(p) /\ Pending(p) = {}
  BY <1>2 DEF Reads, Pending, PendingIn
<1>4. Covered(p)
  BY <1>1, <1>3 DEF Telling
<1>5. <<"watcher", u>> \in table
  <2>1. owned(p) \cap Watchers(User) = {}
    BY <1>1 DEF ProcessInv, WatcherWriters, Admins
  <2>. QED
    BY <1>1, <2>1, WatchedBy DEF seen
<1>. QED
  BY <1>1, <1>3, <1>4, <1>5 DEF Covered

(* Whatever else is going on, a change of status that commits leaves a     *)
(* notice for everybody who watches the task at that moment: every other   *)
(* transaction that writes the watchers, or takes notices away, either has *)
(* committed before the row was locked or waits for it.                    *)
THEOREM WatchersAlwaysTold == Spec => WatchersToldAtCommit
<1>1. ASSUME IInv, AlertsInv, LocksInv, [Next]_vars, NEW p \in Process,
             Ends(p), handler[p] = "change_status", p \notin dead',
             NEW u \in User, <<"watcher", u>> \in table'
      PROVE  <<"status_changed", u>> \in table'
  <2>1. Running(p) /\ todo'[p] = <<>>
    BY <1>1 DEF Ends
  <2>2. Commits(p)
    <3>1. ~ LeavesAlone(p)
      BY <2>1 DEF LeavesAlone, Running
    <3>2. ~ UNCHANGED todo
      BY <2>1 DEF Running
    <3>3. ASSUME NEW q \in Process, receive(q) PROVE FALSE
      BY <1>1, <3>1, <3>3, ReceivesAlone
    <3>4. PICK q \in Process : Works(q) \/ Commits(q) \/ (Running(q) /\ abort(q))
      BY <1>1, <3>2, <3>3, NextWorks
    <3>5. q = p
      BY <1>1, <3>1, <3>4, OthersAlone
    <3>6. ~ abort(p)
      BY <1>1 DEF abort
    <3>7. ~ Works(p)
      <4> SUFFICES ASSUME Works(p) PROVE FALSE
        OBVIOUS
      <4>1. \E s \in Agenda(todo'[p]) : s[1] = "commit"
        BY <1>1, <2>1, OwnSteps DEF LocksInv, Locks, Telling
      <4>. QED
        BY <2>1, <4>1, NoneOrOne
    <3>. QED
      BY <3>4, <3>5, <3>6, <3>7
  <2>. QED
    BY <1>1, <2>2, CommitTells
<1>2. ASSUME IInv, AlertsInv, LocksInv, [Next]_vars
      PROVE  [\A p \in Process :
                 (Ends(p) /\ handler[p] = "change_status" /\ p \notin dead')
                     => \A u \in User : <<"watcher", u>> \in table'
                            => <<"status_changed", u>> \in table']_vars
  BY <1>1, <1>2
<1>. QED
  BY <1>2, AlertsInit, LocksInit, AlertsNext, LocksNext, Invariance, PTL
     DEF Spec, WatchersToldAtCommit
=============================================================================
