---------------------------- MODULE DashboardProofs ----------------------------
(***************************************************************************)
(* Proofs about Dashboard and Lists, for every table of any finite number  *)
(* of tasks, users and branches.                                           *)
(***************************************************************************)
EXTENDS Lists, FiniteSetTheorems, SequenceTheorems, WellFoundedInduction, TLAPS

-----------------------------------------------------------------------------
(* Sums over a finite set.  SumFunction is defined by recursion over the   *)
(* subsets of the domain; any G that satisfies the same equations is it.   *)
LEMMA SubsetInduction ==
    ASSUME NEW S, IsFiniteSet(S), NEW X,
           \A T \in SUBSET S : (\A U \in SUBSET T : U # T => U \in X) => T \in X
    PROVE  \A T \in SUBSET S : T \in X
<1> DEFINE Bad == {T \in SUBSET S : T \notin X}
<1> SUFFICES ASSUME Bad # {} PROVE FALSE
  OBVIOUS
<1> DEFINE R == StrictSubsetOrdering(S)
<1>1. IsWellFoundedOn(R, SUBSET S)
  <2>1. FiniteSubsetsOf(S) = SUBSET S
    BY FS_FiniteSubsetsOfFinite
  <2>2. IsWellFoundedOn(StrictSubsetOrdering(S), FiniteSubsetsOf(S))
    BY FS_StrictSubsetOrderingWellFounded
  <2>. QED
    BY <2>1, <2>2
<1>2. PICK T \in Bad : \A U \in Bad : <<U, T>> \notin R
  <2>1. Bad \subseteq SUBSET S
    OBVIOUS
  <2> HIDE DEF R, Bad
  <2>. QED
    BY <1>1, <2>1, WFMin
<1>3. \A U \in SUBSET T : U # T => U \in X
  BY <1>2 DEF StrictSubsetOrdering
<1>. QED
  BY <1>2, <1>3

SumsUp(G, f) ==
    /\ G = [s \in SUBSET DOMAIN f |-> G[s]]
    /\ G[{}] = 0
    /\ \A s \in SUBSET DOMAIN f : \A x \in s : G[s] = f[x] + G[s \ {x}]

LEMMA SumsAreUnique ==
    ASSUME NEW f, IsFiniteSet(DOMAIN f), NEW G, SumsUp(G, f)
    PROVE  SumFunction(f) = G[DOMAIN f]
<1> DEFINE D == DOMAIN f
           pick(s) == CHOOSE x \in s : TRUE
           Fold(h) == h = [s \in SUBSET D |->
                             IF s = {} THEN 0 ELSE f[pick(s)] + h[s \ {pick(s)}]]
           iter == CHOOSE h : Fold(h)
<1>1. SumFunction(f) = iter[D]
  BY DEF SumFunction, SumFunctionOnSet, FoldFunctionOnSet, MapThenFoldSet
<1>2. \A s \in SUBSET D : s # {} => pick(s) \in s
  OBVIOUS
<1>3. Fold(G)
  BY <1>2 DEF SumsUp
<1>4. Fold(iter)
  <2> HIDE DEF Fold
  <2>. QED
    BY <1>3
<1>. QED
  <2> DEFINE X == {s \in SUBSET D : iter[s] = G[s]}
  <2> HIDE DEF iter
  <2>1. ASSUME NEW T \in SUBSET D, \A U \in SUBSET T : U # T => U \in X
        PROVE  T \in X
    <3>1. CASE T = {}
      BY <1>4, <3>1 DEF SumsUp
    <3>2. CASE T # {}
      <4>1. pick(T) \in T
        BY <3>2
      <4>2. T \ {pick(T)} \in X
        BY <2>1, <4>1
      <4> DEFINE p == pick(T)
      <4>3. iter[T] = f[p] + iter[T \ {p}]
        BY <1>4, <3>2
      <4>4. G[T] = f[p] + G[T \ {p}]
        BY <4>1 DEF SumsUp
      <4>. QED
        BY <4>2, <4>3, <4>4
    <3>. QED
      BY <3>1, <3>2
  <2>2. D \in X
    <3> HIDE DEF X
    <3>. QED
      BY <2>1, SubsetInduction
  <2>. QED
    BY <1>1, <2>2

(* A finite set is as large as its parts together, when each element has   *)
(* one of finitely many labels g[x] and c counts the elements of a label.  *)
LEMMA PartsAddUp ==
    ASSUME NEW S, IsFiniteSet(S), NEW D, IsFiniteSet(D), NEW g \in [S -> D],
           NEW c, DOMAIN c = D,
           \A d \in D : c[d] = Cardinality({x \in S : g[x] = d})
    PROVE  SumFunction(c) = Cardinality(S)
<1> DEFINE Part(s) == {x \in S : g[x] \in s}
           G == [s \in SUBSET D |-> Cardinality(Part(s))]
<1>1. \A s \in SUBSET D : IsFiniteSet(Part(s)) /\ Cardinality(Part(s)) \in Int
  BY FS_Subset, FS_CardinalityType
<1>2. G[{}] = 0
  BY <1>1, FS_EmptySet
<1>3. ASSUME NEW s \in SUBSET D, NEW x \in s
      PROVE  G[s] = c[x] + G[s \ {x}]
  <2>1. /\ Part(s) = Part({x}) \cup Part(s \ {x})
        /\ Part({x}) \cap Part(s \ {x}) = {}
    BY <1>3
  <2>2. Cardinality(Part(s)) = Cardinality(Part({x})) + Cardinality(Part(s \ {x}))
    <3> DEFINE A == Part({x})
               B == Part(s \ {x})
    <3>1. IsFiniteSet(A) /\ IsFiniteSet(B)
      BY <1>1
    <3>2. Cardinality(A) \in Int /\ Cardinality(B) \in Int
      BY <1>1
    <3>3. Cardinality(A \cup B) = Cardinality(A) + Cardinality(B) - Cardinality(A \cap B)
      <4> HIDE DEF A, B
      <4>. QED
        BY <3>1, FS_Union
    <3>4. Part(s) = A \cup B /\ Cardinality(A \cap B) = 0
      BY <2>1, FS_EmptySet
    <3> HIDE DEF Part
    <3>. QED
      BY <3>2, <3>3, <3>4
  <2>3. c[x] = Cardinality(Part({x}))
    <3>1. Part({x}) = {y \in S : g[y] = x}
      OBVIOUS
    <3>. QED
      BY <3>1
  <2>4. Cardinality(Part({x})) \in Int /\ Cardinality(Part(s \ {x})) \in Int
    BY <1>1
  <2> HIDE DEF Part
  <2>. QED
    BY <2>2, <2>3, <2>4
<1>4. Part(D) = S
  OBVIOUS
<1>5. SumsUp(G, c)
  BY <1>2, <1>3 DEF SumsUp
<1>6. SumFunction(c) = G[D]
  <2> HIDE DEF G
  <2>. QED
    BY <1>5, SumsAreUnique
<1>. QED
  BY <1>4, <1>6

-----------------------------------------------------------------------------
(* The table.                                                              *)
LEMMA RowType == ASSUME TypeOK, NEW t \in All PROVE t \in Task /\ table[t] \in TaskRow
BY DEF TypeOK, All

\* A write of one row keeps the type of the table.
LEMMA WriteKeepsType ==
    ASSUME TypeOK, NEW t \in Task, NEW row,
           \/ row = NoRow
           \/ /\ row \in TaskRow /\ row.created_at <= today
              /\ row.completed_at \in
                     IF row.status = "done" THEN 0 .. today ELSE {None},
           table' = [table EXCEPT ![t] = row], UNCHANGED today
    PROVE  TypeOK'
BY DEF TypeOK

LEMMA NextType == ASSUME TypeOK, [Next]_vars PROVE TypeOK'
<1>1. ASSUME NEW t \in Task, NEW s \in Status, NEW completed, insert(t, s, completed),
             completed \in IF s = "done" THEN 0 .. today ELSE {None}
      PROVE  TypeOK'
  <2>1. PICK a \in Assignee, b \in Branch, d \in DueInput, p \in PriorityInput :
           table' = [table EXCEPT ![t] =
                       [status |-> s, priority |-> p, assignee |-> a,
                        branch |-> b, due_date |-> d, created_at |-> today,
                        completed_at |-> completed]]
    BY <1>1 DEF insert
  <2>2. /\ p \in 1 .. 4 /\ today \in 0 .. LastDay /\ today <= today
        /\ completed \in (0 .. LastDay) \cup {None}
    BY <1>1, Bounds DEF TypeOK
  <2>. QED
    BY <1>1, <2>1, <2>2, WriteKeepsType DEF insert, TaskRow
<1>2. ASSUME NEW t \in Task, NEW s \in Status, change_status(t, s) PROVE TypeOK'
  <2> DEFINE row == [table[t] EXCEPT !.status = s,
                                     !.completed_at = IF s = "done" THEN today ELSE None]
  <2>1. table[t] \in TaskRow /\ table[t].created_at <= today
    BY <1>2 DEF change_status, TypeOK
  <2>2. row \in TaskRow /\ row.created_at = table[t].created_at
    BY <2>1 DEF TaskRow, TypeOK
  <2>3. row.status = s /\ row.completed_at = IF s = "done" THEN today ELSE None
    BY <2>1 DEF TaskRow
  <2>4. row.completed_at \in
            IF row.status = "done" THEN 0 .. today ELSE {None}
    BY <2>1, <2>2, <2>3, Bounds DEF TaskRow, TypeOK
  <2>5. table' = [table EXCEPT ![t] = row] /\ UNCHANGED today
    BY <1>2 DEF change_status
  <2> HIDE DEF row
  <2>. QED
    BY <2>1, <2>2, <2>4, <2>5, WriteKeepsType
<1>3. ASSUME NEW t \in Task, NEW a \in Assignee, assign_task(t, a) PROVE TypeOK'
  <2> DEFINE row == [table[t] EXCEPT !.assignee = a]
  <2>1. table[t] \in TaskRow /\ table[t].created_at <= today
    BY <1>3 DEF assign_task, TypeOK
  <2>2. /\ row \in TaskRow /\ row.created_at = table[t].created_at
        /\ row.status = table[t].status /\ row.completed_at = table[t].completed_at
    BY <2>1 DEF TaskRow
  <2>3. table' = [table EXCEPT ![t] = row] /\ UNCHANGED today
    BY <1>3 DEF assign_task
  <2> HIDE DEF row
  <2>4. row.completed_at \in
            IF row.status = "done" THEN 0 .. today ELSE {None}
    BY <1>3, <2>2 DEF assign_task, TypeOK
  <2>. QED
    BY <2>1, <2>2, <2>3, <2>4, WriteKeepsType
<1>4. ASSUME NEW t \in Task, update_task_fields(t) PROVE TypeOK'
  <2>1. PICK d \in DueInput, p \in PriorityInput :
           table' = [table EXCEPT ![t].due_date = d, ![t].priority = p]
    BY <1>4 DEF update_task_fields
  <2> DEFINE row == [table[t] EXCEPT !.due_date = d, !.priority = p]
  <2>2. table[t] \in TaskRow /\ table[t].created_at <= today /\ p \in 1 .. 4
    BY <1>4, Bounds DEF update_task_fields, TypeOK
  <2>3. /\ row \in TaskRow /\ row.created_at = table[t].created_at
        /\ row.status = table[t].status /\ row.completed_at = table[t].completed_at
    BY <2>2 DEF TaskRow
  <2>4. table' = [table EXCEPT ![t] = row] /\ UNCHANGED today
    BY <1>4, <2>1 DEF update_task_fields
  <2> HIDE DEF row
  <2>5. row.completed_at \in
            IF row.status = "done" THEN 0 .. today ELSE {None}
    BY <1>4, <2>3 DEF update_task_fields, TypeOK
  <2>. QED
    BY <2>2, <2>3, <2>4, <2>5, WriteKeepsType
<1>5. ASSUME NEW t \in Task, admin_delete(t) PROVE TypeOK'
  BY <1>5, WriteKeepsType DEF admin_delete
<1>6. CASE midnight
  <2>1. today' \in 0 .. LastDay /\ today' = today + 1 /\ today \in Int
    BY <1>6, Bounds DEF midnight, TypeOK
  <2>2. ASSUME NEW t \in Task, table[t] # NoRow
        PROVE  /\ table[t].created_at <= today'
               /\ table[t].completed_at \in
                      IF table[t].status = "done" THEN 0 .. today'
                      ELSE {None}
    <3>1. /\ table[t].created_at \in Int /\ table[t].created_at <= today
          /\ table[t].completed_at \in
                 IF table[t].status = "done" THEN 0 .. today ELSE {None}
      BY <2>2 DEF TypeOK, TaskRow
    <3>. QED
      BY <2>1, <3>1
  <2>. QED
    BY <1>6, <2>1, <2>2 DEF midnight, TypeOK
<1>7. CASE UNCHANGED vars
  BY <1>7 DEF vars, TypeOK
<1>8. ASSUME NEW t \in Task, create_task(t) \/ admin_add(t) PROVE TypeOK'
  BY <1>1, <1>8 DEF create_task, admin_add, Status, ACTIVE_STATUSES
<1>9. ASSUME NEW t \in Task, admin_revert(t) PROVE TypeOK'
  <2>1. PICK s \in Status, completed \in 0 .. today, created \in 0 .. today :
            LET stamp == IF s = "done" THEN completed ELSE None
            IN  \/ insert(t, s, stamp)
                \/ /\ table[t] # NoRow
                   /\ table' = [table EXCEPT ![t].status = s,
                                             ![t].completed_at = stamp,
                                             ![t].created_at = created]
                   /\ UNCHANGED today
    BY <1>9 DEF admin_revert
  <2> DEFINE stamp == IF s = "done" THEN completed ELSE None
             row == [table[t] EXCEPT !.status = s, !.completed_at = stamp,
                                     !.created_at = created]
  <2>2. stamp \in IF s = "done" THEN 0 .. today ELSE {None}
    OBVIOUS
  <2>3. CASE insert(t, s, stamp)
    <3> HIDE DEF stamp
    <3>. QED
      BY <1>1, <2>2, <2>3
  <2>4. CASE ~ insert(t, s, stamp)
    <3>1. /\ table[t] # NoRow /\ UNCHANGED today
          /\ table' = [table EXCEPT ![t] = row]
      BY <2>1, <2>4
    <3>2. table[t] \in TaskRow
      BY <3>1 DEF TypeOK
    <3>3. /\ created \in 0 .. LastDay /\ created <= today
          /\ stamp \in (0 .. LastDay) \cup {None}
      BY Bounds DEF TypeOK
    <3> HIDE DEF stamp
    <3>4. /\ row \in TaskRow /\ row.created_at = created
          /\ row.status = s /\ row.completed_at = stamp
      BY <3>2, <3>3 DEF TaskRow
    <3> HIDE DEF row
    <3>. QED
      BY <2>2, <3>1, <3>3, <3>4, WriteKeepsType
  <2>. QED
    BY <2>3, <2>4
<1>. QED
  BY <1>2, <1>3, <1>4, <1>5, <1>6, <1>7, <1>8, <1>9 DEF Next

(* Every table and every day the services and the calendar come to has its *)
(* type: no stamp is of the future, and a task has a time of completion    *)
(* just when it is done (tasks/services.py 57-72).                         *)
THEOREM TypeCorrect == Spec => []TypeOK
<1>1. Init => TypeOK
  BY Bounds DEF Init, TypeOK
<1>. QED
  BY <1>1, NextType, PTL DEF Spec

-----------------------------------------------------------------------------
(* Who is cancelled was not done, and nobody else is touched.              *)
LEMMA CancelLeavesDone ==
    ASSUME TypeOK, NEW c \in Task, change_status(c, "cancelled")
    PROVE  today' = today /\ Done' = Done /\ \A t \in Done : table'[t] = table[t]
<1>1. table \in [Task -> TaskRow \cup {NoRow}] /\ table[c] \in TaskRow
  BY DEF TypeOK, change_status
<1>2. table[c].status # "done"
  BY <1>1 DEF change_status, TRANSITIONS, TaskRow, Status
<1>3. /\ table'[c] # NoRow /\ table'[c].status = "cancelled"
      /\ \A x \in Task : x # c => table'[x] = table[x]
  <2> DEFINE row == [table[c] EXCEPT !.status = "cancelled", !.completed_at = None]
  <2>1. table' = [table EXCEPT ![c] = row]
    BY DEF change_status
  <2>2. row \in TaskRow /\ row.status = "cancelled"
    BY <1>1 DEF TaskRow, Status
  <2> HIDE DEF row
  <2>. QED
    BY <1>1, <2>1, <2>2, NoRowIsNotARow
<1>4. Done' = Done
  BY <1>1, <1>2, <1>3 DEF Done, All
<1>. QED
  BY <1>2, <1>3, <1>4 DEF Done, All, change_status

(* "cancelled is excluded from both numerator and denominator"             *)
(* (tasks/selectors.py 248): no request that cancels a task changes the    *)
(* on-time rate or the average time to close, for any number of tasks.     *)
THEOREM CancelsKeepKpis == Spec => CancelKeepsKpis
<1> DEFINE Kept == /\ kpi_on_time_closure_rate' = kpi_on_time_closure_rate
                   /\ kpi_avg_days_to_close' = kpi_avg_days_to_close
<1>1. ASSUME TypeOK, Next, Cancels PROVE Kept
  <2>1. today' = today /\ Done' = Done /\ \A t \in Done : table'[t] = table[t]
    BY <1>1, CancelLeavesDone DEF Cancels
  <2>2. kpi_on_time_closure_rate' = kpi_on_time_closure_rate
    <3> DEFINE due == {t \in Done : table[t].due_date # None}
               on_time == {t \in due : table[t].completed_at <= table[t].due_date}
    <3>1. due' = due /\ on_time' = on_time
      BY <2>1
    <3>. QED
      BY <3>1 DEF kpi_on_time_closure_rate, CountBy
  <2>3. kpi_avg_days_to_close' = kpi_avg_days_to_close
    <3> DEFINE S == {t \in Done : table[t].completed_at >= today - KpiDays}
               f == [t \in S |-> Duration(t)]
    <3>1. S' = S /\ f' = f
      BY <2>1 DEF Duration
    <3>. QED
      BY <3>1 DEF kpi_avg_days_to_close, Average
  <2>. QED
    BY <2>2, <2>3
<1>2. TypeOK /\ [Next]_vars => [Cancels => Kept]_vars
  <2> HIDE DEF Kept
  <2>. QED
    BY <1>1
<1>. QED
  BY <1>2, TypeCorrect, PTL DEF Spec, CancelKeepsKpis

-----------------------------------------------------------------------------
(* The tasks that queries single out.                                      *)
Late == {t \in All : ~ Inactive(t) /\ DueBefore(t, today)}
OpenTasks == {t \in All : ~ Inactive(t)}

LEMMA SetsAreFinite ==
    ASSUME NEW S, S \subseteq Task
    PROVE  IsFiniteSet(S) /\ Cardinality(S) \in Nat
BY TablesAreFinite, FS_Subset, FS_CardinalityType

LEMMA ActiveOrNot ==
    ASSUME TypeOK, NEW t \in All
    PROVE  table[t].status \in ACTIVE_STATUSES <=> ~ Inactive(t)
<1>1. table[t].status \in Status
  BY RowType DEF TaskRow
<1>. QED
  BY <1>1 DEF Inactive, Status, ACTIVE_STATUSES, INACTIVE_STATUSES

LEMMA OverdueListed ==
    apply_query_params([NoParams EXCEPT !.overdue = "1"]) = Late
BY DEF apply_query_params, filter_tasks, NoParams, Late

LEMMA OpenListed ==
    ASSUME TypeOK
    PROVE  apply_query_params(Open) = OpenTasks
BY ActiveOrNot DEF apply_query_params, filter_tasks, NoParams, Open, OpenTasks,
                   ACTIVE_STATUSES

LEMMA OpenAndDueListed ==
    ASSUME TypeOK
    PROVE  apply_query_params([NoParams EXCEPT !.status = ACTIVE_STATUSES,
                                              !.due_before = today]) = Late
<1>1. today # None
  BY NullIsNoNumber, Bounds DEF TypeOK
<1>. QED
  BY <1>1, ActiveOrNot DEF apply_query_params, filter_tasks, NoParams, Late,
                           ACTIVE_STATUSES

LEMMA BranchListed ==
    ASSUME TypeOK, NEW b \in Branch
    PROVE  apply_query_params([Open EXCEPT !.branch = b])
               = {t \in OpenTasks : table[t].branch = b}
BY ActiveOrNot, NullIsNoBranch
   DEF apply_query_params, filter_tasks, NoParams, Open, OpenTasks, ACTIVE_STATUSES

LEMMA LateHasDays ==
    ASSUME TypeOK
    PROVE  {t \in needs_attention : days_late(t) > 0} = Late
<1>1. ASSUME NEW t \in All, DueBefore(t, today)
      PROVE  days_late(t) > 0
  <2>1. table[t].due_date \in Int /\ table[t].due_date < today /\ today \in Int
    <3>1. table[t].due_date \in DueInput /\ table[t].due_date # None
      BY <1>1, RowType DEF TaskRow, DueBefore
    <3>2. today \in Int
      BY Bounds DEF TypeOK
    <3>. QED
      BY <1>1, <3>1, <3>2, Bounds DEF DueBefore
  <2>. QED
    BY <1>1, <2>1 DEF days_late
<1>2. ASSUME NEW t \in All, ~ DueBefore(t, today)
      PROVE  ~ (days_late(t) > 0)
  BY <1>2 DEF days_late
<1>. QED
  BY <1>1, <1>2 DEF needs_attention, Late

LEMMA OpenCounted == dashboard_counters.open = Cardinality(OpenTasks)
BY DEF dashboard_counters, CountBy, OpenTasks

LEMMA LateCounted == dashboard_counters.overdue = Cardinality(Late)
BY DEF dashboard_counters, CountBy, Late

LEMMA DoneCounted == dashboard_counters.closed = Cardinality(Done)
BY DEF dashboard_counters, CountBy, Done

-----------------------------------------------------------------------------
(* What the rows of a GROUP BY add up to.                                  *)
LEMMA FiniteImage ==
    ASSUME NEW h, IsFiniteSet(DOMAIN h)
    PROVE  IsFiniteSet({h[x] : x \in DOMAIN h})
<1> DEFINE T == {h[x] : x \in DOMAIN h}
           k == [x \in DOMAIN h |-> h[x]]
<1>1. k \in Surjection(DOMAIN h, T)
  BY DEF Surjection
<1>. QED
  BY <1>1, FS_Surjection

\* The load of the assignees, by name.
Held == {t \in OpenTasks : table[t].assignee # None}

LEMMA LoadAddsUp ==
    /\ SumFunction([r \in breakdown_by_assignee |-> r.open_tasks]) = Cardinality(Held)
    /\ SumFunction([r \in breakdown_by_assignee |-> r.overdue])
           = Cardinality({t \in Late : table[t].assignee # None})
<1> DEFINE name(t) == full_name[table[t].assignee]
           load(n) == {t \in Held : name(t) = n}
           late(n) == {t \in Held : name(t) = n /\ DueBefore(t, today)}
           row(n) == [assignee |-> n, open_tasks |-> Cardinality(load(n)),
                      overdue |-> Cardinality(late(n))]
           D == breakdown_by_assignee
           HeldLate == {t \in Late : table[t].assignee # None}
<1>1. D = {row(n) : n \in {name(t) : t \in Held}}
  BY DEF breakdown_by_assignee, CountBy, Held, OpenTasks
<1>2. D = {row(name(t)) : t \in Held}
  BY <1>1
<1>3. IsFiniteSet(Held) /\ IsFiniteSet(HeldLate)
  BY SetsAreFinite DEF Held, HeldLate, OpenTasks, Late, All
<1>4. IsFiniteSet(D)
  <2> DEFINE h == [t \in Held |-> row(name(t))]
  <2>1. D = {h[t] : t \in DOMAIN h} /\ DOMAIN h = Held
    BY <1>2
  <2> HIDE DEF h
  <2>. QED
    BY <1>3, <2>1, FiniteImage
<1>5. SumFunction([r \in D |-> r.open_tasks]) = Cardinality(Held)
  <2> DEFINE g == [t \in Held |-> row(name(t))]
             c == [r \in D |-> r.open_tasks]
  <2>1. g \in [Held -> D]
    BY <1>2
  <2>2. ASSUME NEW r \in D PROVE c[r] = Cardinality({t \in Held : g[t] = r})
    <3>1. PICK n : r = row(n)
      BY <1>1
    <3>2. {t \in Held : g[t] = r} = load(n)
      BY <3>1
    <3>. QED
      BY <3>1, <3>2
  <2>3. DOMAIN c = D
    OBVIOUS
  <2> HIDE DEF c, g, D
  <2>. QED
    BY <1>3, <1>4, <2>1, <2>2, <2>3, PartsAddUp DEF c
<1>6. SumFunction([r \in D |-> r.overdue]) = Cardinality(HeldLate)
  <2> DEFINE g == [t \in HeldLate |-> row(name(t))]
             c == [r \in D |-> r.overdue]
  <2>0. HeldLate = {t \in Held : DueBefore(t, today)}
    BY DEF Held, Late, OpenTasks
  <2>1. g \in [HeldLate -> D]
    BY <1>2, <2>0
  <2>2. ASSUME NEW r \in D PROVE c[r] = Cardinality({t \in HeldLate : g[t] = r})
    <3>1. PICK n : r = row(n)
      BY <1>1
    <3>2. {t \in HeldLate : g[t] = r} = late(n)
      BY <2>0, <3>1
    <3>. QED
      BY <3>1, <3>2
  <2>3. DOMAIN c = D
    OBVIOUS
  <2> HIDE DEF c, g, D, HeldLate
  <2>. QED
    BY <1>3, <1>4, <2>1, <2>2, <2>3, PartsAddUp DEF c
<1>. QED
  BY <1>5, <1>6

\* The stacked chart: the open tasks, by a column and the status.
LEMMA BreakdownAddsUp ==
    ASSUME NEW field
    PROVE  SumFunction([r \in dashboard_breakdown(field) |-> r.n]) = Cardinality(OpenTasks)
<1> DEFINE same(t) == {x \in All : /\ table[x][field] = table[t][field]
                                   /\ table[x].status = table[t].status}
           row(t) == [group |-> table[t][field], status |-> table[t].status,
                      n |-> Cardinality(same(t))]
           D == dashboard_breakdown(field)
           g == [t \in OpenTasks |-> row(t)]
           c == [r \in D |-> r.n]
<1>1. D = {row(t) : t \in OpenTasks}
  BY DEF dashboard_breakdown, CountBy, OpenTasks
<1>2. IsFiniteSet(OpenTasks)
  BY SetsAreFinite DEF OpenTasks, All
<1>3. g \in [OpenTasks -> D] /\ DOMAIN c = D
  BY <1>1
<1>4. IsFiniteSet(D)
  <2>1. D = {g[t] : t \in DOMAIN g} /\ DOMAIN g = OpenTasks
    <3> HIDE DEF D
    <3>. QED
      BY <1>1
  <2> HIDE DEF g, D
  <2>. QED
    BY <1>2, <2>1, FiniteImage
<1>5. ASSUME NEW r \in D PROVE c[r] = Cardinality({x \in OpenTasks : g[x] = r})
  <2>1. PICK t \in OpenTasks : r = row(t)
    BY <1>1
  <2>2. {x \in OpenTasks : g[x] = r} = same(t)
    <3>1. \A x \in OpenTasks : g[x] = r <=> x \in same(t)
      <4>1. \A x \in OpenTasks :
                x \in same(t) <=> /\ table[x][field] = table[t][field]
                                  /\ table[x].status = table[t].status
        BY DEF OpenTasks
      <4>2. ASSUME NEW x \in OpenTasks, x \in same(t) PROVE row(x) = row(t)
        <5>1. same(x) = same(t)
          BY <4>1, <4>2
        <5> HIDE DEF same
        <5>. QED
          BY <4>1, <4>2, <5>1
      <4>3. ASSUME NEW x \in OpenTasks, row(x) = row(t) PROVE x \in same(t)
        <5> HIDE DEF same
        <5>. QED
          BY <4>1, <4>3
      <4>. QED
        BY <2>1, <4>2, <4>3
    <3>2. same(t) \subseteq OpenTasks
      BY DEF OpenTasks, Inactive
    <3>. QED
      BY <3>1, <3>2
  <2>. QED
    BY <2>1, <2>2
<1>6. SumFunction(c) = Cardinality(OpenTasks)
  <2> HIDE DEF c, g
  <2>. QED
    BY <1>2, <1>3, <1>4, <1>5, PartsAddUp
<1>. QED
  BY <1>6

\* All tasks by status; the rows of open statuses only.
LEMMA StatusesAddUp ==
    ASSUME TypeOK
    PROVE  SumFunction([r \in {x \in breakdown_by_status :
                                   x.status \in ACTIVE_STATUSES} |-> r.n])
               = Cardinality(OpenTasks)
<1> DEFINE same(s) == {x \in All : table[x].status = s}
           row(s) == [status |-> s, n |-> Cardinality(same(s))]
           D == {x \in breakdown_by_status : x.status \in ACTIVE_STATUSES}
           g == [t \in OpenTasks |-> row(table[t].status)]
           c == [r \in D |-> r.n]
<1>1. D = {row(table[t].status) : t \in OpenTasks}
  <2>1. breakdown_by_status = {row(table[t].status) : t \in All}
    BY DEF breakdown_by_status, CountBy
  <2>2. \A t \in All : row(table[t].status).status = table[t].status
    OBVIOUS
  <2> HIDE DEF row
  <2>. QED
    BY <2>1, <2>2, ActiveOrNot DEF OpenTasks
<1>2. IsFiniteSet(OpenTasks)
  BY SetsAreFinite DEF OpenTasks, All
<1>3. g \in [OpenTasks -> D] /\ DOMAIN c = D
  BY <1>1
<1>4. IsFiniteSet(D)
  <2>1. D = {g[t] : t \in DOMAIN g} /\ DOMAIN g = OpenTasks
    <3> HIDE DEF D
    <3>. QED
      BY <1>1
  <2> HIDE DEF g, D
  <2>. QED
    BY <1>2, <2>1, FiniteImage
<1>5. ASSUME NEW r \in D PROVE c[r] = Cardinality({x \in OpenTasks : g[x] = r})
  <2>1. PICK t \in OpenTasks : r = row(table[t].status)
    BY <1>1
  <2>2. {x \in OpenTasks : g[x] = r} = {x \in OpenTasks : table[x].status = table[t].status}
    BY <2>1
  <2>3. {x \in OpenTasks : g[x] = r} = same(table[t].status)
    BY <2>2 DEF OpenTasks, Inactive
  <2>. QED
    BY <2>1, <2>3
<1>6. SumFunction(c) = Cardinality(OpenTasks)
  <2> HIDE DEF c, g
  <2>. QED
    BY <1>2, <1>3, <1>4, <1>5, PartsAddUp
<1>. QED
  BY <1>6

\* The branches: their open tasks, and those that are done.
LEMMA BranchesAddUp ==
    /\ SumFunction([r \in kpi_performance_by_branch |-> r.open]) = Cardinality(OpenTasks)
    /\ SumFunction([r \in kpi_performance_by_branch |-> r.closed]) = Cardinality(Done)
<1> DEFINE avg(b) == Average({t \in Done : table[t].branch = b})
           open(b) == {t \in All : table[t].branch = b /\ ~ Inactive(t)}
           closed(b) == {t \in Done : table[t].branch = b}
           row(b) == [branch |-> b, closed |-> Cardinality(closed(b)),
                      open |-> Cardinality(open(b)), avg |-> avg(b)]
           D == kpi_performance_by_branch
<1>1. D = {row(b) : b \in {table[t].branch : t \in All}}
  BY DEF kpi_performance_by_branch, CountBy
<1> HIDE DEF avg
<1>2. D = {row(table[t].branch) : t \in All}
  BY <1>1
<1>3. IsFiniteSet(All) /\ IsFiniteSet(OpenTasks) /\ IsFiniteSet(Done)
  BY SetsAreFinite DEF OpenTasks, Done, All
<1>4. IsFiniteSet(D)
  <2> DEFINE h == [t \in All |-> row(table[t].branch)]
  <2>1. D = {h[t] : t \in DOMAIN h} /\ DOMAIN h = All
    BY <1>2
  <2> HIDE DEF h
  <2>. QED
    BY <1>3, <2>1, FiniteImage
<1>5. SumFunction([r \in D |-> r.open]) = Cardinality(OpenTasks)
  <2> DEFINE g == [t \in OpenTasks |-> row(table[t].branch)]
             c == [r \in D |-> r.open]
  <2>1. g \in [OpenTasks -> D] /\ DOMAIN c = D
    BY <1>2 DEF OpenTasks
  <2>2. ASSUME NEW r \in D PROVE c[r] = Cardinality({t \in OpenTasks : g[t] = r})
    <3>1. PICK b : r = row(b)
      BY <1>1
    <3>2. {t \in OpenTasks : g[t] = r} = open(b)
      BY <3>1 DEF OpenTasks
    <3>. QED
      BY <3>1, <3>2
  <2> HIDE DEF c, g, D
  <2>. QED
    BY <1>3, <1>4, <2>1, <2>2, PartsAddUp DEF c
<1>6. SumFunction([r \in D |-> r.closed]) = Cardinality(Done)
  <2> DEFINE g == [t \in Done |-> row(table[t].branch)]
             c == [r \in D |-> r.closed]
  <2>1. g \in [Done -> D] /\ DOMAIN c = D
    BY <1>2 DEF Done
  <2>2. ASSUME NEW r \in D PROVE c[r] = Cardinality({t \in Done : g[t] = r})
    <3>1. PICK b : r = row(b)
      BY <1>1
    <3>2. {t \in Done : g[t] = r} = closed(b)
      BY <3>1
    <3>. QED
      BY <3>1, <3>2
  <2> HIDE DEF c, g, D
  <2>. QED
    BY <1>3, <1>4, <2>1, <2>2, PartsAddUp DEF c
<1>. QED
  BY <1>5, <1>6

\* "My tasks" of all users, which are the open tasks that somebody holds.
LEMMA MineAddUp ==
    ASSUME TypeOK
    PROVE  SumFunction([u \in User |-> Cardinality(my_tasks(u, NoParams))])
               = Cardinality(Held)
<1> DEFINE g == [t \in Held |-> table[t].assignee]
           c == [u \in User |-> Cardinality(my_tasks(u, NoParams))]
<1>1. \A t \in Held : t \in All /\ table[t].assignee \in User
  BY RowType DEF Held, OpenTasks, TaskRow, Assignee
<1>2. g \in [Held -> User] /\ DOMAIN c = User
  BY <1>1
<1>3. ASSUME NEW u \in User
      PROVE  c[u] = Cardinality({t \in Held : g[t] = u})
  <2>1. apply_query_params(NoParams) = All
    BY DEF apply_query_params, filter_tasks, NoParams
  <2>2. my_tasks(u, NoParams) = {t \in Held : g[t] = u}
    BY <2>1, ActiveOrNot, NoneIsNotAUser DEF my_tasks, Held, OpenTasks
  <2>. QED
    BY <2>2
<1>4. IsFiniteSet(Held) /\ IsFiniteSet(User)
  BY SetsAreFinite, TablesAreFinite DEF Held, OpenTasks, All
<1>. QED
  <2> HIDE DEF c, g
  <2>1. SumFunction(c) = Cardinality(Held)
    BY <1>2, <1>3, <1>4, PartsAddUp
  <2>. QED
    BY <2>1 DEF c

\* What nobody holds and what somebody does are all the open tasks.
LEMMA HeldOrNot ==
    Cardinality(Held) + Cardinality({t \in OpenTasks : table[t].assignee = None})
        = Cardinality(OpenTasks)
<1> DEFINE free == {t \in OpenTasks : table[t].assignee = None}
<1>1. /\ IsFiniteSet(Held) /\ Cardinality(Held) \in Nat
      /\ IsFiniteSet(free) /\ Cardinality(free) \in Nat
  BY SetsAreFinite DEF Held, OpenTasks, All
<1>2. Held \cup free = OpenTasks /\ Cardinality(Held \cap free) = 0
  BY FS_EmptySet DEF Held
<1> HIDE DEF free
<1>3. Cardinality(Held \cup free)
          = Cardinality(Held) + Cardinality(free) - Cardinality(Held \cap free)
  BY <1>1, FS_Union
<1>4. Cardinality(OpenTasks) = Cardinality(Held) + Cardinality(free)
  BY <1>1, <1>2, <1>3
<1>. QED
  BY <1>4 DEF free

\* The chart of the months: what it shows, and that it may show them all.
Shown ==
    LET months == {Month(t) : t \in All}
    IN  {m \in months : Cardinality({x \in months : x > m}) < KpiMonths}

LEMMA MonthsAddUp ==
    LET cohorts == kpi_opened_vs_closed_by_month
    IN  /\ SumFunction([r \in cohorts |-> r.opened])
               = Cardinality({t \in All : Month(t) \in Shown})
        /\ SumFunction([r \in cohorts |-> r.closed])
               = Cardinality({t \in Done : Month(t) \in Shown})
<1> DEFINE opened(m) == {t \in All : Month(t) = m}
           closed(m) == {t \in Done : Month(t) = m}
           row(m) == [month |-> m, opened |-> Cardinality(opened(m)),
                      closed |-> Cardinality(closed(m))]
           D == kpi_opened_vs_closed_by_month
           AllShown == {t \in All : Month(t) \in Shown}
           DoneShown == {t \in Done : Month(t) \in Shown}
<1>1. D = {row(m) : m \in Shown}
  BY DEF kpi_opened_vs_closed_by_month, CountBy, Shown
<1>2. D = {row(Month(t)) : t \in AllShown}
  <2>1. Shown = {Month(t) : t \in AllShown}
    BY DEF Shown
  <2> HIDE DEF D, row, AllShown
  <2>. QED
    BY <1>1, <2>1
<1>3. IsFiniteSet(AllShown) /\ IsFiniteSet(DoneShown)
  BY SetsAreFinite DEF Done, All
<1>4. IsFiniteSet(D)
  <2> DEFINE h == [t \in AllShown |-> row(Month(t))]
  <2>1. D = {h[t] : t \in DOMAIN h} /\ DOMAIN h = AllShown
    BY <1>2
  <2> HIDE DEF h
  <2>. QED
    BY <1>3, <2>1, FiniteImage
<1>5. SumFunction([r \in D |-> r.opened]) = Cardinality(AllShown)
  <2> DEFINE g == [t \in AllShown |-> row(Month(t))]
             c == [r \in D |-> r.opened]
  <2>1. g \in [AllShown -> D] /\ DOMAIN c = D
    BY <1>2
  <2>2. ASSUME NEW r \in D PROVE c[r] = Cardinality({t \in AllShown : g[t] = r})
    <3>1. PICK m \in Shown : r = row(m)
      BY <1>1
    <3>2. {t \in AllShown : g[t] = r} = opened(m)
      BY <3>1
    <3>. QED
      BY <3>1, <3>2
  <2> HIDE DEF c, g, D, AllShown
  <2>. QED
    BY <1>3, <1>4, <2>1, <2>2, PartsAddUp DEF c
<1>6. SumFunction([r \in D |-> r.closed]) = Cardinality(DoneShown)
  <2> DEFINE g == [t \in DoneShown |-> row(Month(t))]
             c == [r \in D |-> r.closed]
  <2>1. g \in [DoneShown -> D] /\ DOMAIN c = D
    BY <1>2 DEF Done
  <2>2. ASSUME NEW r \in D PROVE c[r] = Cardinality({t \in DoneShown : g[t] = r})
    <3>1. PICK m \in Shown : r = row(m)
      BY <1>1
    <3>2. {t \in DoneShown : g[t] = r} = closed(m)
      BY <3>1
    <3>. QED
      BY <3>1, <3>2
  <2> HIDE DEF c, g, D, DoneShown
  <2>. QED
    BY <1>3, <1>4, <2>1, <2>2, PartsAddUp DEF c
<1>. QED
  BY <1>5, <1>6

LEMMA AllMonthsShown ==
    ASSUME TypeOK, Cardinality({Month(t) : t \in All}) <= KpiMonths, NEW t \in All
    PROVE  Month(t) \in Shown
<1> DEFINE months == {Month(x) : x \in All}
           later == {x \in months : x > Month(t)}
<1>1. IsFiniteSet(months)
  <2> DEFINE h == [x \in All |-> Month(x)]
  <2>1. months = {h[x] : x \in DOMAIN h} /\ DOMAIN h = All /\ IsFiniteSet(All)
    BY SetsAreFinite DEF All
  <2> HIDE DEF h
  <2>. QED
    BY <2>1, FiniteImage
<1>2. Month(t) \in Int
  <2>1. table[t].created_at \in Int
    BY RowType, Bounds DEF TaskRow
  <2>. QED
    BY <2>1, Bounds DEF Month
<1>3. later # months /\ later \subseteq months
  BY <1>2
<1>4. Cardinality(later) < Cardinality(months)
  <2> HIDE DEF later, months
  <2>1. /\ Cardinality(later) <= Cardinality(months)
        /\ Cardinality(months) = Cardinality(later) => months = later
        /\ IsFiniteSet(later)
    BY <1>1, <1>3, FS_Subset
  <2>2. Cardinality(later) \in Int /\ Cardinality(months) \in Int
    BY <1>1, <2>1, FS_CardinalityType
  <2>. QED
    BY <1>3, <2>1, <2>2
<1>5. Cardinality(later) < KpiMonths
  <2>1. IsFiniteSet(later)
    BY <1>1, <1>3, FS_Subset
  <2> HIDE DEF later
  <2>2. Cardinality(later) \in Int /\ Cardinality(months) \in Int
    BY <1>1, <2>1, FS_CardinalityType
  <2>. QED
    BY <1>4, <2>2, Bounds
<1>. QED
  BY <1>5 DEF Shown

-----------------------------------------------------------------------------
(* One notion of overdue, whatever the table and the day: what is listed,  *)
(* alerted, counted and shown as late are the same tasks                   *)
(* (tasks/selectors.py 48, 93, 111, 124, 169, 195).                        *)
THEOREM OverdueAlwaysAgrees == Spec => []OverdueAgrees
<1>1. ASSUME TypeOK PROVE OverdueAgrees
  <2>1. tasks_overdue = Late /\ annotate_overdue = Late
    BY DEF tasks_overdue, annotate_overdue, Late
  <2>. QED
    BY <1>1, <2>1, OverdueListed, OpenAndDueListed, LateHasDays, LateCounted,
       LoadAddsUp DEF OverdueAgrees
<1>. QED
  BY <1>1, TypeCorrect, PTL

(* One notion of open: every breakdown adds up to the counter, and so do   *)
(* "my tasks" of all the users and what nobody holds                       *)
(* (tasks/selectors.py 122, 145, 164, 269; tasks/views.py 112-127).        *)
THEOREM OpenAlwaysAgrees == Spec => []OpenAgrees
<1>1. ASSUME TypeOK PROVE OpenAgrees
  <2>1. apply_query_params([Open EXCEPT !.priority_min = 4])
            = {t \in OpenTasks : table[t].priority = 4}
    <3>1. \A t \in All : table[t].priority >= 4 <=> table[t].priority = 4
      <4>1. \A t \in All : table[t].priority \in 1 .. 4
        BY <1>1, RowType DEF TaskRow
      <4>. QED
        BY <4>1
    <3>2. 4 # None /\ ACTIVE_STATUSES # {}
      BY NullIsNoNumber DEF ACTIVE_STATUSES
    <3>3. apply_query_params([Open EXCEPT !.priority_min = 4])
              = {t \in All : /\ table[t].status \in ACTIVE_STATUSES
                            /\ table[t].priority >= 4}
      BY <3>2 DEF apply_query_params, filter_tasks, Open, NoParams
    <3>. QED
      BY <1>1, <3>1, <3>3, ActiveOrNot DEF OpenTasks
  <2>2. dashboard_counters.urgent = Cardinality({t \in OpenTasks : table[t].priority = 4})
    <3>1. {t \in OpenTasks : table[t].priority = 4}
              = {t \in All : ~ Inactive(t) /\ table[t].priority = 4}
      BY DEF OpenTasks
    <3>. QED
      BY <3>1 DEF dashboard_counters, CountBy
  <2>3. ASSUME NEW r \in kpi_performance_by_branch
        PROVE  Cardinality(apply_query_params([Open EXCEPT !.branch = r.branch])) = r.open
    <3>1. PICK t \in All :
              /\ r.branch = table[t].branch
              /\ r.open = Cardinality({x \in All : table[x].branch = table[t].branch
                                                    /\ ~ Inactive(x)})
      <4> DEFINE avg(b) == Average({x \in Done : table[x].branch = b})
                 open(b) == {x \in All : table[x].branch = b /\ ~ Inactive(x)}
                 closed(b) == {x \in Done : table[x].branch = b}
                 row(b) == [branch |-> b, closed |-> Cardinality(closed(b)),
                            open |-> Cardinality(open(b)), avg |-> avg(b)]
      <4>1. kpi_performance_by_branch = {row(b) : b \in {table[x].branch : x \in All}}
        BY DEF kpi_performance_by_branch, CountBy
      <4> HIDE DEF avg
      <4>2. PICK t \in All : r = row(table[t].branch)
        BY <2>3, <4>1
      <4>. QED
        BY <4>2
    <3>2. r.branch \in Branch
      BY <1>1, <3>1, RowType DEF TaskRow
    <3>3. {x \in OpenTasks : table[x].branch = r.branch}
              = {x \in All : table[x].branch = table[t].branch /\ ~ Inactive(x)}
      BY <3>1 DEF OpenTasks
    <3>. QED
      BY <1>1, <3>1, <3>2, <3>3, BranchListed
  <2>. QED
    BY <1>1, <2>1, <2>2, <2>3, OpenListed, OpenCounted, MineAddUp, HeldOrNot,
       BreakdownAddsUp, StatusesAddUp, LoadAddsUp, BranchesAddUp DEF OpenAgrees
<1>. QED
  BY <1>1, TypeCorrect, PTL

(* One notion of closed, in which a cancelled task has no part             *)
(* (tasks/selectors.py 123, 229-242, 268).                                 *)
THEOREM ClosedAlwaysAgrees == Spec => []ClosedAgrees
<1>1. ASSUME TypeOK PROVE ClosedAgrees
  <2> DEFINE DoneShown == {t \in Done : Month(t) \in Shown}
             AllShown == {t \in All : Month(t) \in Shown}
  <2>1. apply_query_params([NoParams EXCEPT !.status = {"done"}]) = Done
    BY DEF apply_query_params, filter_tasks, NoParams, Done
  <2>2. Cardinality(DoneShown) <= Cardinality(Done)
    <3>1. IsFiniteSet(Done) /\ DoneShown \subseteq Done
      BY SetsAreFinite DEF Done, All
    <3> HIDE DEF DoneShown
    <3>. QED
      BY <3>1, FS_Subset
  <2>3. Cardinality({Month(t) : t \in All}) <= KpiMonths =>
            DoneShown = Done /\ AllShown = All
    BY <1>1, AllMonthsShown DEF Done
  <2>. QED
    BY <2>1, <2>2, <2>3, DoneCounted, BranchesAddUp, MonthsAddUp DEF ClosedAgrees
<1>. QED
  BY <1>1, TypeCorrect, PTL

-----------------------------------------------------------------------------
(* There is always a page to show.                                         *)
LEMMA FirstPage ==
    ASSUME NEW S, S \subseteq Task, NEW size \in Nat \ {0}
    PROVE  num_pages(S, size) \in Nat \ {0}
<1>1. CASE S = {}
  BY <1>1 DEF num_pages
<1>2. CASE S # {}
  <2> DEFINE n == Cardinality(S)
  <2>1. n \in Nat /\ n # 0
    BY <1>2, SetsAreFinite, FS_EmptySet
  <2>2. num_pages(S, size) = (n + size - 1) \div size
    BY <1>2 DEF num_pages
  <2> HIDE DEF n
  <2>3. (n + size - 1) \div size \in Nat \ {0}
    BY <2>1
  <2>. QED
    BY <2>2, <2>3
<1>. QED
  BY <1>1, <1>2

-----------------------------------------------------------------------------
(* ORDER BY: rows are compared column by column.                           *)
IsOrdering(o) ==
    \E n \in Nat :
        /\ DOMAIN o = 1 .. n
        /\ \A i \in 1 .. n : o[i].field \in ORDERING_WHITELIST \ {"updated_at"}

LEMMA OrderingsAreParsed ==
    ASSUME NEW terms \in OrderingInput, orderable(terms)
    PROVE  IsOrdering(order_tasks(terms))
<1>1. CASE terms = <<>>
  <2>1. /\ DOMAIN DEFAULT_ORDERING = 1 .. 2
        /\ \A i \in 1 .. 2 : DEFAULT_ORDERING[i].field \in {"priority", "due_date"}
    BY DEF DEFAULT_ORDERING, asc, desc
  <2>. QED
    BY <1>1, <2>1 DEF order_tasks, IsOrdering, ORDERING_WHITELIST
<1>2. CASE terms # <<>>
  <2> DEFINE T == [field : STRING \ {"updated_at"}, desc : BOOLEAN]
  <2>1. terms \in Seq(T)
    BY ListInputs
  <2>2. Len(terms) \in Nat /\ DOMAIN terms = 1 .. Len(terms)
    BY <2>1, LenProperties
  <2>3. \A i \in 1 .. Len(terms) : terms[i] \in T
    <3> HIDE DEF T
    <3>. QED
      BY <2>1, ElementOfSeq
  <2>4. \A i \in 1 .. Len(terms) : terms[i].field # "updated_at"
    BY <2>3
  <2> HIDE DEF T
  <2>. QED
    BY <1>2, <2>2, <2>4 DEF order_tasks, IsOrdering, orderable
<1>. QED
  BY <1>1, <1>2

Key(t, o, i) == column(t, o[i].field)

LEMMA KeyType ==
    ASSUME TypeOK, NEW o, IsOrdering(o), NEW t \in All, NEW i \in DOMAIN o
    PROVE  Key(t, o, i) \in Int \cup {None}
<1> DEFINE f == o[i].field
<1>1. f \in {"priority", "due_date", "created_at", "status", "ref"}
  BY DEF IsOrdering, ORDERING_WHITELIST
<1>2. table[t] \in TaskRow /\ t \in Task
  BY RowType
<1>3. CASE f = "priority"
  BY <1>2, <1>3 DEF Key, column, TaskRow
<1>4. CASE f = "due_date"
  BY <1>2, <1>4, Bounds DEF Key, column, TaskRow
<1>5. CASE f = "created_at"
  BY <1>2, <1>5, Bounds DEF Key, column, TaskRow
<1>6. CASE f = "status"
  <2>1. table[t].status \in Status
    BY <1>2 DEF TaskRow
  <2>2. \E j \in 1 .. 5 : Alphabetical[j] = table[t].status
    BY <2>1 DEF Status, Alphabetical
  <2>3. (CHOOSE j \in 1 .. 5 : Alphabetical[j] = table[t].status) \in Int
    BY <2>2
  <2>. QED
    BY <1>6, <2>3 DEF Key, column
<1>7. CASE f = "ref"
  BY <1>2, <1>7, KeysAreOrdered DEF Key, column
<1>. QED
  BY <1>1, <1>3, <1>4, <1>5, <1>6, <1>7

LEMMA NullsAreLargest ==
    /\ \A a \in Int \cup {None} : ~ smaller(a, a)
    /\ \A a, b \in Int \cup {None} : a = b \/ smaller(a, b) \/ smaller(b, a)
    /\ \A a, b, c \in Int \cup {None} : smaller(a, b) /\ smaller(b, c) => smaller(a, c)
BY NullIsNoNumber DEF smaller

\* The i-th term puts s before t.
First(s, t, o, i) == comesFirst(s, t, o[i])

LEMMA TermOrders ==
    ASSUME TypeOK, NEW o, IsOrdering(o), NEW i \in DOMAIN o,
           NEW r \in All, NEW s \in All, NEW t \in All
    PROVE  /\ Key(s, o, i) = Key(t, o, i) => ~ First(s, t, o, i)
           /\ \/ Key(s, o, i) = Key(t, o, i)
              \/ First(s, t, o, i)
              \/ First(t, s, o, i)
           /\ First(r, s, o, i) /\ First(s, t, o, i) => First(r, t, o, i)
           /\ Key(r, o, i) = Key(s, o, i) => (First(r, t, o, i) <=> First(s, t, o, i))
           /\ Key(s, o, i) = Key(t, o, i) => (First(r, s, o, i) <=> First(r, t, o, i))
<1>1. /\ Key(r, o, i) \in Int \cup {None}
      /\ Key(s, o, i) \in Int \cup {None}
      /\ Key(t, o, i) \in Int \cup {None}
  BY KeyType
<1>2. \A x, y : First(x, y, o, i) <=>
                   IF o[i].desc THEN smaller(Key(y, o, i), Key(x, o, i))
                   ELSE smaller(Key(x, o, i), Key(y, o, i))
  BY DEF First, comesFirst, Key
<1>3. CASE o[i].desc
  BY <1>1, <1>2, <1>3, NullsAreLargest
<1>4. CASE ~ o[i].desc
  BY <1>1, <1>2, <1>4, NullsAreLargest
<1>. QED
  BY <1>3, <1>4

LEMMA PrecedesBy ==
    ASSUME NEW o, NEW s, NEW t
    PROVE  precedes(s, t, o) <=>
               \E i \in DOMAIN o : /\ First(s, t, o, i)
                                   /\ \A j \in 1 .. i - 1 : Key(s, o, j) = Key(t, o, j)
BY DEF precedes, First, Key

LEMMA Minimum ==
    ASSUME NEW T \in SUBSET Nat, T # {}
    PROVE  \E x \in T : \A y \in T : x <= y
<1> DEFINE R == {s \in Nat \X Nat : s[1] < s[2]}
<1>1. IsWellFoundedOn(R, Nat)
  BY NatLessThanWellFounded DEF OpToRel
<1>2. PICK x \in T : \A y \in T : ~ (<<y, x>> \in R)
  <2> HIDE DEF R
  <2>. QED
    BY <1>1, WFMin
<1>3. \A y \in T : ~ (y < x)
  BY <1>2 DEF R
<1>. QED
  BY <1>3

Alike(s, t, o) == \A i \in DOMAIN o : Key(s, o, i) = Key(t, o, i)

LEMMA AlikeOrNot ==
    ASSUME TypeOK, NEW o, IsOrdering(o), NEW s \in All, NEW t \in All
    PROVE  Alike(s, t, o) \/ precedes(s, t, o) \/ precedes(t, s, o)
<1> SUFFICES ASSUME ~ Alike(s, t, o)
             PROVE  precedes(s, t, o) \/ precedes(t, s, o)
  OBVIOUS
<1> DEFINE T == {i \in DOMAIN o : Key(s, o, i) # Key(t, o, i)}
<1>1. PICK n \in Nat : DOMAIN o = 1 .. n
  BY DEF IsOrdering
<1>2. PICK i \in T : \A j \in T : i <= j
  <2>1. T # {} /\ T \subseteq Nat
    BY <1>1 DEF Alike
  <2> HIDE DEF T
  <2>. QED
    BY <2>1, Minimum
<1>3. \A j \in 1 .. i - 1 : Key(s, o, j) = Key(t, o, j)
  BY <1>1, <1>2
<1>4. First(s, t, o, i) \/ First(t, s, o, i)
  BY <1>2, TermOrders
<1>. QED
  BY <1>2, <1>3, <1>4, PrecedesBy

LEMMA AlikeIsTied ==
    ASSUME TypeOK, NEW o, IsOrdering(o), NEW s \in All, NEW t \in All,
           Alike(s, t, o)
    PROVE  ~ precedes(s, t, o)
BY TermOrders, PrecedesBy DEF Alike

LEMMA PrecedesAlike ==
    ASSUME TypeOK, NEW o, IsOrdering(o), NEW r \in All, NEW s \in All, NEW t \in All,
           Alike(r, s, o)
    PROVE  /\ precedes(r, t, o) => precedes(s, t, o)
           /\ precedes(t, r, o) => precedes(t, s, o)
<1>1. PICK n \in Nat : DOMAIN o = 1 .. n
  BY DEF IsOrdering
<1>2. \A i \in DOMAIN o : \A j \in 1 .. i - 1 : j \in DOMAIN o
  BY <1>1
<1>3. ASSUME precedes(r, t, o) PROVE precedes(s, t, o)
  <2>1. PICK i \in DOMAIN o : /\ First(r, t, o, i)
                             /\ \A j \in 1 .. i - 1 : Key(r, o, j) = Key(t, o, j)
    BY <1>3, PrecedesBy
  <2>2. First(s, t, o, i)
    BY <2>1, TermOrders DEF Alike
  <2>3. \A j \in 1 .. i - 1 : Key(s, o, j) = Key(t, o, j)
    BY <1>2, <2>1 DEF Alike
  <2>. QED
    BY <2>2, <2>3, PrecedesBy
<1>4. ASSUME precedes(t, r, o) PROVE precedes(t, s, o)
  <2>1. PICK i \in DOMAIN o : /\ First(t, r, o, i)
                             /\ \A j \in 1 .. i - 1 : Key(t, o, j) = Key(r, o, j)
    BY <1>4, PrecedesBy
  <2>2. First(t, s, o, i)
    BY <2>1, TermOrders DEF Alike
  <2>3. \A j \in 1 .. i - 1 : Key(t, o, j) = Key(s, o, j)
    BY <1>2, <2>1 DEF Alike
  <2>. QED
    BY <2>2, <2>3, PrecedesBy
<1>. QED
  BY <1>3, <1>4

LEMMA PrecedesTransitive ==
    ASSUME TypeOK, NEW o, IsOrdering(o), NEW r \in All, NEW s \in All, NEW t \in All,
           precedes(r, s, o), precedes(s, t, o)
    PROVE  precedes(r, t, o)
<1>1. PICK n \in Nat : DOMAIN o = 1 .. n
  BY DEF IsOrdering
<1>2. PICK i \in 1 .. n : /\ First(r, s, o, i)
                         /\ \A j \in 1 .. i - 1 : Key(r, o, j) = Key(s, o, j)
  BY <1>1, PrecedesBy
<1>3. PICK k \in 1 .. n : /\ First(s, t, o, k)
                         /\ \A j \in 1 .. k - 1 : Key(s, o, j) = Key(t, o, j)
  BY <1>1, PrecedesBy
<1>4. CASE i < k
  <2>1. Key(s, o, i) = Key(t, o, i)
    BY <1>3, <1>4
  <2>2. First(r, t, o, i)
    BY <1>1, <1>2, <2>1, TermOrders
  <2>3. \A j \in 1 .. i - 1 : Key(r, o, j) = Key(t, o, j)
    BY <1>2, <1>3, <1>4
  <2>. QED
    BY <1>1, <2>2, <2>3, PrecedesBy
<1>5. CASE i = k
  <2>1. First(r, t, o, i)
    BY <1>1, <1>2, <1>3, <1>5, TermOrders
  <2>2. \A j \in 1 .. i - 1 : Key(r, o, j) = Key(t, o, j)
    BY <1>2, <1>3, <1>5
  <2>. QED
    BY <1>1, <2>1, <2>2, PrecedesBy
<1>6. CASE k < i
  <2>1. Key(r, o, k) = Key(s, o, k)
    BY <1>2, <1>6
  <2>2. First(r, t, o, k)
    BY <1>1, <1>3, <2>1, TermOrders
  <2>3. \A j \in 1 .. k - 1 : Key(r, o, j) = Key(t, o, j)
    BY <1>2, <1>3, <1>6
  <2>. QED
    BY <1>1, <2>2, <2>3, PrecedesBy
<1>. QED
  BY <1>4, <1>5, <1>6

\* Tied rows are those with equal columns, and whoever does not come later
\* than r comes before what r precedes.
LEMMA Ranks ==
    ASSUME TypeOK, NEW o, IsOrdering(o), NEW r \in All, NEW s \in All, NEW t \in All
    PROVE  /\ Tied(s, t, o) <=> Alike(s, t, o)
           /\ ~ precedes(s, s, o)
           /\ ~ precedes(s, r, o) /\ precedes(s, t, o) => precedes(r, t, o)
<1>1. Alike(s, s, o) /\ (Alike(s, t, o) => Alike(t, s, o)) /\ (Alike(s, r, o) => Alike(r, s, o))
  BY DEF Alike
<1>2. Tied(s, t, o) <=> Alike(s, t, o)
  BY <1>1, AlikeOrNot, AlikeIsTied DEF Tied
<1>3. ~ precedes(s, s, o)
  BY <1>1, AlikeIsTied
<1>4. ASSUME ~ precedes(s, r, o), precedes(s, t, o) PROVE precedes(r, t, o)
  <2>1. CASE Alike(s, r, o)
    BY <1>4, <2>1, PrecedesAlike
  <2>2. CASE precedes(r, s, o)
    BY <1>4, <2>2, PrecedesTransitive
  <2>. QED
    BY <1>4, <2>1, <2>2, AlikeOrNot
<1>. QED
  BY <1>2, <1>3, <1>4

-----------------------------------------------------------------------------
(* The answers of the server.  Two sortings of the same rows have tied     *)
(* rows in the same place.                                                 *)
LEMMA SortingIsBijection ==
    ASSUME NEW S, S \subseteq All, NEW o, NEW s \in sortings(S, o)
    PROVE  LET D == 1 .. Cardinality(S)
           IN  /\ s \in [D -> S]
               /\ \A i, j \in D : i # j => s[i] # s[j]
               /\ \A x \in S : \E i \in D : s[i] = x
               /\ \A i, j \in D : i < j => ~ precedes(s[j], s[i], o)
<1> DEFINE D == 1 .. Cardinality(S)
<1>1. IsFiniteSet(S) /\ Cardinality(S) \in Nat
  BY SetsAreFinite DEF All
<1>2. s \in [D -> S] /\ \A i, j \in D : i # j => s[i] # s[j]
  BY DEF sortings, SetToSeqs
<1>3. \A i, j \in D : i < j => ~ precedes(s[j], s[i], o)
  BY <1>2 DEF sortings
<1>4. IsFiniteSet(D) /\ Cardinality(D) = Cardinality(S)
  BY <1>1, FS_Interval
<1>5. s \in Injection(D, S)
  BY <1>2 DEF Injection, IsInjective
<1>6. s \in Surjection(D, S)
  <2> HIDE DEF D
  <2>. QED
    BY <1>1, <1>4, <1>5, FS_Injection
<1>7. \A x \in S : \E i \in D : s[i] = x
  BY <1>6 DEF Surjection
<1>. QED
  BY <1>2, <1>3, <1>7

LEMMA NoneOvertakes ==
    ASSUME TypeOK, NEW S, S \subseteq All, NEW o, IsOrdering(o),
           NEW s \in sortings(S, o), NEW r \in sortings(S, o),
           NEW i \in 1 .. Cardinality(S)
    PROVE  ~ precedes(s[i], r[i], o)
<1> DEFINE D == 1 .. Cardinality(S)
           place(x) == CHOOSE m \in D : r[m] = x
           f == [j \in 1 .. i |-> place(s[j])]
<1> SUFFICES ASSUME precedes(s[i], r[i], o) PROVE FALSE
  OBVIOUS
<1>1. Cardinality(S) \in Nat /\ i \in Nat /\ i > 0
  BY SetsAreFinite DEF All
<1>2. /\ s \in [D -> S] /\ r \in [D -> S]
      /\ \A j, k \in D : j # k => s[j] # s[k]
      /\ \A x \in S : \E m \in D : r[m] = x
      /\ \A j, k \in D : j < k => ~ precedes(s[k], s[j], o)
      /\ \A j, k \in D : j < k => ~ precedes(r[k], r[j], o)
  BY SortingIsBijection
<1>3. ASSUME NEW j \in 1 .. i
      PROVE  /\ j \in D /\ place(s[j]) \in 1 .. i - 1
             /\ r[place(s[j])] = s[j]
  <2>1. j \in D /\ s[j] \in S
    BY <1>1, <1>2
  <2>2. place(s[j]) \in D /\ r[place(s[j])] = s[j]
    BY <1>2, <2>1
  <2> HIDE DEF place
  <2>3. precedes(s[j], r[i], o)
    <3>1. CASE j = i
      BY <3>1
    <3>2. CASE j < i
      <4>1. ~ precedes(s[i], s[j], o)
        BY <1>2, <2>1, <3>2
      <4>2. s[i] \in All /\ s[j] \in All /\ r[i] \in All
        BY <1>2, <2>1
      <4>. QED
        BY <4>1, <4>2, Ranks
    <3>. QED
      BY <1>1, <3>1, <3>2
  <2>4. ~ (i < place(s[j]))
    BY <1>2, <2>2, <2>3
  <2>5. place(s[j]) # i
    <3>1. r[i] \in All
      BY <1>2
    <3>. QED
      BY <2>2, <2>3, <3>1, Ranks
  <2>. QED
    BY <1>1, <2>1, <2>2, <2>4, <2>5
<1>4. f \in [1 .. i -> 1 .. i - 1]
  <2> HIDE DEF place
  <2>. QED
    BY <1>3
<1>5. /\ IsFiniteSet(1 .. i) /\ IsFiniteSet(1 .. i - 1)
      /\ Cardinality(1 .. i - 1) < Cardinality(1 .. i)
  <2>1. i - 1 \in Int /\ i \in Int
    BY <1>1
  <2>2. IsFiniteSet(1 .. i) /\ Cardinality(1 .. i) = i
    BY <1>1, FS_Interval
  <2>3. /\ IsFiniteSet(1 .. i - 1)
        /\ Cardinality(1 .. i - 1) = IF 1 > i - 1 THEN 0 ELSE i - 1 - 1 + 1
    BY <2>1, FS_Interval
  <2>. QED
    BY <1>1, <2>2, <2>3
<1>6. PICK j, k \in 1 .. i : j # k /\ f[j] = f[k]
  <2> HIDE DEF f
  <2>. QED
    BY <1>4, <1>5, FS_PigeonHole
<1>7. s[j] = s[k]
  <2> HIDE DEF place
  <2>1. place(s[j]) = place(s[k])
    BY <1>6
  <2>. QED
    BY <1>3, <2>1
<1>. QED
  BY <1>2, <1>3, <1>6, <1>7

LEMMA SamePlaceTied ==
    ASSUME TypeOK, NEW S, S \subseteq All, NEW o, IsOrdering(o),
           NEW s \in sortings(S, o), NEW r \in sortings(S, o),
           NEW i \in 1 .. Cardinality(S)
    PROVE  Tied(s[i], r[i], o)
BY NoneOvertakes DEF Tied

LEMMA PartOfSeq ==
    ASSUME NEW T, NEW L \in Nat, NEW p \in [1 .. L -> T],
           NEW a \in Nat, NEW b \in Nat, b <= L
    PROVE  SubSeq(p, a + 1, b) \in Seq(T)
<1>1. a + 1 \in Int /\ b \in Int /\ \A i \in a + 1 .. b : p[i] \in T
  OBVIOUS
<1>. QED
  BY <1>1, SubSeqProperties

\* A sequence that is cut at e[1], e[2], ... and put together again.
Cut(p, e, last) == [n \in 1 .. last |-> SubSeq(p, e[n - 1] + 1, e[n])]

LEMMA CutAndJoined ==
    ASSUME NEW T, NEW L \in Nat, NEW p \in [1 .. L -> T],
           NEW last \in Nat \ {0}, NEW e \in [0 .. last -> 0 .. L],
           e[0] = 0, e[last] = L, \A n \in 1 .. last : e[n - 1] <= e[n]
    PROVE  FlattenSeq(Cut(p, e, last)) = p
<1> SUFFICES ASSUME NEW w, w = [n \in 1 .. last |-> SubSeq(p, e[n - 1] + 1, e[n])]
             PROVE  FlattenSeq(w) = p
  BY DEF Cut
<1> DEFINE G == [n \in 1 .. last |-> SubSeq(p, 1, e[n])]
           Joins(h) == h = [n \in 1 .. last |->
                              IF n = 1 THEN w[n] ELSE h[n - 1] \o w[n]]
           flatten == CHOOSE h : Joins(h)
<1>0. ASSUME NEW n \in 1 .. last
      PROVE  /\ e[n - 1] \in Nat /\ e[n] \in Nat
             /\ e[n - 1] <= e[n] /\ e[n] <= L
  <2>1. n - 1 \in 0 .. last /\ n \in 0 .. last
    OBVIOUS
  <2>2. e[n - 1] \in 0 .. L /\ e[n] \in 0 .. L
    BY <2>1
  <2>. QED
    BY <2>2
<1>1. p \in Seq(T) /\ Len(p) = L
  <2>1. p \in Seq(T)
    BY SeqDef
  <2>2. DOMAIN p = 1 .. Len(p) /\ Len(p) \in Nat
    BY <2>1, LenProperties
  <2>. QED
    BY <2>1, <2>2
<1>2. Len(w) = last
  <2>1. \A n \in 1 .. last : w[n] \in Seq(T)
    <3> SUFFICES ASSUME NEW n \in 1 .. last PROVE SubSeq(p, e[n - 1] + 1, e[n]) \in Seq(T)
      OBVIOUS
    <3>1. e[n - 1] \in Nat /\ e[n] \in Nat /\ e[n] <= L
      BY <1>0, Zenon
    <3>. QED
      BY <3>1, PartOfSeq
  <2>2. w \in [1 .. last -> Seq(T)]
    BY <2>1
  <2>3. w \in Seq(Seq(T))
    <3> DEFINE U == Seq(T)
    <3>1. w \in [1 .. last -> U]
      BY <2>2
    <3> HIDE DEF U
    <3>2. w \in Seq(U)
      BY <3>1, SeqDef
    <3>. QED
      BY <3>2 DEF U
  <2>4. DOMAIN w = 1 .. Len(w) /\ Len(w) \in Nat
    BY <2>3, LenProperties
  <2>. QED
    BY <2>4
<1>3. FlattenSeq(w) = flatten[last]
  <2>1. Len(w) # 0
    BY <1>2
  <2>. QED
    BY <1>2, <2>1 DEF FlattenSeq
<1>4. ASSUME NEW n \in 1 .. last
      PROVE  G[n] = IF n = 1 THEN w[n] ELSE G[n - 1] \o w[n]
  <2>1. CASE n = 1
    <3>1. e[n - 1] + 1 = 1
      BY <2>1
    <3>. QED
      BY <2>1, <3>1
  <2>2. CASE n # 1
    <3> DEFINE a == e[n - 1]
               b == e[n]
    <3>0. n - 1 \in 1 .. last
      BY <2>2
    <3>1. a \in Nat /\ b \in Nat /\ a <= b /\ b <= L
      BY <1>0, Zenon
    <3>2. G[n - 1] = SubSeq(p, 1, a) /\ w[n] = SubSeq(p, a + 1, b) /\ G[n] = SubSeq(p, 1, b)
      BY <3>0
    <3> HIDE DEF a, b, G
    <3>3. 1 \in 1 .. Len(p) + 1 /\ a \in 1 - 1 .. Len(p) /\ b \in a .. Len(p)
      BY <1>1, <3>1
    <3>4. SubSeq(p, 1, a) \o SubSeq(p, a + 1, b) = SubSeq(p, 1, b)
      BY <1>1, <3>3, ConcatAdjacentSubSeq
    <3>. QED
      BY <2>2, <3>2, <3>4
  <2>. QED
    BY <2>1, <2>2
<1>5. Joins(flatten)
  <2>1. Joins(G)
    <3> HIDE DEF G
    <3>. QED
      BY <1>4 DEF G
  <2> HIDE DEF Joins
  <2>. QED
    BY <2>1
<1>6. flatten[last] = G[last]
  <2> DEFINE Bad == {n \in 1 .. last : flatten[n] # G[n]}
  <2> HIDE DEF flatten, G
  <2>1. Bad = {}
    <3> SUFFICES ASSUME Bad # {} PROVE FALSE
      OBVIOUS
    <3>1. PICK n \in Bad : \A m \in Bad : n <= m
      <4>1. Bad \subseteq Nat
        OBVIOUS
      <4> HIDE DEF Bad
      <4>. QED
        BY <4>1, Minimum
    <3>2. n # 1 => n - 1 \in 1 .. last /\ flatten[n - 1] = G[n - 1]
      BY <3>1
    <3>3. flatten[n] = IF n = 1 THEN w[n] ELSE flatten[n - 1] \o w[n]
      BY <1>5, <3>1
    <3>4. G[n] = IF n = 1 THEN w[n] ELSE G[n - 1] \o w[n]
      BY <1>4, <3>1
    <3>5. flatten[n] = G[n]
      BY <3>2, <3>3, <3>4
    <3>. QED
      BY <3>1, <3>5
  <2>2. last \in 1 .. last
    OBVIOUS
  <2>. QED
    BY <2>1, <2>2
<1>7. G[last] = p
  BY <1>1, SubSeqFull
<1>. QED
  BY <1>3, <1>6, <1>7

LEMMA PagesFit ==
    ASSUME NEW L \in Nat \ {0}, NEW k \in Nat \ {0},
           NEW last, last = (L + k - 1) \div k
    PROVE  /\ last \in Nat \ {0} /\ (last - 1) * k < L /\ L <= last * k
<1>1. last \in Nat
  OBVIOUS
<1>2. last * k <= L + k - 1 /\ L + k - 1 < (last + 1) * k
  OBVIOUS
<1>3. (last + 1) * k = last * k + k /\ (last - 1) * k = last * k - k
  BY <1>1
<1>4. last * k \in Int
  BY <1>1
<1>5. L <= last * k /\ (last - 1) * k < L
  BY <1>1, <1>2, <1>3, <1>4
<1>. QED
  BY <1>1, <1>5

LEMMA TimesMonotone ==
    ASSUME NEW k \in Nat, NEW a \in Nat, NEW b \in Nat, a <= b
    PROVE  a * k \in Nat /\ b * k \in Nat /\ a * k <= b * k
<1>1. b * k = a * k + (b - a) * k /\ (b - a) * k \in Nat
  OBVIOUS
<1>. QED
  BY <1>1

\* Where the n-th page ends, and the page that the i-th row is on.
PageEnd(L, k, n) == IF n * k < L THEN n * k ELSE L
PageOf(k, i) == (i - 1) \div k + 1

LEMMA PageEnds ==
    ASSUME NEW L \in Nat, NEW k \in Nat \ {0}, NEW last \in Nat \ {0},
           (last - 1) * k <= L, L <= last * k
    PROVE  /\ \A n \in 0 .. last : PageEnd(L, k, n) \in 0 .. L
           /\ PageEnd(L, k, 0) = 0 /\ PageEnd(L, k, last) = L
           /\ \A n \in 1 .. last : /\ PageEnd(L, k, n - 1) = (n - 1) * k
                                   /\ PageEnd(L, k, n - 1) <= PageEnd(L, k, n)
<1>1. ASSUME NEW n \in 0 .. last PROVE n * k \in Nat
  BY TimesMonotone
<1>2. \A n \in 0 .. last : PageEnd(L, k, n) \in 0 .. L
  BY <1>1 DEF PageEnd
<1>3. 0 * k = 0 /\ last * k \in Nat
  BY <1>1
<1>4. PageEnd(L, k, 0) = 0 /\ PageEnd(L, k, last) = L
  BY <1>3 DEF PageEnd
<1>5. ASSUME NEW n \in 1 .. last
      PROVE  /\ PageEnd(L, k, n - 1) = (n - 1) * k
             /\ PageEnd(L, k, n - 1) <= PageEnd(L, k, n)
  <2>1. n - 1 \in Nat /\ last - 1 \in Nat /\ n - 1 <= last - 1 /\ n \in Nat /\ n - 1 <= n
    OBVIOUS
  <2>2. (n - 1) * k <= (last - 1) * k /\ (n - 1) * k \in Nat /\ (last - 1) * k \in Nat
    BY <2>1, TimesMonotone
  <2>3. (n - 1) * k <= n * k /\ n * k \in Nat
    BY <2>1, TimesMonotone
  <2>4. (n - 1) * k <= L
    BY <2>2
  <2>5. PageEnd(L, k, n - 1) = (n - 1) * k
    BY <2>2, <2>4 DEF PageEnd
  <2>6. (n - 1) * k <= PageEnd(L, k, n)
    BY <2>3, <2>4 DEF PageEnd
  <2>. QED
    BY <2>5, <2>6
<1>. QED
  BY <1>2, <1>4, <1>5

LEMMA PageIsUnique ==
    ASSUME NEW L \in Nat, NEW k \in Nat \ {0}, NEW last \in Nat \ {0},
           L <= last * k, NEW i \in 1 .. L
    PROVE  /\ PageOf(k, i) \in 1 .. last
           /\ (PageOf(k, i) - 1) * k < i /\ i <= PageEnd(L, k, PageOf(k, i))
           /\ \A n \in 1 .. last : (n - 1) * k < i /\ i <= PageEnd(L, k, n)
                                       => n = PageOf(k, i)
<1> DEFINE m == (i - 1) \div k
<1>1. m \in Nat /\ m * k <= i - 1 /\ i - 1 < (m + 1) * k
  OBVIOUS
<1>2. PageOf(k, i) = m + 1
  BY DEF PageOf
<1> HIDE DEF m
<1>3. m * k \in Nat /\ (m + 1) * k \in Nat /\ last * k \in Nat
  BY <1>1, TimesMonotone
<1>4. m + 1 <= last
  <2> SUFFICES ASSUME last <= m PROVE FALSE
    BY <1>1
  <2>1. last * k <= m * k
    BY <1>1, TimesMonotone
  <2>. QED
    BY <1>1, <1>3, <2>1
<1>5. (m + 1 - 1) * k < i /\ i <= PageEnd(L, k, m + 1)
  <2>1. m + 1 - 1 = m
    BY <1>1
  <2>. QED
    BY <1>1, <1>3, <2>1 DEF PageEnd
<1>6. ASSUME NEW n \in 1 .. last, (n - 1) * k < i, i <= PageEnd(L, k, n)
      PROVE  n = m + 1
  <2>1. n - 1 \in Nat /\ n \in Nat /\ n * k \in Nat /\ (n - 1) * k \in Nat
    BY TimesMonotone
  <2>2. i <= n * k
    BY <1>6, <2>1 DEF PageEnd
  <2>3. ~ (n <= m)
    <3> SUFFICES ASSUME n <= m PROVE FALSE
      OBVIOUS
    <3>1. n * k <= m * k
      BY <1>1, <2>1, TimesMonotone
    <3>. QED
      BY <1>1, <1>3, <2>1, <2>2, <3>1
  <2>4. ~ (m + 1 <= n - 1)
    <3> SUFFICES ASSUME m + 1 <= n - 1 PROVE FALSE
      OBVIOUS
    <3>1. (m + 1) * k <= (n - 1) * k
      BY <1>1, <2>1, TimesMonotone
    <3>. QED
      BY <1>1, <1>3, <1>6, <2>1, <3>1
  <2>. QED
    BY <1>1, <2>1, <2>3, <2>4
<1>. QED
  BY <1>1, <1>2, <1>4, <1>5, <1>6

\* A client who asks for all the pages gets a page of some sorting each time.
Answered(S, o, k, w) ==
    \E asked \in [1 .. num_pages(S, k) -> sortings(S, o)] :
        w = [n \in 1 .. num_pages(S, k) |-> page(asked[n], n, k)]

Pages(R, k, last) == [n \in 1 .. last |-> {ok(page(s, n, k)) : s \in R}]

LEMMA AnsweredPageByPage ==
    ASSUME NEW R, NEW k, NEW last, NEW w \in walks(Pages(R, k, last))
    PROVE  \E asked \in [1 .. last -> R] :
               w = [n \in 1 .. last |-> page(asked[n], n, k)]
<1> DEFINE answers == Pages(R, k, last)
           any == UNION {{n} \X answers[n] : n \in 1 .. last}
<1>1. PICK f \in [1 .. last -> any] :
          /\ \A n \in 1 .. last : f[n][1] = n
          /\ w = [n \in 1 .. last |-> f[n][2].rows]
  <2>1. DOMAIN answers = 1 .. last
    BY DEF Pages
  <2>. QED
    BY <2>1 DEF walks
<1>2. ASSUME NEW n \in 1 .. last
      PROVE  \E s \in R : f[n][2].rows = page(s, n, k)
  <2>1. PICK m \in 1 .. last : f[n] \in {m} \X answers[m]
    BY <1>1
  <2>2. f[n][2] \in answers[n]
    BY <1>1, <2>1
  <2>3. PICK s \in R : f[n][2] = ok(page(s, n, k))
    BY <2>2 DEF Pages
  <2>. QED
    BY <2>3 DEF ok
<1> DEFINE asked == [n \in 1 .. last |-> CHOOSE s \in R : f[n][2].rows = page(s, n, k)]
<1>3. asked \in [1 .. last -> R]
  BY <1>2
<1>4. \A n \in 1 .. last : f[n][2].rows = page(asked[n], n, k)
  BY <1>2
<1>5. w = [n \in 1 .. last |-> page(asked[n], n, k)]
  BY <1>1, <1>4
<1>. QED
  BY <1>3, <1>5

LEMMA ApiWalked ==
    ASSUME NEW q, NEW terms, orderable(terms), NEW size,
           NEW w \in api_walks(q, terms, size)
    PROVE  Answered(apply_query_params(q), order_tasks(terms), page_size(size), w)
<1> DEFINE S == apply_query_params(q)
           k == page_size(size)
           last == num_pages(S, k)
           R == sortings(S, order_tasks(terms))
           answers == [n \in 1 .. last |-> api_list(q, terms, n, size)]
<1>1. w \in walks(answers)
  BY DEF api_walks
<1>2. answers = Pages(R, k, last)
  BY DEF api_list, Pages
<1> HIDE DEF R, k, last, answers
<1>3. \E asked \in [1 .. last -> R] : w = [n \in 1 .. last |-> page(asked[n], n, k)]
  BY <1>1, <1>2, AnsweredPageByPage
<1>. QED
  BY <1>3 DEF R, k, last, Answered

LEMMA HtmlWalked ==
    ASSUME NEW q, NEW terms, orderable(terms), NEW w \in html_walks(q, terms)
    PROVE  Answered(apply_query_params(q), order_tasks(terms), HtmlPageSize, w)
<1> DEFINE S == apply_query_params(q)
           k == HtmlPageSize
           last == num_pages(S, k)
           R == sortings(S, order_tasks(terms))
           answers == [n \in 1 .. last |-> html_list(S, terms, n)]
<1>1. w \in walks(answers)
  BY DEF html_walks
<1>2. answers = Pages(R, k, last)
  <2>1. \A n \in 1 .. last : n # None
    BY NullIsNoNumber
  <2>. QED
    BY <2>1 DEF html_list, Pages
<1> HIDE DEF R, k, last, answers
<1>3. \E asked \in [1 .. last -> R] : w = [n \in 1 .. last |-> page(asked[n], n, k)]
  BY <1>1, <1>2, AnsweredPageByPage
<1>. QED
  BY <1>3 DEF R, k, last, Answered

LEMMA Walked ==
    ASSUME NEW q, NEW terms, orderable(terms),
           NEW w \in html_walks(q, terms)
                     \cup UNION {api_walks(q, terms, size) : size \in SizeInput}
    PROVE  \E k \in Nat \ {0} : Answered(apply_query_params(q), order_tasks(terms), k, w)
<1>1. CASE w \in html_walks(q, terms)
  BY <1>1, HtmlWalked, PageSizes
<1>2. CASE w \in UNION {api_walks(q, terms, size) : size \in SizeInput}
  <2>1. PICK size \in SizeInput : w \in api_walks(q, terms, size)
    BY <1>2
  <2>2. page_size(size) \in Nat \ {0}
    BY ListInputs, PageSizes DEF page_size
  <2>. QED
    BY <2>1, <2>2, ApiWalked
<1>. QED
  BY <1>1, <1>2

\* All that is needed to know of a walk: row i comes from the sorting that
\* page was cut from.
Got(S, o, k, last, asked, w, p) ==
    LET L == Cardinality(S)
    IN  /\ p \in [1 .. L -> S]
        /\ asked \in [1 .. last -> sortings(S, o)]
        /\ \A i \in 1 .. L : /\ PageOf(k, i) \in 1 .. last
                             /\ p[i] = asked[PageOf(k, i)][i]
        /\ DOMAIN w = 1 .. last
        /\ \A i \in 1 .. L : p[i] \in ToSet(w[PageOf(k, i)])
        /\ FlattenSeq(w) = p

LEMMA PageCut ==
    ASSUME NEW T, NEW L \in Nat, NEW s \in [1 .. L -> T], NEW p \in [1 .. L -> T],
           NEW a \in Nat, NEW b \in Nat, b <= L,
           \A i \in a + 1 .. b : s[i] = p[i]
    PROVE  SubSeq(s, a + 1, b) = SubSeq(p, a + 1, b)
<1> DEFINE u == SubSeq(s, a + 1, b)
           v == SubSeq(p, a + 1, b)
<1>1. a + 1 \in Int /\ b \in Int
  OBVIOUS
<1>2. (\A i \in a + 1 .. b : s[i] \in T) /\ (\A i \in a + 1 .. b : p[i] \in T)
  OBVIOUS
<1>3. /\ u \in Seq(T) /\ Len(u) = (IF a + 1 <= b THEN b - (a + 1) + 1 ELSE 0)
      /\ \A i \in 1 .. b - (a + 1) + 1 : u[i] = s[a + 1 + i - 1]
  BY <1>1, <1>2, SubSeqProperties
<1>4. /\ v \in Seq(T) /\ Len(v) = (IF a + 1 <= b THEN b - (a + 1) + 1 ELSE 0)
      /\ \A i \in 1 .. b - (a + 1) + 1 : v[i] = p[a + 1 + i - 1]
  BY <1>1, <1>2, SubSeqProperties
<1> HIDE DEF u, v
<1>5. \A i \in 1 .. Len(u) : u[i] = v[i]
  <2> SUFFICES ASSUME NEW i \in 1 .. Len(u) PROVE u[i] = v[i]
    OBVIOUS
  <2>1. i \in 1 .. b - (a + 1) + 1 /\ a + 1 + i - 1 \in a + 1 .. b
    BY <1>3
  <2>. QED
    BY <1>3, <1>4, <2>1
<1>6. u = v
  BY <1>3, <1>4, <1>5, SeqEqual
<1>. QED
  BY <1>6 DEF u, v

LEMMA PartHolds ==
    ASSUME NEW T, NEW L \in Nat, NEW p \in [1 .. L -> T],
           NEW a \in Nat, NEW b \in Nat, b <= L, NEW i \in a + 1 .. b
    PROVE  p[i] \in ToSet(SubSeq(p, a + 1, b))
<1> DEFINE u == SubSeq(p, a + 1, b)
<1>1. a + 1 \in Int /\ b \in Int /\ \A j \in a + 1 .. b : p[j] \in T
  OBVIOUS
<1>2. /\ u \in Seq(T) /\ Len(u) = (IF a + 1 <= b THEN b - (a + 1) + 1 ELSE 0)
      /\ \A j \in 1 .. b - (a + 1) + 1 : u[j] = p[a + 1 + j - 1]
  BY <1>1, SubSeqProperties
<1>3. DOMAIN u = 1 .. Len(u)
  BY <1>2, LenProperties
<1> HIDE DEF u
<1>4. i - a \in 1 .. b - (a + 1) + 1 /\ a + 1 + (i - a) - 1 = i /\ a + 1 <= b
  OBVIOUS
<1>5. i - a \in DOMAIN u /\ u[i - a] = p[i]
  BY <1>2, <1>3, <1>4
<1>. QED
  BY <1>5 DEF ToSet, u

LEMMA PagesGot ==
    ASSUME NEW S, S \subseteq All, NEW o, NEW k \in Nat \ {0},
           NEW last, last = num_pages(S, k),
           NEW asked \in [1 .. last -> sortings(S, o)],
           NEW w, w = [n \in 1 .. last |-> page(asked[n], n, k)]
    PROVE  \E p : Got(S, o, k, last, asked, w, p)
<1> DEFINE L == Cardinality(S)
           e == [n \in 0 .. last |-> PageEnd(L, k, n)]
           p == [i \in 1 .. L |-> asked[PageOf(k, i)][i]]
<1>0. IsFiniteSet(S) /\ L \in Nat /\ (L = 0 <=> S = {})
  BY SetsAreFinite, FS_EmptySet DEF All
<1>1. last \in Nat \ {0} /\ (last - 1) * k <= L /\ L <= last * k
  <2>1. CASE S = {}
    BY <2>1, <1>0 DEF num_pages
  <2>2. CASE S # {}
    <3>1. last = (L + k - 1) \div k
      BY <2>2 DEF num_pages
    <3>2. L \in Nat \ {0}
      BY <2>2, <1>0
    <3> HIDE DEF L
    <3>3. last \in Nat \ {0} /\ (last - 1) * k < L /\ L <= last * k
      BY <3>1, <3>2, PagesFit
    <3>4. (last - 1) * k \in Int
      BY <3>3
    <3>. QED
      BY <3>2, <3>3, <3>4
  <2>. QED
    BY <2>1, <2>2
<1> HIDE DEF L
<1>2. \A i \in 1 .. L :
          /\ PageOf(k, i) \in 1 .. last
          /\ (PageOf(k, i) - 1) * k < i /\ i <= PageEnd(L, k, PageOf(k, i))
          /\ \A n \in 1 .. last : (n - 1) * k < i /\ i <= PageEnd(L, k, n)
                                      => n = PageOf(k, i)
  <2>1. L \in Nat
    BY <1>0
  <2>2. last \in Nat \ {0} /\ L <= last * k
    BY <1>1
  <2> TAKE i \in 1 .. L
  <2>. QED
    BY <2>1, <2>2, PageIsUnique
<1>3. \A n \in 1 .. last : asked[n] \in [1 .. L -> S]
  BY SortingIsBijection DEF L
<1>4. p \in [1 .. L -> S]
  BY <1>2, <1>3
<1>5. /\ e \in [0 .. last -> 0 .. L] /\ e[0] = 0 /\ e[last] = L
      /\ \A n \in 1 .. last : e[n - 1] = (n - 1) * k /\ e[n - 1] <= e[n]
                                  /\ e[n] = PageEnd(L, k, n)
  <2>1. /\ \A n \in 0 .. last : PageEnd(L, k, n) \in 0 .. L
        /\ PageEnd(L, k, 0) = 0 /\ PageEnd(L, k, last) = L
        /\ \A n \in 1 .. last : /\ PageEnd(L, k, n - 1) = (n - 1) * k
                                /\ PageEnd(L, k, n - 1) <= PageEnd(L, k, n)
    BY <1>0, <1>1, PageEnds
  <2>2. 0 \in 0 .. last /\ last \in 0 .. last
    BY <1>1
  <2>3. \A n \in 1 .. last : n \in 0 .. last /\ n - 1 \in 0 .. last
    BY <1>1
  <2>. QED
    BY <2>1, <2>2, <2>3
<1>6. \A n \in 1 .. last : w[n] = SubSeq(p, e[n - 1] + 1, e[n])
  <2> SUFFICES ASSUME NEW n \in 1 .. last
               PROVE  w[n] = SubSeq(p, e[n - 1] + 1, e[n])
    OBVIOUS
  <2> DEFINE a == e[n - 1]
             b == e[n]
             s == asked[n]
  <2>1. a \in Nat /\ b \in Nat /\ b <= L /\ a = (n - 1) * k /\ b = PageEnd(L, k, n)
    <3>1. n \in 0 .. last /\ n - 1 \in 0 .. last
      BY <1>1
    <3>. QED
      BY <1>0, <1>5, <3>1
  <2>2. s \in [1 .. L -> S]
    BY <1>3
  <2>3. Len(s) = L
    BY <2>2, <1>0
  <2>4. w[n] = SubSeq(s, a + 1, b)
    BY <2>1, <2>3 DEF page, PageEnd
  <2>5. ASSUME NEW i \in a + 1 .. b PROVE s[i] = p[i]
    <3>1. i \in 1 .. L /\ a < i /\ i <= b
      BY <2>1, <1>0
    <3>2. n = PageOf(k, i)
      BY <3>1, <2>1, <1>2
    <3>. QED
      BY <3>1, <3>2
  <2> HIDE DEF a, b, s, p
  <2>6. SubSeq(s, a + 1, b) = SubSeq(p, a + 1, b)
    BY <2>1, <2>2, <2>5, <1>0, <1>4, PageCut
  <2>. QED
    BY <2>4, <2>6 DEF a, b
<1>7. FlattenSeq(w) = p
  <2>1. w = Cut(p, e, last)
    BY <1>6 DEF Cut
  <2>2. \A n \in 1 .. last : e[n - 1] <= e[n]
    BY <1>5
  <2>3. e \in [0 .. last -> 0 .. L] /\ e[0] = 0 /\ e[last] = L
    BY <1>5
  <2>4. L \in Nat /\ last \in Nat \ {0}
    BY <1>0, <1>1
  <2>5. p \in [1 .. L -> S]
    BY <1>4
  <2> HIDE DEF e, p
  <2>6. FlattenSeq(Cut(p, e, last)) = p
    BY ONLY <2>2, <2>3, <2>4, <2>5, CutAndJoined
  <2>. QED
    BY <2>1, <2>6
<1> HIDE DEF e
<1>8. ASSUME NEW i \in 1 .. L PROVE p[i] \in ToSet(w[PageOf(k, i)])
  <2> SUFFICES ASSUME NEW n \in 1 .. last, n = PageOf(k, i)
               PROVE  p[i] \in ToSet(w[n])
    BY <1>2
  <2> DEFINE a == e[n - 1]
             b == e[n]
  <2>1. (n - 1) * k < i /\ i <= PageEnd(L, k, n)
    BY <1>2
  <2>2. a \in Nat /\ b \in Nat /\ b <= L /\ a = (n - 1) * k /\ b = PageEnd(L, k, n)
    <3>1. n \in 0 .. last /\ n - 1 \in 0 .. last
      BY <1>1
    <3>2. a \in 0 .. L /\ b \in 0 .. L
      BY <1>5, <3>1
    <3>3. a = (n - 1) * k /\ b = PageEnd(L, k, n)
      BY <1>5
    <3>. QED
      BY <1>0, <3>2, <3>3
  <2>3. i \in a + 1 .. b
    BY <2>1, <2>2
  <2>4. w[n] = SubSeq(p, a + 1, b)
    BY <1>6
  <2> HIDE DEF a, b, p
  <2>5. p[i] \in ToSet(SubSeq(p, a + 1, b))
    BY <2>2, <2>3, <1>0, <1>4, PartHolds
  <2>. QED
    BY <2>4, <2>5
<1>9. DOMAIN w = 1 .. last
  OBVIOUS
<1>10. \A i \in 1 .. L : p[i] = asked[PageOf(k, i)][i]
  OBVIOUS
<1> HIDE DEF p
<1>11. Got(S, o, k, last, asked, w, p)
  BY <1>2, <1>4, <1>7, <1>8, <1>9, <1>10 DEF Got, L
<1>. QED
  BY <1>11

\* A task on no page has its place taken by one it ties with, which is on two.
LEMMA MissedForATie ==
    ASSUME TypeOK, NEW S, S \subseteq All, NEW o, IsOrdering(o),
           NEW k \in Nat \ {0}, NEW last \in Nat \ {0}, NEW asked, NEW w, NEW p,
           Got(S, o, k, last, asked, w, p),
           NEW t \in S, \A n \in 1 .. last : t \notin ToSet(w[n])
    PROVE  \E x \in S : /\ Tied(t, x, o)
                        /\ \E m, n \in 1 .. last :
                               m # n /\ x \in ToSet(w[m]) /\ x \in ToSet(w[n])
<1> DEFINE L == Cardinality(S)
           s == asked[1]
           C == {i \in 1 .. L : Tied(t, s[i], o)}
           T == {x \in S : Tied(t, x, o)}
<1>1. IsFiniteSet(S) /\ L \in Nat
  BY SetsAreFinite DEF All
<1>2. s \in sortings(S, o) /\ \A n \in 1 .. last : asked[n] \in sortings(S, o)
  BY DEF Got
<1> HIDE DEF L, s
<1>3. /\ s \in [1 .. L -> S]
      /\ \A x \in S : \E i \in 1 .. L : s[i] = x
  BY <1>2, SortingIsBijection DEF L
<1>4. \A i \in 1 .. L : /\ p[i] \in S
                        /\ PageOf(k, i) \in 1 .. last
                        /\ p[i] = asked[PageOf(k, i)][i]
                        /\ p[i] \in ToSet(w[PageOf(k, i)])
  BY DEF Got, L
<1>5. ASSUME NEW i \in C PROVE p[i] \in T \ {t}
  <2>1. i \in 1 .. L /\ Tied(t, s[i], o) /\ s[i] \in S /\ p[i] \in S
    BY <1>3, <1>4
  <2>2. asked[PageOf(k, i)] \in sortings(S, o)
    BY <1>2, <1>4, <2>1
  <2>3. Tied(s[i], p[i], o)
    BY <1>2, <1>4, <2>1, <2>2, SamePlaceTied DEF L
  <2>4. Alike(t, s[i], o) /\ Alike(s[i], p[i], o)
    BY <2>1, <2>3, Ranks
  <2>5. Tied(t, p[i], o)
    BY <2>1, <2>4, Ranks DEF Alike
  <2>6. p[i] # t
    BY <1>4, <2>1
  <2>. QED
    BY <2>1, <2>5, <2>6
<1>6. IsFiniteSet(C) /\ IsFiniteSet(T) /\ IsFiniteSet(T \ {t}) /\ t \in T
  <2>1. IsFiniteSet(1 .. L)
    BY <1>1, FS_Interval
  <2>2. IsFiniteSet(C) /\ IsFiniteSet(T)
    BY <1>1, <2>1, FS_Subset
  <2>3. Tied(t, t, o)
    BY Ranks DEF Alike
  <2>. QED
    BY <2>2, <2>3, FS_RemoveElement
<1>7. ~ (Cardinality(C) < Cardinality(T))
  <2> SUFFICES ASSUME Cardinality(C) < Cardinality(T) PROVE FALSE
    OBVIOUS
  <2> DEFINE h == [x \in T |-> CHOOSE i \in 1 .. L : s[i] = x]
  <2>1. \A x \in T : h[x] \in C /\ s[h[x]] = x
    <3> SUFFICES ASSUME NEW x \in T PROVE h[x] \in C /\ s[h[x]] = x
      OBVIOUS
    <3>1. h[x] \in 1 .. L /\ s[h[x]] = x
      BY <1>3
    <3>. QED
      BY <3>1
  <2>2. h \in [T -> C]
    BY <2>1
  <2> HIDE DEF h, C, T
  <2>3. PICK x \in T, y \in T : x # y /\ h[x] = h[y]
    BY <1>6, <2>2, FS_PigeonHole
  <2>. QED
    BY <2>1, <2>3
<1>8. Cardinality(T \ {t}) < Cardinality(C)
  <2> HIDE DEF C, T
  <2>1. Cardinality(T \ {t}) = Cardinality(T) - 1
    BY <1>6, FS_RemoveElement
  <2>2. Cardinality(T) \in Nat /\ Cardinality(C) \in Nat
    BY <1>6, FS_CardinalityType
  <2>. QED
    BY <1>7, <2>1, <2>2
<1>9. PICK i \in C, j \in C : i # j /\ p[i] = p[j]
  <2> DEFINE g == [i \in C |-> p[i]]
  <2>1. g \in [C -> T \ {t}]
    BY <1>5
  <2> HIDE DEF C, T, g
  <2>2. \E i, j \in C : i # j /\ g[i] = g[j]
    BY <1>6, <1>8, <2>1, FS_PigeonHole
  <2>. QED
    BY <2>2 DEF g
<1>10. i \in 1 .. L /\ j \in 1 .. L /\ p[i] \in T
  BY <1>5
<1>11. PageOf(k, i) # PageOf(k, j)
  <2> SUFFICES ASSUME PageOf(k, i) = PageOf(k, j) PROVE FALSE
    OBVIOUS
  <2>1. asked[PageOf(k, i)][i] = asked[PageOf(k, i)][j]
    BY <1>4, <1>9, <1>10
  <2>2. asked[PageOf(k, i)] \in sortings(S, o)
    BY <1>2, <1>4, <1>10
  <2>. QED
    BY <1>9, <1>10, <2>1, <2>2, SortingIsBijection DEF L
<1>. QED
  BY <1>4, <1>9, <1>10, <1>11

\* When the references decide, there is one sorting, and the pages cut it up.
LEMMA NoTiesNoChoice ==
    ASSUME TypeOK, NEW S, S \subseteq All, NEW o, IsOrdering(o),
           \E i \in DOMAIN o : o[i].field = "ref",
           NEW k \in Nat \ {0}, NEW last \in Nat \ {0}, NEW asked, NEW w, NEW p,
           Got(S, o, k, last, asked, w, p)
    PROVE  sortings(S, o) = {p}
<1> DEFINE D == 1 .. Cardinality(S)
<1>1. ASSUME NEW s \in All, NEW t \in All, Tied(s, t, o) PROVE s = t
  <2>1. Alike(s, t, o)
    BY <1>1, Ranks
  <2>2. PICK i \in DOMAIN o : o[i].field = "ref"
    OBVIOUS
  <2>3. Key(s, o, i) = s /\ Key(t, o, i) = t
    BY <2>2 DEF Key, column
  <2>. QED
    BY <2>1, <2>3 DEF Alike
<1>2. ASSUME NEW r \in sortings(S, o), NEW s \in sortings(S, o), NEW i \in D
      PROVE  r[i] = s[i] /\ r[i] \in S
  <2>1. r \in [D -> S] /\ s \in [D -> S]
    BY SortingIsBijection
  <2>2. Tied(r[i], s[i], o)
    BY SamePlaceTied
  <2>. QED
    BY <1>1, <2>1, <2>2
<1>3. asked[1] \in sortings(S, o) /\ \A n \in 1 .. last : asked[n] \in sortings(S, o)
  BY DEF Got
<1>4. p \in [D -> S] /\ \A i \in D : /\ PageOf(k, i) \in 1 .. last
                                     /\ p[i] = asked[PageOf(k, i)][i]
  BY DEF Got
<1>5. ASSUME NEW s \in sortings(S, o) PROVE s = p
  <2>1. s \in [D -> S]
    BY SortingIsBijection
  <2>2. \A i \in D : s[i] = p[i]
    BY <1>2, <1>3, <1>4
  <2> HIDE DEF D
  <2>. QED
    BY <1>4, <2>1, <2>2
<1>. QED
  BY <1>3, <1>5

LEMMA TwoOfThem ==
    ASSUME NEW A, IsFiniteSet(A), NEW m \in A, NEW n \in A, m # n
    PROVE  Cardinality(A) > 1
<1>1. IsFiniteSet({m}) /\ Cardinality({m}) = 1
  BY FS_Singleton
<1>2. Cardinality({m} \cup {n}) = 2
  BY <1>1, FS_AddElement
<1>3. {m} \cup {n} \in SUBSET A
  OBVIOUS
<1>4. Cardinality({m} \cup {n}) <= Cardinality(A)
  BY <1>3, FS_Subset
<1>5. Cardinality(A) \in Nat
  BY FS_CardinalityType
<1>. QED
  BY <1>2, <1>4, <1>5

\* All pages together are the export, row by row, when the ordering tells all
\* tasks apart; when it does not, a task may be missing from all the pages, but
\* only because one it ties with is on two of them (tasks/selectors.py 36-37,
\* 299-303; tasks/api.py 125-131, 181-198; core/pagination.py 4-9; tasks/views.py 70-72): for any
\* number of tasks, orderings, sizes of a page, and answers to each page.
THEOREM PagesAreAlwaysTheExport == Spec => []PagesAreTheExport
<1>1. ASSUME TypeOK PROVE PagesAreTheExport
  <2> SUFFICES ASSUME NEW q, NEW terms \in OrderingInput, orderable(terms),
                      NEW w \in html_walks(q, terms)
                          \cup UNION {api_walks(q, terms, size) : size \in SizeInput}
               PROVE  LET S == apply_query_params(q)
                          o == order_tasks(terms)
                          on(x) == {n \in DOMAIN w : x \in ToSet(w[n])}
                      IN  /\ ToSet(FlattenSeq(w)) \subseteq S
                          /\ \A t \in S : on(t) = {} =>
                                 \E x \in S : Tied(t, x, o) /\ Cardinality(on(x)) > 1
                          /\ (\E i \in DOMAIN o : o[i].field = "ref") =>
                                 export(q, terms) = {ok(FlattenSeq(w))}
    BY DEF PagesAreTheExport, order_tasks
  <2> DEFINE S == apply_query_params(q)
             o == order_tasks(terms)
             on(x) == {n \in DOMAIN w : x \in ToSet(w[n])}
  <2>1. PICK k \in Nat \ {0} : Answered(S, o, k, w)
    BY Walked
  <2> DEFINE last == num_pages(S, k)
  <2>2. S \subseteq All /\ S \subseteq Task
    BY DEF apply_query_params, filter_tasks, All
  <2>3. k \in Nat \ {0}
    OBVIOUS
  <2>4. IsOrdering(o)
    BY OrderingsAreParsed
  <2> HIDE DEF S, o
  <2>5. PICK asked \in [1 .. last -> sortings(S, o)] :
            w = [n \in 1 .. last |-> page(asked[n], n, k)]
    BY <2>1 DEF Answered
  <2>6. last \in Nat \ {0}
    BY <2>2, <2>3, FirstPage
  <2>7. PICK p : Got(S, o, k, last, asked, w, p)
    BY <2>5, <2>2, <2>3, PagesGot
  <2>8. DOMAIN w = 1 .. last /\ p \in [1 .. Cardinality(S) -> S] /\ FlattenSeq(w) = p
    BY <2>7 DEF Got
  <2> HIDE DEF last
  <2>9. ToSet(FlattenSeq(w)) \subseteq S
    BY <2>8 DEF ToSet
  <2>10. ASSUME NEW t \in S, on(t) = {}
        PROVE  \E x \in S : Tied(t, x, o) /\ Cardinality(on(x)) > 1
    <3>1. \A n \in 1 .. last : t \notin ToSet(w[n])
      BY <2>8, <2>10
    <3>2. PICK x \in S : /\ Tied(t, x, o)
                         /\ \E m, n \in 1 .. last :
                                m # n /\ x \in ToSet(w[m]) /\ x \in ToSet(w[n])
      BY <1>1, <2>2, <2>3, <2>4, <2>6, <2>7, <3>1, MissedForATie
    <3>3. PICK m \in on(x), n \in on(x) : m # n
      BY <2>8, <3>2
    <3>4. IsFiniteSet(1 .. last)
      BY <2>6, FS_Interval
    <3>5. IsFiniteSet(on(x))
      BY <2>8, <3>4, FS_Subset
    <3> HIDE DEF on
    <3>6. Cardinality(on(x)) > 1
      BY <3>3, <3>5, TwoOfThem
    <3>. QED
      BY <3>2, <3>6
  <2>11. ASSUME \E i \in DOMAIN o : o[i].field = "ref"
         PROVE  export(q, terms) = {ok(FlattenSeq(w))}
    <3>1. sortings(S, o) = {p}
      BY <1>1, <2>2, <2>3, <2>4, <2>6, <2>7, <2>11, NoTiesNoChoice
    <3>2. export(q, terms) = {ok(s) : s \in sortings(S, o)}
      BY DEF export, S, o
    <3>. QED
      BY <2>8, <3>1, <3>2
  <2>. QED
    BY <2>9, <2>10, <2>11 DEF S, o
<1>. QED
  BY <1>1, TypeCorrect, PTL
=============================================================================
