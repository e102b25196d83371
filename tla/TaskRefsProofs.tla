---------------------------- MODULE TaskRefsProofs ----------------------------
(***************************************************************************)
(* Proofs about TaskRefs, for any number of workers and of tasks.          *)
(*                                                                         *)
(* Numbers are never compared with those of deleted tasks or of creations  *)
(* that were rolled back, which no table remembers.  What keeps them apart *)
(* is that wherever a number is, with the instance that shows it or with   *)
(* whoever was told, it is the one made of the key of its task.  Blank     *)
(* ones are kept apart by the unique column alone.                         *)
(***************************************************************************)
EXTENDS TaskRefs, TLAPS

VersionsNumbered ==
    \A v \in history : v.pk <= seq /\ v.ref \in {Blank, ref(v.pk)}

RowsRecorded ==
    /\ table \subseteq history
    /\ \A row, other \in table : row.pk = other.pk => row = other

InstancesNumbered ==
    \A p \in Process :
        /\ doing[p] \in {"notify", "commit"} => task[p].ref = ref(task[p].pk)
        /\ doing[p] = "save" => task[p] \in history

\* Nobody else has the key of a task that is being created.
Unborn ==
    \A p \in Process : doing[p] \in Creating =>
        /\ \A v \in history : v.pk # task[p].pk
        /\ \A q \in Process \ {p} :
               doing[q] \in Creating => task[q].pk # task[p].pk

NamedByKey == \A told \in named : told[1] = ref(told[2])

Inv == /\ TypeOK /\ VersionsNumbered /\ RowsRecorded /\ InstancesNumbered
       /\ Unborn /\ NamedByKey /\ RefsIdentify

LEMMA RefType == \A pk \in Nat : ref(pk) \in Ref /\ ref(pk) # Blank
BY DEF ref, Ref, Blank

LEMMA RefInjective == \A j, k \in Nat : ref(j) = ref(k) => j = k
BY DEF ref

LEMMA BlankType == \A pk \in Nat : [pk |-> pk, ref |-> Blank] \in Instance
<1>1. Blank \in Ref
  BY DEF Blank, Ref
<1>. QED
  BY <1>1 DEF Instance

LEMMA InitInv == Init => Inv
BY BlankType DEF Init, Inv, TypeOK, VersionsNumbered, RowsRecorded,
   InstancesNumbered, Unborn, NamedByKey, RefsIdentify, Creating

LEMMA AbortInv == ASSUME Inv, NEW p \in Process, abort(p) PROVE Inv'
BY DEF Inv, TypeOK, VersionsNumbered, RowsRecorded, InstancesNumbered, Unborn,
       NamedByKey, RefsIdentify, abort, goes, Creating

LEMMA CreateInv == ASSUME Inv, NEW p \in Process, create(p) PROVE Inv'
<1>1. [pk |-> seq + 1, ref |-> Blank] \in Instance
  BY BlankType DEF Inv, TypeOK
<1>2. seq' \in Nat /\ seq' = seq + 1
  BY DEF Inv, TypeOK, create
<1>3. TypeOK'
  BY <1>1, <1>2 DEF Inv, TypeOK, create, goes, Creating, Instance
<1>4. VersionsNumbered'
  BY <1>2 DEF Inv, TypeOK, VersionsNumbered, create, Instance
<1>5. InstancesNumbered'
  BY DEF Inv, TypeOK, InstancesNumbered, create, goes
<1>6. Unborn'
  <2>1. task'[p].pk = seq + 1 /\ \A q \in Process \ {p} :
            task'[q] = task[q] /\ doing'[q] = doing[q] /\ task[q].pk <= seq
    BY DEF Inv, TypeOK, create, goes
  <2>2. \A v \in history : v.pk \in Nat /\ v.pk <= seq
    BY DEF Inv, TypeOK, VersionsNumbered, Instance
  <2>3. \A q \in Process : task[q].pk \in Nat /\ seq \in Nat
    BY DEF Inv, TypeOK, Instance
  <2>. QED
    BY <2>1, <2>2, <2>3 DEF Inv, Unborn, create
<1>7. RowsRecorded' /\ NamedByKey' /\ RefsIdentify'
  BY DEF Inv, RowsRecorded, NamedByKey, RefsIdentify, create
<1>. QED
  BY <1>3, <1>4, <1>5, <1>6, <1>7 DEF Inv

LEMMA InsertInv == ASSUME Inv, NEW p \in Process, insert(p) PROVE Inv'
<1>1. CASE Blank \in refs
  BY <1>1, AbortInv DEF insert
<1>2. CASE Blank \notin refs
  BY <1>2 DEF Inv, TypeOK, VersionsNumbered, RowsRecorded, InstancesNumbered,
              Unborn, NamedByKey, RefsIdentify, insert, executes, goes, Creating
<1>. QED
  BY <1>1, <1>2

LEMMA FillInv == ASSUME Inv, NEW p \in Process, fill_ref(p) PROVE Inv'
<1> DEFINE new == ref(task[p].pk)
<1>1. CASE new \in refs
  BY <1>1, AbortInv DEF fill_ref
<1>2. CASE new \notin refs
  <2>1. task[p] \in Instance /\ new \in Ref
    BY RefType DEF Inv, TypeOK, Instance
  <2>2. /\ task' = [task EXCEPT ![p].ref = new]
        /\ goes(p, "notify")
        /\ doing[p] = "fill_ref"
        /\ UNCHANGED <<seq, table, history, named>>
    BY <1>2 DEF fill_ref, executes
  <2>3. task'[p].pk = task[p].pk /\ task'[p].ref = new /\ task'[p] \in Instance
    BY <2>1, <2>2 DEF Inv, TypeOK, Instance
  <2>4. \A q \in Process \ {p} : task'[q] = task[q]
    BY <2>2 DEF Inv, TypeOK
  <2>5. task' \in [Process -> Instance]
    BY <2>2, <2>3, <2>4 DEF Inv, TypeOK
  <2>6. TypeOK'
    BY <2>2, <2>3, <2>4, <2>5 DEF Inv, TypeOK, goes, Creating
  <2>7. InstancesNumbered'
    BY <2>2, <2>3, <2>4 DEF Inv, TypeOK, InstancesNumbered, goes
  <2>8. Unborn'
    BY <2>2, <2>3, <2>4 DEF Inv, TypeOK, Unborn, goes, Creating
  <2>. QED
    BY <2>2, <2>6, <2>7, <2>8
       DEF Inv, VersionsNumbered, RowsRecorded, NamedByKey, RefsIdentify
<1>. QED
  BY <1>1, <1>2

LEMMA NotifyInv == ASSUME Inv, NEW p \in Process, notify(p) PROVE Inv'
<1> DEFINE told == <<task[p].ref, task[p].pk>>
<1>1. told \in Ref \X Nat /\ told[1] = ref(told[2])
  BY DEF Inv, TypeOK, InstancesNumbered, Instance, notify, executes
<1>2. named' \subseteq named \cup {told}
  BY DEF notify
<1>3. TypeOK'
  BY <1>1, <1>2 DEF Inv, TypeOK, notify, goes, Creating
<1>4. InstancesNumbered' /\ Unborn'
  BY DEF Inv, TypeOK, InstancesNumbered, Unborn, notify, goes, executes, Creating
<1>. QED
  BY <1>1, <1>2, <1>3, <1>4
     DEF Inv, VersionsNumbered, RowsRecorded, NamedByKey, RefsIdentify, notify

LEMMA CommitInv == ASSUME Inv, NEW p \in Process, commit(p) PROVE Inv'
<1> DEFINE told == <<task[p].ref, task[p].pk>>
           first == [task[p] EXCEPT !.ref = Blank]
<1>1. task[p] \in Instance /\ task[p].pk <= seq /\ task[p].ref = ref(task[p].pk)
  BY DEF Inv, TypeOK, InstancesNumbered, commit, executes
<1>2. told \in Ref \X Nat /\ told[1] = ref(told[2])
  BY <1>1 DEF Instance
<1>3. first = [pk |-> task[p].pk, ref |-> Blank]
  BY <1>1 DEF Instance
<1>4. first \in Instance
  BY <1>1, <1>3, BlankType DEF Instance
<1>5. /\ table' = table \cup {task[p]}
      /\ history' = history \cup {task[p], first}
      /\ named' = named \cup {told}
      /\ doing' = [doing EXCEPT ![p] = "idle"]
      /\ UNCHANGED <<seq, task>>
      /\ doing[p] \in Creating
  BY DEF commit, executes, goes, Creating
<1>6. TypeOK'
  BY <1>1, <1>2, <1>4, <1>5 DEF Inv, TypeOK
<1>7. VersionsNumbered'
  BY <1>1, <1>3, <1>5 DEF Inv, VersionsNumbered
<1>8. \A row \in table : row.pk # task[p].pk
  BY <1>5 DEF Inv, RowsRecorded, Unborn
<1>9. RowsRecorded'
  BY <1>5, <1>8 DEF Inv, RowsRecorded
<1>10. InstancesNumbered'
  BY <1>5 DEF Inv, TypeOK, InstancesNumbered
<1>11. Unborn'
  BY <1>3, <1>5 DEF Inv, TypeOK, Unborn, Creating
<1>12. NamedByKey'
  BY <1>2, <1>5 DEF Inv, NamedByKey
<1>13. \A row \in table : row.ref # task[p].ref
  BY <1>1, <1>8, RefType, RefInjective
     DEF Inv, TypeOK, RowsRecorded, VersionsNumbered, Instance
<1>14. RefsIdentify'
  BY <1>5, <1>13 DEF Inv, RefsIdentify
<1>. QED
  BY <1>6, <1>7, <1>9, <1>10, <1>11, <1>12, <1>14 DEF Inv

\* The instance of an edit, or of a revert.
LEMMA TakeInv ==
  ASSUME Inv, NEW p \in Process, NEW version \in history, doing[p] = "idle",
         task' = [task EXCEPT ![p] = version], goes(p, "save"),
         UNCHANGED <<seq, table, history, named>>
  PROVE  Inv'
<1>1. version \in Instance /\ version.pk <= seq
  BY DEF Inv, TypeOK, VersionsNumbered
<1>2. TypeOK'
  BY <1>1 DEF Inv, TypeOK, goes
<1>3. InstancesNumbered' /\ Unborn'
  BY DEF Inv, TypeOK, InstancesNumbered, Unborn, goes, Creating
<1>. QED
  BY <1>2, <1>3 DEF Inv, VersionsNumbered, RowsRecorded, NamedByKey, RefsIdentify

LEMMA LoadInv == ASSUME Inv, NEW p \in Process, load(p) PROVE Inv'
BY TakeInv DEF load, Inv, RowsRecorded

LEMMA RevertInv == ASSUME Inv, NEW p \in Process, revert(p) PROVE Inv'
BY TakeInv DEF revert

LEMMA SaveInv == ASSUME Inv, NEW p \in Process, save(p) PROVE Inv'
<1> DEFINE others == {row \in table : row.pk # task[p].pk}
<1>1. CASE \E row \in others : row.ref = task[p].ref
  BY <1>1, AbortInv DEF save
<1>2. CASE ~ \E row \in others : row.ref = task[p].ref
  <2>1. /\ table' = others \cup {task[p]}
        /\ history' = history \cup {task[p]}
        /\ goes(p, "idle")
        /\ UNCHANGED <<seq, task, named>>
    BY <1>2 DEF save
  <2>2. task[p] \in history
    BY DEF Inv, InstancesNumbered, save, executes
  <2>3. history' = history
    BY <2>1, <2>2
  <2>4. TypeOK'
    BY <2>1, <2>2, <2>3 DEF Inv, TypeOK, goes
  <2>5. RowsRecorded'
    BY <2>1, <2>2, <2>3 DEF Inv, RowsRecorded
  <2>6. InstancesNumbered' /\ Unborn'
    BY <2>1, <2>3 DEF Inv, TypeOK, InstancesNumbered, Unborn, goes, Creating
  <2>7. RefsIdentify'
    BY <1>2, <2>1 DEF Inv, RefsIdentify
  <2>. QED
    BY <2>1, <2>3, <2>4, <2>5, <2>6, <2>7 DEF Inv, VersionsNumbered, NamedByKey
<1>. QED
  BY <1>1, <1>2

LEMMA DeleteInv == ASSUME Inv, NEW p \in Process, delete(p) PROVE Inv'
BY DEF Inv, TypeOK, VersionsNumbered, RowsRecorded, InstancesNumbered, Unborn,
       NamedByKey, RefsIdentify, delete

LEMMA NextInv == Inv /\ [Next]_vars => Inv'
<1> SUFFICES ASSUME Inv, [Next]_vars PROVE Inv'
  OBVIOUS
<1>1. CASE UNCHANGED vars
  BY <1>1 DEF vars, Inv, TypeOK, VersionsNumbered, RowsRecorded,
              InstancesNumbered, Unborn, NamedByKey, RefsIdentify
<1>2. ASSUME NEW p \in Process, fail(p) PROVE Inv'
  BY <1>2, AbortInv DEF fail
<1>. QED
  BY <1>1, <1>2, CreateInv, InsertInv, FillInv, NotifyInv, CommitInv, LoadInv,
     RevertInv, SaveInv, DeleteInv DEF Next

LEMMA Invariance == Spec => []Inv
BY InitInv, NextInv, PTL DEF Spec

-----------------------------------------------------------------------------
(* Types, and: no request holds a key that the sequence has not given out. *)
THEOREM TypeCorrect == Spec => []TypeOK
<1>1. Inv => TypeOK
  BY DEF Inv
<1>. QED
  BY <1>1, Invariance, PTL

(* No two tasks ever have the same number, nor the same blank, however     *)
(* many workers create, edit, delete and revert tasks (tasks/models.py     *)
(* 104-117).                                                               *)
THEOREM RefsAlwaysIdentify == Spec => []RefsIdentify
<1>1. Inv => RefsIdentify
  BY DEF Inv
<1>. QED
  BY <1>1, Invariance, PTL

-----------------------------------------------------------------------------
(* Where nobody opens the history page, nobody has a blank instance either *)
(* outside of a creation.                                                  *)
NoBlanks ==
    /\ NoBlankRef
    /\ \A p \in Process : doing[p] \in {"notify", "commit", "save"}
                               => task[p].ref # Blank

LEMMA NoBlanksNext ==
  ASSUME Restorer = {}, Inv, NoBlanks, [Next]_vars
  PROVE  NoBlanks'
<1>1. CASE UNCHANGED vars
  BY <1>1 DEF vars, NoBlanks, NoBlankRef
<1> SUFFICES ASSUME NEW p \in Process,
                    \/ create(p) \/ insert(p) \/ fill_ref(p) \/ notify(p)
                    \/ commit(p) \/ fail(p) \/ load(p) \/ save(p) \/ delete(p)
             PROVE  NoBlanks'
  BY <1>1 DEF Next, revert
<1>2. CASE create(p) \/ insert(p) \/ notify(p) \/ fail(p) \/ delete(p)
  BY <1>2 DEF Inv, TypeOK, NoBlanks, NoBlankRef, create, insert, notify, fail,
              delete, abort, goes, executes
<1>3. CASE fill_ref(p)
  <2>1. task[p] \in Instance /\ task[p].pk \in Nat /\ ref(task[p].pk) # Blank
    BY RefType DEF Inv, TypeOK, Instance
  <2>2. CASE abort(p)
    BY <2>2 DEF Inv, TypeOK, NoBlanks, NoBlankRef, abort, goes
  <2>3. CASE ~ abort(p)
    BY <1>3, <2>1, <2>3
       DEF Inv, TypeOK, NoBlanks, NoBlankRef, fill_ref, goes, Instance
  <2>. QED
    BY <2>2, <2>3
<1>4. CASE commit(p)
  BY <1>4 DEF Inv, TypeOK, NoBlanks, NoBlankRef, commit, goes, executes
<1>5. CASE load(p)
  BY <1>5 DEF Inv, TypeOK, NoBlanks, NoBlankRef, load, goes
<1>6. CASE save(p)
  BY <1>6 DEF Inv, TypeOK, NoBlanks, NoBlankRef, save, abort, goes, executes
<1>. QED
  BY <1>2, <1>3, <1>4, <1>5, <1>6

(* "no other connection can ever read a row with a blank ref" (tasks/      *)
(* models.py 108-109): so it is as long as nobody reverts a task to its    *)
(* first version.                                                          *)
THEOREM OnlyRevertsBlank == Restorer = {} /\ Spec => []NoBlankRef
<1>1. Init => NoBlanks
  BY DEF Init, NoBlanks, NoBlankRef
<1>2. Restorer = {} /\ Inv /\ NoBlanks /\ [Next]_vars => NoBlanks'
  BY NoBlanksNext
<1>3. NoBlanks => NoBlankRef
  BY DEF NoBlanks
<1>4. CASE Restorer = {}
  BY <1>1, <1>2, <1>3, <1>4, Invariance, PTL DEF Spec
<1>. QED
  BY <1>4

(* A number that anybody has been told never names another task, whatever  *)
(* is deleted, comes back or is rolled back (README.md 95-98).             *)
THEOREM RefsNeverReused == Spec => []RefNamesOneTask
<1>1. ASSUME Inv, NEW old \in named, NEW new \in named, old[1] = new[1]
      PROVE  old[2] = new[2]
  <2>1. old[2] \in Nat /\ new[2] \in Nat /\ ref(old[2]) = ref(new[2])
    BY <1>1 DEF Inv, TypeOK, NamedByKey
  <2>. QED
    BY <2>1, RefInjective
<1>2. Inv => RefNamesOneTask
  BY <1>1 DEF RefNamesOneTask
<1>. QED
  BY <1>2, Invariance, PTL
=============================================================================
