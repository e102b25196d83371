------------------------------ MODULE TaskRefs ------------------------------
(***************************************************************************)
(* How a task gets its number, TSK-000042, which names it in the URLs, in  *)
(* mails and in the folder of its attachments.                             *)
(*                                                                         *)
(* The number is made of the primary key, so a task is inserted with a     *)
(* blank one, which a second statement replaces in the same transaction    *)
(* (tasks/models.py, Task.save).  The column is unique: PostgreSQL makes   *)
(* whoever inserts a key that an open transaction has inserted, even if    *)
(* that one has replaced it since, wait until the transaction ends.        *)
(***************************************************************************)
EXTENDS Integers

CONSTANTS
    Process,    \* web workers, one request at a time each
    Restorer,   \* those that serve the history page of the Admin
    MaxPk       \* bound: numbers given out

VARIABLES
    seq,        \* the sequence of the primary key: the last one given out
    table,      \* the committed rows
    history,    \* the versions in the history table
    doing,      \* doing[p]: the next statement of the request of process p
    task,       \* task[p]: the instance that request holds
    named       \* what has been told to anybody: pairs of a number and a task

vars == <<seq, table, history, doing, task, named>>

Blank == <<"", 0>>
\* "TSK-" and at least six digits: no two keys give the same.
ref(pk) == <<"TSK", pk>>
Ref == {"", "TSK"} \X Nat
Instance == [pk : Nat, ref : Ref]

Creating == {"insert", "fill_ref", "notify", "commit"}

TypeOK ==
    /\ seq \in Nat
    /\ table \subseteq Instance
    /\ history \subseteq Instance
    /\ doing \in [Process -> Creating \cup {"idle", "save"}]
    /\ task \in [Process -> Instance]
    /\ named \subseteq Ref \X Nat
    /\ \A p \in Process : task[p].pk <= seq

Init ==
    /\ seq = 0
    /\ table = {}
    /\ history = {}
    /\ doing = [p \in Process |-> "idle"]
    /\ task = [p \in Process |-> [pk |-> 0, ref |-> Blank]]
    /\ named = {}

-----------------------------------------------------------------------------
refs == {row.ref : row \in table}

\* The keys of the index on ref that an open transaction has inserted.
holds(p) ==
    CASE doing[p] = "fill_ref" -> {Blank}
      [] doing[p] \in {"notify", "commit"} -> {Blank, task[p].ref}
      [] OTHER -> {}

\* The key that the next statement inserts.
inserts(p) ==
    CASE doing[p] = "insert" -> {Blank}
      [] doing[p] = "fill_ref" -> {ref(task[p].pk)}
      [] doing[p] = "save" -> {task[p].ref}
      [] OTHER -> {}

WaitsFor(p, q) == p # q /\ inserts(p) \cap holds(q) # {}

executes(p, statement) ==
    /\ doing[p] = statement
    /\ \A q \in Process : ~ WaitsFor(p, q)

goes(p, statement) == doing' = [doing EXCEPT ![p] = statement]

(* ROLLBACK: a constraint refuses the task, or the worker is killed.  The  *)
(* sequence is not set back.                                               *)
abort(p) ==
    /\ goes(p, "idle")
    /\ UNCHANGED <<seq, table, history, task, named>>

-----------------------------------------------------------------------------
(* A creation, by create_task or by the Admin's form.  The INSERT takes    *)
(* its key from the sequence before it looks at the index.                 *)
create(p) ==
    /\ doing[p] = "idle"
    /\ seq < MaxPk
    /\ seq' = seq + 1
    /\ task' = [task EXCEPT ![p] = [pk |-> seq + 1, ref |-> Blank]]
    /\ goes(p, "insert")
    /\ UNCHANGED <<table, history, named>>

insert(p) ==
    /\ executes(p, "insert")
    /\ IF Blank \in refs THEN abort(p)
       ELSE /\ goes(p, "fill_ref")
            /\ UNCHANGED <<seq, table, history, task, named>>

fill_ref(p) ==
    /\ executes(p, "fill_ref")
    /\ LET new == ref(task[p].pk)
       IN  IF new \in refs THEN abort(p)
           ELSE /\ task' = [task EXCEPT ![p].ref = new]
                /\ goes(p, "notify")
                /\ UNCHANGED <<seq, table, history, named>>

(* The assignee, and of an urgent task the managers, are sent mails that   *)
(* name the task, before it is committed.                                  *)
notify(p) ==
    /\ executes(p, "notify")
    /\ \/ named' = named \cup {<<task[p].ref, task[p].pk>>}
       \/ UNCHANGED named
    /\ goes(p, "commit")
    /\ UNCHANGED <<seq, table, history, task>>

\* Each of the two saves has added its version to the history.
commit(p) ==
    /\ executes(p, "commit")
    /\ table' = table \cup {task[p]}
    /\ history' = history \cup {task[p], [task[p] EXCEPT !.ref = Blank]}
    /\ named' = named \cup {<<task[p].ref, task[p].pk>>}
    /\ goes(p, "idle")
    /\ UNCHANGED <<seq, task>>

fail(p) == doing[p] # "idle" /\ abort(p)

-----------------------------------------------------------------------------
(* Afterwards.  An edit saves the instance it has loaded, every column of  *)
(* it, and inserts it again when the row is gone; the Admin deletes tasks, *)
(* of which the version in the history is one that it has.                 *)
load(p) ==
    /\ doing[p] = "idle"
    /\ \E row \in table : task' = [task EXCEPT ![p] = row]
    /\ goes(p, "save")
    /\ UNCHANGED <<seq, table, history, named>>

(* The history page of the Admin saves a version of the task, whether the  *)
(* task is there or not, with the number that version had: the form has    *)
(* no such field, and save() fills in none, as the instance is not new.    *)
revert(p) ==
    /\ doing[p] = "idle"
    /\ p \in Restorer
    /\ \E version \in history : task' = [task EXCEPT ![p] = version]
    /\ goes(p, "save")
    /\ UNCHANGED <<seq, table, history, named>>

save(p) ==
    /\ executes(p, "save")
    /\ LET others == {row \in table : row.pk # task[p].pk}
       IN  IF \E row \in others : row.ref = task[p].ref THEN abort(p)
           ELSE /\ table' = others \cup {task[p]}
                /\ history' = history \cup {task[p]}
                /\ goes(p, "idle")
                /\ UNCHANGED <<seq, task, named>>

delete(p) ==
    /\ doing[p] = "idle"
    /\ \E row \in table : table' = table \ {row}
    /\ UNCHANGED <<seq, history, doing, task, named>>

Next ==
    \E p \in Process :
        \/ create(p) \/ insert(p) \/ fill_ref(p) \/ notify(p) \/ commit(p)
        \/ fail(p) \/ load(p) \/ revert(p) \/ save(p) \/ delete(p)

Spec == Init /\ [][Next]_vars

-----------------------------------------------------------------------------
(* "no other connection can ever read a row with a blank ref"              *)
(* (tasks/models.py 108-109).                                              *)
NoBlankRef == \A row \in table : row.ref # Blank

(* Each number leads to one task (tasks/models.py 104-117).                *)
RefsIdentify == \A row, other \in table : other.ref = row.ref => other = row

(* A number that anybody has been told never names another task: not when  *)
(* its task is deleted or comes back, and not when a mail had named it and *)
(* its creation was then rolled back, for which the gaps are there         *)
(* (README.md 95-98).                                                      *)
RefNamesOneTask ==
    \A old, new \in named : old[1] = new[1] => old[2] = new[2]
=============================================================================
