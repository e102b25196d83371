---------------------------- MODULE Notifications ----------------------------
(***************************************************************************)
(* The notification table (notifications/models.py), the triggers that     *)
(* write it (notifications/services.py) and the bell (notifications/       *)
(* views.py).  A trigger is an operator from the table before to the table *)
(* after, since one transaction may pull several; the modules that extend  *)
(* this one say when.                                                      *)
(***************************************************************************)
EXTENDS TaskPolicy

VARIABLE notice   \* notice[<<t, u, k>>]: the row of that task, user and kind

Kind == {"assigned", "reassigned", "urgent", "due_soon", "overdue",
         "status_changed"}
AlertKind == {"due_soon", "overdue"}

(* UNIQUE(task, user, kind): a key has no row, or one, unread or read.     *)
Key == Task \X User \X Kind
NoticeState == {"none", "unread", "read"}

NoticeTypeOK == notice \in [Key -> NoticeState]

NoticeInit == notice = [k \in Key |-> "none"]

Has(t, u, kind) == notice[<<t, u, kind>>] # "none"

-----------------------------------------------------------------------------
\* A way to get the next definition wrong: only unread rows are looked up.
notify_again(n, t, users, kind) ==
    [k \in Key |->
        IF k[1] = t /\ k[2] \in users /\ k[3] = kind THEN "unread" ELSE n[k]]

(* notify() for each of `users`: get_or_create, so a row that is there is  *)
(* left as it is, read or not.                                             *)
notify(n, t, users, kind) ==
    [k \in Key |->
        IF k[1] = t /\ k[2] \in users /\ k[3] = kind /\ n[k] = "none"
        THEN "unread" ELSE n[k]]

notify_assigned(n, t, assignee, actor) ==
    notify(n, t, {assignee} \ {None, actor}, "assigned")

notify_reassigned(n, t, assignee, actor) ==
    notify(n, t, {assignee} \ {None, actor}, "reassigned")

notify_urgent(n, t, assignee, actor) ==
    notify(n, t,
           ({assignee} \cup {u \in User : is_manager(u)}) \ {None, actor},
           "urgent")

notify_watchers_status_changed(n, t, watching, actor) ==
    notify(n, t, watching \ {actor}, "status_changed")

\* A way to get the next definition wrong: the filter on the user left out.
prune_everyones_alerts(n, t, previous) ==
    [k \in Key |->
        IF k[1] = t /\ k[3] \in AlertKind /\ n[k] = "unread"
        THEN "none" ELSE n[k]]

(* The unread alerts of whoever the instance says was assignee.            *)
prune_stale_alerts(n, t, previous) ==
    [k \in Key |->
        IF k[1] = t /\ k[2] = previous /\ k[3] \in AlertKind /\ n[k] = "unread"
        THEN "none" ELSE n[k]]

(* ON DELETE CASCADE of the task.                                          *)
cascade(n, t) == [k \in Key |-> IF k[1] = t THEN "none" ELSE n[k]]

-----------------------------------------------------------------------------
(* The notices of one kind that the daily job is to create for the tasks   *)
(* its query returns, each with the assignee it has in `who` (None is      *)
(* nobody): one for the assignee, and when the task is overdue one for     *)
(* every manager and admin too.                                            *)
alert_notices(kind, tasks, who) ==
    {k \in Key : /\ k[1] \in tasks
                 /\ \/ k[2] = who[k[1]]
                    \/ kind = "overdue" /\ is_manager(k[2])
                 /\ k[3] = kind}

-----------------------------------------------------------------------------
(* The bell.  mark_read loads the row, then saves its one column: if the   *)
(* row went away in between the save fails, so the two queries act as one. *)
mark_read(u) ==
    \E k \in Key :
        /\ k[2] = u
        /\ notice[k] = "unread"
        /\ notice' = [notice EXCEPT ![k] = "read"]

mark_all_read(u) ==
    /\ \E k \in Key : k[2] = u /\ notice[k] = "unread"
    /\ notice' = [k \in Key |->
                     IF k[2] = u /\ notice[k] = "unread" THEN "read"
                     ELSE notice[k]]

-----------------------------------------------------------------------------
(* NotificationAdmin: the Django Admin deletes any notices, and adds one   *)
(* or changes every column of it; the form sees to the unique key.         *)
delete_notices(gone) ==
    notice' = [k \in Key |-> IF k \in gone THEN "none" ELSE notice[k]]

save_notice(old, new, state) ==
    /\ new = old \/ notice[new] = "none"
    /\ notice' = [notice EXCEPT ![old] = "none", ![new] = state]
=============================================================================
