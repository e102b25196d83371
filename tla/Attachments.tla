----------------------------- MODULE Attachments -----------------------------
(***************************************************************************)
(* Attachments live in two places: their rows in the database, their files *)
(* on the media volume (tasks/services.py, attach_file; tasks/models.py).  *)
(* No transaction spans the two, and neither does the nightly backup       *)
(* (scripts/backup.sh), which dumps the one and then archives the other    *)
(* while the application runs.  An operator restores the two from a pair   *)
(* of backups with one timestamp, after both volumes were lost.            *)
(***************************************************************************)
EXTENDS Naturals, FiniteSets

CONSTANTS
    File,             \* the paths of uploads on the media volume
    LastNight,        \* bound: backups run in nights 1 .. LastNight
    RETENTION_DAYS

ASSUME Nights == LastNight \in Nat /\ RETENTION_DAYS \in Nat

Night == 1 .. LastNight

(* A dump or an archive: absent when it was not made yet or has been       *)
(* deleted, partial when it was cut short.  A whole one holds the files    *)
(* that its rows name, or its files.                                       *)
Backup == [state : {"absent", "partial", "whole"}, has : SUBSET File]

Absent == [state |-> "absent", has |-> {}]
Partial == [state |-> "partial", has |-> {}]
Whole(S) == [state |-> "whole", has |-> S]

VARIABLES
    rows,      \* the files named by the rows of tasks_attachment
    files,     \* the files on the media volume
    used,      \* the paths handed out so far
    pending,   \* files written by uploads that have not committed their row
    up,        \* the volumes are there (FALSE: lost, not yet restored)
    night,     \* the TIMESTAMP of the latest backup run, 0 before the first
    phase,     \* where that run is: "off", "dump", "dumped", "tar", "taken",
               \* "pruned" (old dumps gone, old archives not yet)
    listing,   \* what pg_dump, or tar, saw when it started
    sql, media \* the backups, by TIMESTAMP

app == <<rows, files, used, pending, up>>
backups == <<night, phase, listing, sql, media>>
vars == <<app, backups>>

TypeOK ==
    /\ rows \subseteq File /\ files \subseteq File
    /\ used \subseteq File /\ pending \subseteq File
    /\ up \in BOOLEAN
    /\ night \in 0 .. LastNight
    /\ phase \in {"off", "dump", "dumped", "tar", "taken", "pruned"}
    /\ phase # "off" => night \in Night
    /\ listing \subseteq File
    /\ sql \in [Night -> Backup] /\ media \in [Night -> Backup]

Init ==
    /\ rows = {} /\ files = {} /\ used = {} /\ pending = {}
    /\ up = TRUE
    /\ night = 0
    /\ phase = "off"
    /\ listing = {}
    /\ sql = [n \in Night |-> Absent]
    /\ media = [n \in Night |-> Absent]

-----------------------------------------------------------------------------
(* The application.                                                        *)

\* Every upload gets a path of its own (uuid4), whatever its name.
attachment_upload_path(f) == f \notin used

(* attach_file up to the INSERT: full_clean accepted the upload, and       *)
(* Attachment.save() has FileField write the file before it builds the     *)
(* statement.                                                              *)
attach_file(f) ==
    /\ up
    /\ attachment_upload_path(f)
    /\ used' = used \cup {f}
    /\ files' = files \cup {f}
    /\ pending' = pending \cup {f}
    /\ UNCHANGED <<rows, up, backups>>

attach_commit(f) ==
    /\ f \in pending
    /\ rows' = rows \cup {f}
    /\ pending' = pending \ {f}
    /\ UNCHANGED <<files, used, up, backups>>

\* The task is gone, or the worker is killed: the file stays.
attach_rollback(f) ==
    /\ f \in pending
    /\ pending' = pending \ {f}
    /\ UNCHANGED <<rows, files, used, up, backups>>

\* A way to get the next definition wrong: the file goes too.
destroy_with_file(f) ==
    /\ f \in rows
    /\ rows' = rows \ {f}
    /\ files' = files \ {f}
    /\ UNCHANGED <<used, pending, up, backups>>

(* DELETE /api/attachments/{id} by its uploader or an admin: only the row  *)
(* goes.                                                                   *)
destroy(f) ==
    /\ f \in rows
    /\ rows' = rows \ {f}
    /\ UNCHANGED <<files, used, pending, up, backups>>

\* The rows of a task, or of a comment, that the Admin deletes.
cascade ==
    /\ \E S \in SUBSET rows : S # {} /\ rows' = rows \ S
    /\ UNCHANGED <<files, used, pending, up, backups>>

-----------------------------------------------------------------------------
(* The backup.  `set -euo pipefail` ends the script at the first command   *)
(* that fails.                                                             *)

\* A way to get the next definition wrong: the TIMESTAMP stays the same.
backup_start_untimed ==
    /\ phase = "off"
    /\ night < LastNight
    /\ phase' = "dump"
    /\ listing' = rows
    /\ sql' = IF night = 0 THEN sql ELSE [sql EXCEPT ![night] = Partial]
    /\ UNCHANGED <<app, night, media>>

\* The shell creates the file, then pg_dump takes its snapshot.
backup_start ==
    /\ phase = "off"
    /\ night < LastNight
    /\ night' = night + 1
    /\ phase' = "dump"
    /\ listing' = rows
    /\ sql' = [sql EXCEPT ![night + 1] = Partial]
    /\ UNCHANGED <<app, media>>

dump_done ==
    /\ phase = "dump"
    /\ up
    /\ phase' = "dumped"
    /\ sql' = [sql EXCEPT ![night] = Whole(listing)]
    /\ UNCHANGED <<app, night, listing, media>>

tar_start ==
    /\ phase = "dumped"
    /\ phase' = "tar"
    /\ listing' = files
    /\ media' = [media EXCEPT ![night] = Partial]
    /\ UNCHANGED <<app, night, sql>>

\* tar may or may not meet the files that are written while it runs.
tar_done ==
    /\ phase = "tar"
    /\ up
    /\ phase' = "taken"
    /\ \E late \in SUBSET (files \ listing) :
           media' = [media EXCEPT ![night] = Whole(listing \cup late)]
    /\ UNCHANGED <<app, night, listing, sql>>

(* `find -mtime +N` deletes what is older than N full days: from N + 1 on, *)
(* less the minutes by which tonight's run is ahead of that night's, and   *)
(* surely from N + 2 on.  It decides for each file on its own.             *)
MayExpire(n) == night - n > RETENTION_DAYS
Expired(n) == night - n > RETENTION_DAYS + 1

Expire(b, gone) == [n \in Night |-> IF n \in gone THEN Absent ELSE b[n]]

Expirable ==
    {gone \in SUBSET Night : \A n \in Night :
        (Expired(n) => n \in gone) /\ (n \in gone => MayExpire(n))}

retention_sql ==
    /\ phase = "taken"
    /\ phase' = "pruned"
    /\ \E gone \in Expirable : sql' = Expire(sql, gone)
    /\ UNCHANGED <<app, night, listing, media>>

retention_media ==
    /\ phase = "pruned"
    /\ phase' = "off"
    /\ \E gone \in Expirable : media' = Expire(media, gone)
    /\ UNCHANGED <<app, night, listing, sql>>

\* A way to get the next definition wrong: without `set -e` the script goes
\* on to the retention.
fail_and_go_on ==
    /\ phase \in {"dump", "tar"}
    /\ phase' = "taken"
    /\ UNCHANGED <<app, night, listing, sql, media>>

backup_fail ==
    /\ phase # "off"
    /\ phase' = "off"
    /\ UNCHANGED <<app, night, listing, sql, media>>

-----------------------------------------------------------------------------
(* Both volumes are lost; what was running dies.  The backups are in a     *)
(* directory of the host.                                                  *)
lose ==
    /\ up
    /\ up' = FALSE
    /\ rows' = {} /\ files' = {} /\ pending' = {}
    /\ phase' = "off"
    /\ UNCHANGED <<used, night, listing, sql, media>>

Restorable(n) == sql[n].state = "whole" /\ media[n].state = "whole"

restore ==
    /\ ~ up
    /\ phase = "off"
    /\ \E n \in Night :
           /\ Restorable(n)
           /\ rows' = sql[n].has
           /\ files' = media[n].has
    /\ up' = TRUE
    /\ UNCHANGED <<used, pending, backups>>

Next ==
    \/ \E f \in File :
           attach_file(f) \/ attach_commit(f) \/ attach_rollback(f) \/ destroy(f)
    \/ cascade
    \/ backup_start \/ dump_done \/ tar_start \/ tar_done
    \/ retention_sql \/ retention_media \/ backup_fail
    \/ lose \/ restore

Spec == Init /\ [][Next]_vars

-----------------------------------------------------------------------------
(* Every attachment the application lists can be downloaded, also after a  *)
(* restore: the file of a row is written before the row, deleted never,    *)
(* and archived after the row was dumped (services.py 162-172, backup.sh   *)
(* 22-28).                                                                 *)
RowsHaveFiles == rows \subseteq files

(* Once there is a pair to restore from, there always is: the retention    *)
(* is reached only by a run that has made a pair of its own (backup.sh 12, *)
(* 30-32).                                                                 *)
PairKept ==
    [][(\E n \in Night : Restorable(n)) => (\E n \in Night : Restorable(n))']_vars
=============================================================================
