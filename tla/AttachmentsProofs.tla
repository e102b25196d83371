-------------------------- MODULE AttachmentsProofs --------------------------
(***************************************************************************)
(* Proofs about Attachments, for any number of uploads and nights and any  *)
(* retention: the type invariant, that every row has its file, and that a  *)
(* pair to restore from is never given up.  The two rest on one inductive  *)
(* invariant, which follows tonight's run through its phases.              *)
(***************************************************************************)
EXTENDS Attachments, TLAPS

(* The volume holds what the rows and the open uploads name; no upload     *)
(* survives the loss of the volumes.                                       *)
Volumes ==
    /\ rows \subseteq files
    /\ pending \subseteq files
    /\ ~ up => pending = {}

(* A row in a dump has its file in the archive of the same night.          *)
Pairs == \A n \in Night : Restorable(n) => sql[n].has \subseteq media[n].has

(* How far tonight's run has come.                                         *)
Tonight ==
    /\ phase # "off" => night \in Night
    /\ phase = "dump" => listing \subseteq files
    /\ phase = "dumped" =>
           sql[night].state = "whole" /\ sql[night].has \subseteq files
    /\ phase \in {"dump", "dumped"} => media[night].state = "absent"
    /\ phase = "tar" =>
           /\ sql[night].state = "whole"
           /\ sql[night].has \subseteq listing
           /\ listing \subseteq files
           /\ media[night].state = "partial"
    /\ phase \in {"taken", "pruned"} => Restorable(night)

Unmade ==
    \A n \in Night : n > night =>
        sql[n].state = "absent" /\ media[n].state = "absent"

IInv == Volumes /\ Pairs /\ Tonight /\ Unmade

(* The whole state keeps its type.                                         *)
THEOREM TypeCorrect == Spec => []TypeOK
<1>1. Init => TypeOK
  BY Nights DEF Init, TypeOK, Backup, Absent, Night
<1>2. TypeOK /\ [Next]_vars => TypeOK'
  <2> SUFFICES ASSUME TypeOK, [Next]_vars
               PROVE  TypeOK'
    OBVIOUS
  <2> USE DEF TypeOK, Backup
  <2>1. ASSUME NEW f \in File, attach_file(f)
        PROVE  TypeOK'
    BY <2>1 DEF attach_file, attachment_upload_path, backups
  <2>2. ASSUME NEW f \in File, attach_commit(f)
        PROVE  TypeOK'
    BY <2>2 DEF attach_commit, backups
  <2>3. ASSUME NEW f \in File, attach_rollback(f)
        PROVE  TypeOK'
    BY <2>3 DEF attach_rollback, backups
  <2>4. ASSUME NEW f \in File, destroy(f)
        PROVE  TypeOK'
    BY <2>4 DEF destroy, backups
  <2>5. CASE backup_start
    BY <2>5, Nights DEF backup_start, app, Partial, Night
  <2>6. CASE dump_done
    BY <2>6 DEF dump_done, app, Whole
  <2>7. CASE tar_start
    BY <2>7 DEF tar_start, app, Partial
  <2>8. CASE tar_done
    <3>1. PICK late \in SUBSET (files \ listing) :
              media' = [media EXCEPT ![night] = Whole(listing \cup late)]
      BY <2>8 DEF tar_done
    <3>2. Whole(listing \cup late) \in Backup
      BY DEF Whole
    <3>3. media' \in [Night -> Backup]
      BY <3>1, <3>2 DEF Night
    <3> QED
      BY <2>8, <3>3 DEF tar_done, app
  <2>9. CASE retention_sql
    BY <2>9 DEF retention_sql, app, Expire, Absent
  <2>10. CASE retention_media
    BY <2>10 DEF retention_media, app, Expire, Absent
  <2>11. CASE backup_fail
    BY <2>11 DEF backup_fail, app
  <2>12. CASE lose
    BY <2>12 DEF lose
  <2>13. CASE restore
    BY <2>13 DEF restore, backups
  <2>14. CASE cascade
    BY <2>14 DEF cascade, backups
  <2>15. CASE UNCHANGED vars
    BY <2>15 DEF vars, app, backups
  <2> QED
    BY <2>1, <2>2, <2>3, <2>4, <2>5, <2>6, <2>7, <2>8, <2>9, <2>10, <2>11,
       <2>12, <2>13, <2>14, <2>15 DEF Next
<1> QED
  BY <1>1, <1>2, PTL DEF Spec

(* The retention deletes no backup of tonight.                             *)
LEMMA TonightStays ==
    ASSUME TypeOK, night \in Night, NEW gone \in Expirable
    PROVE  night \notin gone
<1>1. night \in Nat /\ ~ (night - night > RETENTION_DAYS)
  BY Nights DEF Night
<1> QED
  BY <1>1 DEF Expirable, MayExpire

LEMMA Inductive ==
    ASSUME TypeOK, IInv, [Next]_vars
    PROVE  IInv'
<1> USE DEF IInv
<1>1. ASSUME NEW f \in File, attach_file(f)
      PROVE  IInv'
  BY <1>1 DEF attach_file, backups, Volumes, Pairs, Tonight, Unmade, Restorable
<1>2. ASSUME NEW f \in File, attach_commit(f)
      PROVE  IInv'
  BY <1>2 DEF attach_commit, backups, Volumes, Pairs, Tonight, Unmade, Restorable
<1>3. ASSUME NEW f \in File, attach_rollback(f)
      PROVE  IInv'
  BY <1>3 DEF attach_rollback, backups, Volumes, Pairs, Tonight, Unmade, Restorable
<1>4. ASSUME NEW f \in File, destroy(f)
      PROVE  IInv'
  BY <1>4 DEF destroy, backups, Volumes, Pairs, Tonight, Unmade, Restorable
<1>5. CASE backup_start
  <2> USE <1>5 DEF backup_start, app
  <2>1. night + 1 \in Night /\ night' = night + 1 /\ night \in Nat
    BY Nights DEF TypeOK, Night
  <2>2. media[night + 1].state = "absent"
    BY <2>1, Nights DEF Unmade, Night
  <2>3. \A n \in Night : sql'[n] = sql[n] \/ sql'[n].state = "partial"
    BY <2>1 DEF TypeOK, Partial
  <2>4. Volumes' /\ Pairs'
    BY <2>3 DEF Volumes, Pairs, Restorable
  <2>5. Tonight'
    BY <2>1, <2>2 DEF Volumes, Tonight
  <2>6. Unmade'
    <3> SUFFICES ASSUME NEW n \in Night, n > night'
                 PROVE  sql'[n].state = "absent" /\ media'[n].state = "absent"
      BY DEF Unmade
    <3>1. n \in Nat /\ n > night /\ n # night + 1
      BY <2>1, Nights DEF Night
    <3> QED
      BY <3>1 DEF Unmade, TypeOK
  <2> QED
    BY <2>4, <2>5, <2>6
<1>6. CASE dump_done
  <2> USE <1>6 DEF dump_done, app
  <2>1. night \in Night /\ media[night].state = "absent" /\ listing \subseteq files
    BY DEF Tonight
  <2>2. /\ sql'[night].state = "whole" /\ sql'[night].has = listing
        /\ \A n \in Night : n # night => sql'[n] = sql[n]
    BY <2>1 DEF TypeOK, Whole
  <2>3. Pairs'
    BY <2>1, <2>2 DEF Pairs, Restorable
  <2>4. Unmade'
    BY <2>1, <2>2, Nights DEF Unmade, Night
  <2> QED
    BY <2>1, <2>2, <2>3, <2>4 DEF Volumes, Tonight
<1>7. CASE tar_start
  <2> USE <1>7 DEF tar_start, app
  <2>1. night \in Night /\ sql[night].state = "whole" /\ sql[night].has \subseteq files
    BY DEF Tonight
  <2>2. /\ media'[night].state = "partial"
        /\ \A n \in Night : n # night => media'[n] = media[n]
    BY <2>1 DEF TypeOK, Partial
  <2>3. Pairs'
    BY <2>1, <2>2 DEF Pairs, Restorable
  <2>4. Unmade'
    BY <2>1, <2>2, Nights DEF Unmade, Night
  <2> QED
    BY <2>1, <2>2, <2>3, <2>4 DEF Volumes, Tonight
<1>8. CASE tar_done
  <2> USE <1>8 DEF tar_done, app
  <2>1. night \in Night /\ sql[night].state = "whole" /\ sql[night].has \subseteq listing
    BY DEF Tonight
  <2>2. /\ media'[night].state = "whole" /\ listing \subseteq media'[night].has
        /\ \A n \in Night : n # night => media'[n] = media[n]
    BY <2>1 DEF TypeOK, Whole
  <2>3. Pairs'
    BY <2>1, <2>2 DEF Pairs, Restorable
  <2>4. Unmade'
    BY <2>1, <2>2, Nights DEF Unmade, Night
  <2> QED
    BY <2>1, <2>2, <2>3, <2>4 DEF Volumes, Tonight, Restorable
<1>9. CASE retention_sql
  <2> USE <1>9 DEF retention_sql, app
  <2>1. PICK gone \in Expirable : sql' = Expire(sql, gone)
    OBVIOUS
  <2>2. night \in Night /\ Restorable(night) /\ night \notin gone
    BY TonightStays DEF Tonight
  <2>3. \A n \in Night : \/ sql'[n] = sql[n] /\ n \notin gone
                         \/ sql'[n].state = "absent"
    BY <2>1 DEF Expire, Absent
  <2>4. sql'[night] = sql[night]
    BY <2>1, <2>2 DEF Expire
  <2> QED
    BY <2>2, <2>3, <2>4 DEF Volumes, Pairs, Tonight, Unmade, Restorable
<1>10. CASE retention_media
  <2> USE <1>10 DEF retention_media, app
  <2>1. PICK gone \in Expirable : media' = Expire(media, gone)
    OBVIOUS
  <2>2. \A n \in Night : media'[n] = media[n] \/ media'[n].state = "absent"
    BY <2>1 DEF Expire, Absent
  <2> QED
    BY <2>2 DEF Volumes, Pairs, Tonight, Unmade, Restorable
<1>11. CASE backup_fail
  BY <1>11 DEF backup_fail, app, Volumes, Pairs, Tonight, Unmade, Restorable
<1>12. CASE lose
  BY <1>12 DEF lose, Volumes, Pairs, Tonight, Unmade, Restorable
<1>13. CASE restore
  <2> USE <1>13 DEF restore, backups
  <2>1. PICK n \in Night :
            /\ Restorable(n)
            /\ rows' = sql[n].has
            /\ files' = media[n].has
    OBVIOUS
  <2>2. rows' \subseteq files' /\ pending' = {}
    BY <2>1 DEF Pairs, Volumes
  <2>3. Volumes'
    BY <2>2 DEF Volumes
  <2> QED
    BY <2>3 DEF Pairs, Tonight, Unmade, Restorable
<1>14. CASE cascade
  BY <1>14 DEF cascade, backups, Volumes, Pairs, Tonight, Unmade, Restorable
<1>15. CASE UNCHANGED vars
  BY <1>15 DEF vars, app, backups, Volumes, Pairs, Tonight, Unmade, Restorable
<1> QED
  BY <1>1, <1>2, <1>3, <1>4, <1>5, <1>6, <1>7, <1>8, <1>9, <1>10, <1>11,
     <1>12, <1>13, <1>14, <1>15 DEF Next

THEOREM InvariantHolds == Spec => []IInv
<1>1. Init => IInv
  BY DEF Init, IInv, Volumes, Pairs, Tonight, Unmade, Restorable, Absent
<1>2. TypeOK /\ IInv /\ [Next]_vars => IInv'
  BY Inductive
<1> QED
  BY <1>1, <1>2, TypeCorrect, PTL DEF Spec

(* Every row has its file on the volume, through uploads that fail,        *)
(* deletions, and restores from any night's pair.                          *)
THEOREM RowsAlwaysHaveFiles == Spec => []RowsHaveFiles
<1>1. IInv => RowsHaveFiles
  BY DEF IInv, Volumes, RowsHaveFiles
<1> QED
  BY <1>1, InvariantHolds, PTL

(* Once a night has left a pair, some pair is kept for ever: an old one    *)
(* goes only when tonight's is there, and tonight's stays.                 *)
THEOREM PairAlwaysKept == Spec => PairKept
<1> DEFINE HasPair == \E n \in Night : Restorable(n)
<1>1. ASSUME TypeOK, IInv, HasPair, [Next]_vars
      PROVE  HasPair'
  <2> USE DEF IInv
  <2>1. PICK n \in Night : Restorable(n)
    BY <1>1
  <2>2. CASE UNCHANGED <<sql, media>>
    BY <2>1, <2>2 DEF Restorable
  <2>3. CASE backup_start
    <3>1. night \in Nat /\ n \in Nat /\ n # night + 1
      BY <1>1, <2>1, Nights DEF TypeOK, Night, Unmade, Restorable
    <3>2. Restorable(n)'
      BY <1>1, <2>1, <2>3, <3>1 DEF backup_start, Restorable, TypeOK
    <3> QED
      BY <3>2
  <2>4. CASE dump_done
    <3>1. Restorable(n)'
      BY <1>1, <2>1, <2>4 DEF dump_done, Restorable, TypeOK, Whole
    <3> QED
      BY <3>1
  <2>5. CASE tar_start
    <3>1. n # night
      BY <1>1, <2>1, <2>5 DEF tar_start, Tonight, Restorable
    <3>2. Restorable(n)'
      BY <1>1, <2>1, <2>5, <3>1 DEF tar_start, Restorable, TypeOK
    <3> QED
      BY <3>2
  <2>6. CASE tar_done
    <3>1. Restorable(n)'
      BY <1>1, <2>1, <2>6 DEF tar_done, Restorable, TypeOK, Whole
    <3> QED
      BY <3>1
  <2>7. CASE retention_sql
    <3>1. night \in Night /\ Restorable(night)'
      <4>1. IInv'
        BY <1>1, Inductive
      <4> QED
        BY <1>1, <2>7, <4>1 DEF retention_sql, Tonight
    <3> QED
      BY <2>7, <3>1 DEF retention_sql, Restorable
  <2>8. CASE retention_media
    <3>1. night \in Night /\ Restorable(night)
      BY <1>1, <2>8 DEF retention_media, Tonight
    <3>2. PICK gone \in Expirable : media' = Expire(media, gone)
      BY <2>8 DEF retention_media
    <3>3. night \notin gone
      BY <1>1, <3>1, TonightStays
    <3>4. Restorable(night)'
      BY <2>8, <3>1, <3>2, <3>3 DEF retention_media, Restorable, Expire
    <3> QED
      BY <2>8, <3>1, <3>4 DEF retention_media, Restorable
  <2> QED
    BY <1>1, <2>2, <2>3, <2>4, <2>5, <2>6, <2>7, <2>8
       DEF Next, vars, backups, attach_file, attach_commit, attach_rollback,
           destroy, cascade, backup_fail, lose, restore
<1>2. TypeOK /\ IInv /\ [Next]_vars => [HasPair => HasPair']_vars
  BY <1>1
<1>3. PairKept <=> [][HasPair => HasPair']_vars
  BY PTL DEF PairKept
<1> QED
  BY <1>2, <1>3, TypeCorrect, InvariantHolds, PTL DEF Spec
=============================================================================
