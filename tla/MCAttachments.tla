---------------------------- MODULE MCAttachments ----------------------------
(***************************************************************************)
(* Attachments on a small instance: two uploads, and enough nights for the *)
(* retention to delete backups.                                            *)
(***************************************************************************)
EXTENDS Attachments, TLC

MCFiles == Permutations(File)
=============================================================================
