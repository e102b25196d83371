------------------------------ MODULE MCAlertJob ------------------------------
(***************************************************************************)
(* AlertJob on small instances: a calendar long enough for a due date to   *)
(* be two days off, reached and passed.                                    *)
(***************************************************************************)
EXTENDS AlertJob

\* A due date may also be left open, or cleared.
MCDueInput == {2, None}
=============================================================================
