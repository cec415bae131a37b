------------------------------ MODULE MCBackup ------------------------------
(***************************************************************************)
(* Two blobs: one that Walk has passed while the other is to come.         *)
(***************************************************************************)
EXTENDS Backup

TwoDigests == 1..2
=============================================================================
