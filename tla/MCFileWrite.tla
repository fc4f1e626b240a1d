---------------------------- MODULE MCFileWrite ----------------------------
(* Two directories for backups. *)
EXTENDS FileWrite
=============================================================================
