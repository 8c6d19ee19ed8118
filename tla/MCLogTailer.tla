---------------------------- MODULE MCLogTailer ----------------------------
(* Small instances of LogTailer for TLC. *)
EXTENDS LogTailer

=============================================================================
