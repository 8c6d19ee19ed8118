---------------------------- MODULE MCRCONClient ----------------------------
(* Small instances of RCONClient for TLC. *)
EXTENDS RCONClient

=============================================================================
