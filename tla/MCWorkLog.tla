----------------------------- MODULE MCWorkLog -----------------------------
(* Small instances of WorkLog for TLC. *)
EXTENDS WorkLog
=============================================================================
