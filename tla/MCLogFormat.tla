---------------------------- MODULE MCLogFormat -----------------------------
(* A log with blocks of 15 bytes for TLC.                                  *)
EXTENDS LogFormat
=============================================================================
