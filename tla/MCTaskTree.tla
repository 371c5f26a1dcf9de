----------------------------- MODULE MCTaskTree -----------------------------
(* Three tasks and a supervisor, for TLC.                                  *)
EXTENDS Supervisor
=============================================================================
