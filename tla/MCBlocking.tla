----------------------------- MODULE MCBlocking -----------------------------
(* Small instances of Blocking for TLC.                                    *)
EXTENDS Blocking

=============================================================================
