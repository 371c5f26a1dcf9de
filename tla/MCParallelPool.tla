--------------------------- MODULE MCParallelPool ---------------------------
(* Small instances of ParallelPool for TLC.                                *)
EXTENDS ParallelPool

=============================================================================
