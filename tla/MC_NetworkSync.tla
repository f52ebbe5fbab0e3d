--------------------------- MODULE MC_NetworkSync ---------------------------
(***************************************************************************)
(* Small instances of NetworkSync for TLC.  Heights are taken modulo 8     *)
(* with batches of 2, so a run of 5 has the uneven last batch of the       *)
(* code's 12345 / 100 and a run of 0 takes the already-caught-up path.     *)
(***************************************************************************)
EXTENDS NetworkSync

\* Heights the endpoint reports that no batch end can wrap past.
SafeHeights == {0, 5}

=============================================================================
