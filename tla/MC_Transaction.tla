--------------------------- MODULE MC_Transaction ---------------------------
(***************************************************************************)
(* A small instance of Transaction for TLC: two seeds for generateId() and *)
(* up to two transactions, so both can get the same id.                    *)
(***************************************************************************)
EXTENDS Transaction

=============================================================================
