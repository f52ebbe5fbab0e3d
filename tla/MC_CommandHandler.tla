------------------------- MODULE MC_CommandHandler -------------------------
(***************************************************************************)
(* A small instance of the command handlers over the wallet: the tokens    *)
(* are LMT, "" and "Donation"; the user types the amounts -1, 0, 1 and     *)
(* "nan", and no payment id or the payment id "LMT".                       *)
(***************************************************************************)
EXTENDS CommandHandler, MC_Wallet

=============================================================================
