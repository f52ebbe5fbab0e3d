----------------------------- MODULE MC_Wallet -----------------------------
(***************************************************************************)
(* Small instances of Wallet for TLC: two tokens, two recipients (one the  *)
(* development address), file balances up to 3 and amounts that can spend *)
(* them in one or several transfers.                                       *)
(***************************************************************************)
EXTENDS Wallet

CONSTANTS s1, s2, s3   \* seed phrases, model values

\* recoverFromSeed inputs: a valid phrase, a 12-word phrase with a word
\* outside the dictionary, and "only two words".
MCPhrases ==
    {[seed |-> s1, words |-> 12, inDict |-> TRUE],
     [seed |-> s2, words |-> 12, inDict |-> FALSE],
     [seed |-> s2, words |-> 2, inDict |-> TRUE]}

\* Amounts the CLI lets through (it rejects amount <= 0).
PositiveAmounts == {1, 2}

\* Amounts a direct caller of Wallet::transfer or donate can pass.
AnyAmounts == {-1, 0, 1}

=============================================================================
