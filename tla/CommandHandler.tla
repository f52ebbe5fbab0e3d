--------------------------- MODULE CommandHandler ---------------------------
(***************************************************************************)
(* The transfer and donate commands of the command-line interface          *)
(* (src/unnamed/part_004, class CommandHandler) on top of the wallet.      *)
(*                                                                         *)
(* The handlers parse the amount with std::stod (an integer or NaN here),  *)
(* reject it when amount <= 0 (false for NaN) and then call               *)
(* Wallet::transfer; the token passed is the command's optional payment id *)
(* (the empty string when there is none) for transfer, and "Donation" for  *)
(* donate.  reply is the CommandResult of the last handler, with the       *)
(* amount and whether the wallet could cover it in LMT when it ran.        *)
(* The wallet's own operations other than transfer and donate run as in    *)
(* Wallet.                                                                 *)
(***************************************************************************)
EXTENDS Wallet

CONSTANTS
    EmptyToken,       \* the token "" handleTransfer passes without a payment id
    DonationToken,    \* the token "Donation" handleDonate passes
    PaymentIds,       \* payment ids a user can type
    NoPaymentId,      \* no third argument
    DonationAddress,  \* the donation address of handleDonate
    DefaultDonation,  \* the default donation amount, 1.0
    NoReply           \* no command has run yet

ASSUME CliAssumption ==
    /\ {EmptyToken, DonationToken} \subseteq Tokens
    /\ PaymentIds \subseteq Tokens
    /\ NoPaymentId \notin PaymentIds
    /\ DonationAddress \in Recipients
    /\ DefaultDonation \in Amounts

VARIABLE reply

cliVars == <<vars, reply>>

\* The CommandResult of a handler, with what the wallet held when it ran.
Reply(cmd, amount, ok) ==
    [cmd |-> cmd, amount |-> amount, ok |-> ok,
     covered |-> initialized /\ Lt(0, amount) /\ Leq(amount, Bal(balances, LMT))]

\* Wallet::transfer(to, amount, token) as the handlers call it: performs
\* the transfer when it succeeds, and the success it returns.
CallTransfer(to, amount, token, cmd) ==
    /\ Len(history) < MaxHistory
    /\ IF initialized /\ ~Lt(Bal(balances, token), amount)
         THEN /\ Transfer(to, amount, token)
              /\ reply' = Reply(cmd, amount, TRUE)
         ELSE /\ UNCHANGED vars
              /\ reply' = Reply(cmd, amount, FALSE)

\* Mutant: handleTransfer without the "Amount must be positive" check.
HandleTransferUnchecked(to, amount, pid) ==
    CallTransfer(to, amount, IF pid = NoPaymentId THEN EmptyToken ELSE pid,
                 "transfer")

(***************************************************************************)
(* handleTransfer([address, amount, payment_id]): "Amount must be          *)
(* positive" for amount <= 0; otherwise transfer(address, amount,          *)
(* paymentId), the payment id standing where the token symbol goes.        *)
(***************************************************************************)
HandleTransfer(to, amount, pid) ==
    IF Leq(amount, 0)
      THEN /\ reply' = Reply("transfer", amount, FALSE)
           /\ UNCHANGED vars
      ELSE CallTransfer(to, amount,
                        IF pid = NoPaymentId THEN EmptyToken ELSE pid,
                        "transfer")

(***************************************************************************)
(* handleDonate([amount, "confirm"]): the amount defaults to 1.0 and must  *)
(* be positive; without "confirm" it only describes the donation (and      *)
(* succeeds); with it, transfer(donationAddress, amount, "Donation").      *)
(***************************************************************************)
HandleDonate(amount, confirm) ==
    IF Leq(amount, 0)
      THEN /\ reply' = Reply("donate", amount, FALSE)
           /\ UNCHANGED vars
      ELSE IF ~confirm
             THEN /\ reply' = Reply("describe", amount, TRUE)
                  /\ UNCHANGED vars
             ELSE CallTransfer(DonationAddress, amount, DonationToken,
                               "donate")

CliInit == Init /\ reply = NoReply

CliNext ==
    \/ \E to \in Recipients, a \in Amounts \cup {NaN},
         p \in PaymentIds \cup {NoPaymentId} :
          HandleTransfer(to, a, p)
    \/ \E a \in Amounts \cup {NaN, DefaultDonation}, c \in BOOLEAN :
          HandleDonate(a, c)
    \/ /\ \/ Create
          \/ \E p \in Phrases : RecoverFromSeed(p)
          \/ GetSeedPhrase
          \/ Synchronize
          \/ Exit
          \/ Crash
       /\ UNCHANGED reply

CliSpec == CliInit /\ [][CliNext]_cliVars

-----------------------------------------------------------------------------
(***************************************************************************)
(* Spec 8: a transfer of a positive amount the LMT balance covers          *)
(* succeeds, and donate inherits it.  The handlers pass the payment id     *)
(* ("" by default) and "Donation" as the token, whose balance is 0.        *)
(***************************************************************************)
CliTransferWithinBalanceSucceeds ==
    reply # NoReply /\ reply.cmd \in {"transfer", "donate"} /\ reply.covered
        => reply.ok

(***************************************************************************)
(* No transaction has an amount the handlers' test amount <= 0 holds for:  *)
(* handleTransfer and handleDonate run it before Wallet::transfer, which   *)
(* has no check of its own, and nothing else appends to m_transactions.    *)
(* (A NaN amount passes the test; see TransferAmountsPositive.)            *)
(***************************************************************************)
NoNonPositiveTransfer ==
    \A i \in 1 .. Len(history) : ~Leq(history[i].amount, 0)

=============================================================================
