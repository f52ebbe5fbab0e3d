------------------------------ MODULE MC_Main ------------------------------
(***************************************************************************)
(* Small instances of the whole program.  A line is blank, "exit", a       *)
(* command that only prints, "transfer dev 1 LMT", "transfer dev -1 LMT",  *)
(* "transfer dev nan LMT" or "donate 1 confirm"; stdin holds up to three   *)
(* lines.                                                                  *)
(***************************************************************************)
EXTENDS Main, MC_Wallet

\* The parsed command lines.
PayDev == [cmd |-> "transfer", to |-> DevAddress, amount |-> 1, pid |-> LMT]
PayDevNegative == [cmd |-> "transfer", to |-> DevAddress, amount |-> -1, pid |-> LMT]
PayDevNaN == [cmd |-> "transfer", to |-> DevAddress, amount |-> NaN, pid |-> LMT]
DonateOne == [cmd |-> "donate", amount |-> 1, confirm |-> TRUE]

MCLines ==
    {Blank, ExitLine, OtherLine, PayDev, PayDevNegative, PayDevNaN, DonateOne}

\* Every stdin of up to three lines, ending with a newline or not.
AllInputs ==
    {[lines |-> l, terminated |-> t] :
        l \in UNION {[1 .. n -> MCLines] : n \in 0 .. 3}, t \in BOOLEAN}

\* The inputs of an interactive session: the user ends it with "exit" or
\* with end-of-file after a newline.
SessionInputs ==
    {i \in AllInputs :
        i.terminated \/ \E k \in DOMAIN i.lines : i.lines[k] = ExitLine}

\* Piped input whose last line has no newline and is a transfer.
UnterminatedInputs ==
    {[lines |-> <<OtherLine, PayDev>>, terminated |-> FALSE]}

=============================================================================
