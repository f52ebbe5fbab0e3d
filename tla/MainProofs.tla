---------------------------- MODULE MainProofs ----------------------------
(***************************************************************************)
(* Proofs that no transaction whose amount satisfies amount <= 0 is ever   *)
(* created through the command-line interface, for every set of tokens,    *)
(* recipients, amounts and inputs, NaN amounts included: over the handlers *)
(* alone (CliSpec) and over the whole program reading stdin (MainSpec).    *)
(* Wallet::transfer itself has no such check; the handlers' test           *)
(* amount <= 0 is what the history inherits.  A NaN amount passes that     *)
(* test, so the stronger NoNonPositiveTransfer does not hold (run        *)
(* main_nan).                                                              *)
(***************************************************************************)
EXTENDS Main, TLAPS

USE TokenAssumption, AddressAssumption, AmountAssumption, NaNAssumption,
    CliAssumption, InputAssumption

\* The transactions of the history, as Wallet::transfer creates them.
HistoryRecords == [to : Recipients, amount : Number, token : Tokens]

\* The invariant of the wallet's history the proofs go through.
HistOK == history \in Seq(HistoryRecords) /\ NoNonPositiveTransfer

\* A transfer of an amount the handlers let through appends such a
\* transaction.
LEMMA TransferStep ==
    ASSUME HistOK, NEW to \in Recipients, NEW amount \in Number,
           NEW token \in Tokens, ~Leq(amount, 0), Transfer(to, amount, token)
    PROVE  HistOK'
<1>1. history' = Append(history, [to |-> to, amount |-> amount, token |-> token])
    BY DEF Transfer
<1>2. [to |-> to, amount |-> amount, token |-> token] \in HistoryRecords
    BY DEF HistoryRecords
<1>3. QED
    BY <1>1, <1>2 DEF HistOK, NoNonPositiveTransfer

\* What Wallet::transfer does when a handler calls it with such an amount.
LEMMA CallTransferStep ==
    ASSUME HistOK, NEW to \in Recipients, NEW amount \in Number,
           NEW token \in Tokens, NEW cmd, ~Leq(amount, 0),
           CallTransfer(to, amount, token, cmd)
    PROVE  HistOK'
<1>1. CASE initialized /\ ~Lt(Bal(balances, token), amount)
    BY <1>1, TransferStep DEF CallTransfer
<1>2. CASE ~(initialized /\ ~Lt(Bal(balances, token), amount))
    BY <1>2 DEF CallTransfer, vars, walletVars, HistOK, NoNonPositiveTransfer
<1>3. QED
    BY <1>1, <1>2

\* handleTransfer keeps the history free of amounts <= 0, whatever is typed.
LEMMA HandleTransferStep ==
    ASSUME HistOK, NEW to \in Recipients, NEW amount \in Number,
           NEW pid \in PaymentIds \cup {NoPaymentId},
           HandleTransfer(to, amount, pid)
    PROVE  HistOK'
<1>1. CASE Leq(amount, 0)
    BY <1>1 DEF HandleTransfer, vars, walletVars, HistOK,
       NoNonPositiveTransfer
<1>2. CASE ~Leq(amount, 0)
    <2>1. (IF pid = NoPaymentId THEN EmptyToken ELSE pid) \in Tokens
        OBVIOUS
    <2>2. CallTransfer(to, amount, IF pid = NoPaymentId THEN EmptyToken ELSE pid,
                       "transfer")
        BY <1>2, Zenon DEF HandleTransfer
    <2>3. QED
        BY <1>2, <2>1, <2>2, CallTransferStep
<1>3. QED
    BY <1>1, <1>2

\* handleDonate does too, confirmed or not.
LEMMA HandleDonateStep ==
    ASSUME HistOK, NEW amount \in Number, NEW confirm \in BOOLEAN,
           HandleDonate(amount, confirm)
    PROVE  HistOK'
<1>1. CASE Leq(amount, 0) \/ ~confirm
    BY <1>1 DEF HandleDonate, vars, walletVars, HistOK,
       NoNonPositiveTransfer
<1>2. CASE ~Leq(amount, 0) /\ confirm
    <2>1. CallTransfer(DonationAddress, amount, DonationToken, "donate")
        BY <1>2, Zenon DEF HandleDonate
    <2>2. QED
        BY <1>2, <2>1, CallTransferStep
<1>3. QED
    BY <1>1, <1>2

\* The wallet operations other than transfer keep or empty the history.
LEMMA WalletOpStep ==
    ASSUME HistOK,
           \/ Create
           \/ \E p \in Phrases : RecoverFromSeed(p)
           \/ GetSeedPhrase
           \/ Synchronize
           \/ Exit
           \/ Crash
    PROVE  HistOK'
<1>1. CASE Create \/ \E p \in Phrases : RecoverFromSeed(p)
    <2>1. history' = history
        BY <1>1 DEF Create, RecoverFromSeed, Initialise
    <2>2. QED
        BY <2>1 DEF HistOK, NoNonPositiveTransfer
<1>2. CASE GetSeedPhrase \/ Synchronize
    <2>1. history' = history
        BY <1>2 DEF GetSeedPhrase, walletVars, Synchronize
    <2>2. QED
        BY <2>1 DEF HistOK, NoNonPositiveTransfer
<1>3. CASE Exit \/ Crash
    <2>1. history' = <<>>
        BY <1>3 DEF Exit, Crash, LoadWallet
    <2>2. QED
        BY <2>1 DEF HistOK, NoNonPositiveTransfer
<1>4. QED
    BY <1>1, <1>2, <1>3

LEMMA CliInitHist == CliInit => HistOK
BY DEF CliInit, Init, HistOK, NoNonPositiveTransfer

LEMMA CliNextHist == HistOK /\ [CliNext]_cliVars => HistOK'
<1> SUFFICES ASSUME HistOK, [CliNext]_cliVars PROVE HistOK'
    OBVIOUS
<1>1. ASSUME NEW to \in Recipients, NEW a \in Amounts \cup {NaN},
             NEW p \in PaymentIds \cup {NoPaymentId}, HandleTransfer(to, a, p)
      PROVE  HistOK'
    BY <1>1, HandleTransferStep DEF Number
<1>2. ASSUME NEW a \in Amounts \cup {NaN, DefaultDonation},
             NEW c \in BOOLEAN,
             HandleDonate(a, c)
      PROVE  HistOK'
    BY <1>2, HandleDonateStep DEF Number
<1>3. CASE /\ \/ Create
              \/ \E p \in Phrases : RecoverFromSeed(p)
              \/ GetSeedPhrase
              \/ Synchronize
              \/ Exit
              \/ Crash
           /\ UNCHANGED reply
    BY <1>3, WalletOpStep
<1>4. CASE UNCHANGED cliVars
    BY <1>4 DEF cliVars, vars, walletVars, HistOK, NoNonPositiveTransfer
<1>5. QED
    BY <1>1, <1>2, <1>3, <1>4 DEF CliNext

(***************************************************************************)
(* Through the command handlers no transaction has an amount for which     *)
(* amount <= 0 holds, NaN amounts typed or not: handleTransfer and         *)
(* handleDonate reject such an amount before they call Wallet::transfer,   *)
(* and nothing else appends to m_transactions.                             *)
(***************************************************************************)
THEOREM CliNoNonPositiveTransfer == CliSpec => []NoNonPositiveTransfer
<1>1. HistOK => NoNonPositiveTransfer
    BY DEF HistOK
<1>2. QED
    BY <1>1, CliInitHist, CliNextHist, PTL DEF CliSpec

-----------------------------------------------------------------------------
(***************************************************************************)
(* The whole program.  Beyond the history, the proof needs the line main   *)
(* holds to be one of stdin's (or the empty one) and the stream position   *)
(* to be at least 1, so that a command line dispatched to a handler is a   *)
(* parsed transfer or donate line.                                         *)
(***************************************************************************)
MainIInv ==
    /\ HistOK
    /\ stdin \in Inputs
    /\ input \in InputLines
    /\ pos \in Nat \ {0}

LEMMA MainInitIInv == MainInit => MainIInv
BY CliInitHist DEF MainInit, MainIInv, InputLines

\* The steps of main that leave the wallet and the input alone.
LEMMA QuietSteps ==
    ASSUME MainIInv,
           \/ LoggerInitialize \/ LogRelock \/ Startup
           \/ DispatchBlank \/ DispatchExit \/ DispatchOther
    PROVE  MainIInv'
<1>1. UNCHANGED <<history, stdin, input, pos>>
    BY DEF LoggerInitialize, LogRelock, Startup, DispatchBlank, DispatchExit,
       DispatchOther, cliVars, vars, walletVars
<1>2. QED
    BY <1>1 DEF MainIInv, HistOK, NoNonPositiveTransfer

\* getline returns a line of stdin, the empty line or the previous line.
LEMMA ReadLineStep == MainIInv /\ ReadLine => MainIInv'
<1> SUFFICES ASSUME MainIInv, ReadLine PROVE MainIInv'
    OBVIOUS
<1>1. stdin.lines \in Seq(InputLines)
    BY DEF MainIInv
<1>2. input' \in InputLines /\ pos' \in Nat \ {0}
    BY <1>1 DEF ReadLine, MainIInv, InputLines
<1>3. UNCHANGED <<history, stdin>>
    BY DEF ReadLine, cliVars, vars, walletVars
<1>4. QED
    BY <1>2, <1>3 DEF MainIInv, HistOK, NoNonPositiveTransfer

\* A command line reaches its handler with parsed arguments.
LEMMA DispatchCommandStep == MainIInv /\ DispatchCommand => MainIInv'
<1> SUFFICES ASSUME MainIInv, DispatchCommand PROVE MainIInv'
    OBVIOUS
<1>1. input \in TransferLines \cup DonateLines
    BY DEF DispatchCommand, IsCommand, MainIInv, InputLines
<1>2. UNCHANGED <<stdin, input, pos>>
    BY DEF DispatchCommand
<1>3. CASE input.cmd = "transfer"
    <2>1. input \in TransferLines
        BY <1>1, <1>3 DEF DonateLines
    <2>2. HandleTransfer(input.to, input.amount, input.pid)
        BY <1>3 DEF DispatchCommand
    <2>3. HistOK'
        BY <2>1, <2>2, HandleTransferStep DEF MainIInv, TransferLines
    <2>4. QED
        BY <1>2, <2>3 DEF MainIInv
<1>4. CASE input.cmd # "transfer"
    <2>1. input \in DonateLines
        BY <1>1, <1>4 DEF TransferLines
    <2>2. HandleDonate(input.amount, input.confirm)
        BY <1>4 DEF DispatchCommand
    <2>3. HistOK'
        BY <2>1, <2>2, HandleDonateStep DEF MainIInv, DonateLines
    <2>4. QED
        BY <1>2, <2>3 DEF MainIInv
<1>5. QED
    BY <1>3, <1>4

LEMMA MainNextIInv == MainIInv /\ [MainNext]_allVars => MainIInv'
<1> SUFFICES ASSUME MainIInv, [MainNext]_allVars PROVE MainIInv'
    OBVIOUS
<1>1. CASE \/ LoggerInitialize \/ LogRelock \/ Startup
           \/ DispatchBlank \/ DispatchExit \/ DispatchOther
    BY <1>1, QuietSteps
<1>2. CASE ReadLine
    BY <1>2, ReadLineStep
<1>3. CASE DispatchCommand
    BY <1>3, DispatchCommandStep
<1>4. CASE Shutdown
    <2>1. UNCHANGED <<history, stdin, input, pos>>
        BY <1>4 DEF Shutdown, walletVars
    <2>2. QED
        BY <2>1 DEF MainIInv, HistOK, NoNonPositiveTransfer
<1>5. CASE UNCHANGED allVars
    BY <1>5 DEF allVars, mainVars, cliVars, vars, walletVars, MainIInv, HistOK,
       NoNonPositiveTransfer
<1>6. QED
    BY <1>1, <1>2, <1>3, <1>4, <1>5 DEF MainNext

(***************************************************************************)
(* Whatever the user types on stdin ("nan" included), the program never    *)
(* creates a transaction whose amount satisfies amount <= 0: every line    *)
(* main dispatches to executeCommand that reaches Wallet::transfer has     *)
(* passed the handler's "Amount must be positive" test.                    *)
(***************************************************************************)
THEOREM MainNoNonPositiveTransfer == MainSpec => []NoNonPositiveTransfer
<1>1. MainIInv => NoNonPositiveTransfer
    BY DEF MainIInv, HistOK
<1>2. QED
    BY <1>1, MainInitIInv, MainNextIInv, PTL DEF MainSpec

-----------------------------------------------------------------------------
(***************************************************************************)
(* The inputs of a session that ends: stdin ends with a newline, or holds  *)
(* an "exit" line.                                                         *)
(***************************************************************************)
InputsEndOrExit ==
    \A s \in Inputs :
        s.terminated \/ \E k \in DOMAIN s.lines : s.lines[k] = ExitLine

\* The control points before the command loop, and its reading point.
BeforeDispatch == {"logInit", "logRelock", "blocked", "aborted", "startup",
                   "read"}

(***************************************************************************)
(* The invariant behind EachLineRunOnce.  The lines run are increasing     *)
(* indices of lines already read.  At the dispatch point `input` is either *)
(* the blank left by a getline at the end of terminated input, or the line *)
(* just read, which is past every line run so far.  And an unterminated    *)
(* stdin still has its "exit" line ahead: getline never fails on it, so    *)
(* the stale `input` is never dispatched again.                            *)
(***************************************************************************)
LineInv ==
    /\ ran \in Seq(Nat)
    /\ \A i \in 1 .. Len(ran) : 1 <= ran[i] /\ ran[i] < pos
    /\ \A i, j \in 1 .. Len(ran) : i < j => ran[i] < ran[j]
    /\ pc = "dispatch" =>
           \/ input = Blank /\ stdin.terminated
           \/ /\ pos - 1 \in 1 .. Len(stdin.lines)
              /\ input = stdin.lines[pos - 1]
              /\ \A i \in 1 .. Len(ran) : ran[i] < pos - 1
    /\ pc \in BeforeDispatch /\ ~stdin.terminated => ExitAhead
    /\ pc = "dispatch" /\ ~stdin.terminated =>
           \E k \in (pos - 1) .. Len(stdin.lines) : stdin.lines[k] = ExitLine


\* What stdin \in Inputs gives about the lines and the end of input.
LEMMA StdinType ==
    ASSUME MainIInv
    PROVE  /\ stdin.lines \in Seq(InputLines)
           /\ stdin.terminated \in BOOLEAN
BY DEF MainIInv

LEMMA InitLineInv ==
    ASSUME InputsEndOrExit, MainInit
    PROVE  LineInv
<1>1. stdin \in Inputs /\ pos = 1 /\ ran = <<>> /\ pc = "logInit"
    BY DEF MainInit
<1>2. stdin.lines \in Seq(InputLines)
    BY <1>1
<1>3. ~stdin.terminated => ExitAhead
    BY <1>1, <1>2 DEF InputsEndOrExit, ExitAhead
<1>4. QED
    BY <1>1, <1>3 DEF LineInv, BeforeDispatch

(***************************************************************************)
(* Running the line just read: it is past every line run before, and it is *)
(* not "exit", so the "exit" line of an unterminated stdin is still ahead.  *)
(***************************************************************************)
LEMMA RunFreshLine ==
    ASSUME MainIInv, LineInv, pc = "dispatch", input \notin {Blank, ExitLine},
           ran' = RanLine, pc' = "read", UNCHANGED <<stdin, pos, input>>
    PROVE  LineInv'
<1>1. /\ pos - 1 \in 1 .. Len(stdin.lines)
      /\ input = stdin.lines[pos - 1]
      /\ \A i \in 1 .. Len(ran) : ran[i] < pos - 1
    BY DEF LineInv
<1>2. pos \in Nat \ {0} /\ ran \in Seq(Nat)
    BY DEF MainIInv, LineInv
<1>3. /\ ran' \in Seq(Nat)
      /\ \A i \in 1 .. Len(ran') : 1 <= ran'[i] /\ ran'[i] < pos'
      /\ \A i, j \in 1 .. Len(ran') : i < j => ran'[i] < ran'[j]
    BY <1>1, <1>2 DEF RanLine, LineInv
<1>4. ~stdin'.terminated => ExitAhead'
    <2> SUFFICES ASSUME ~stdin.terminated PROVE ExitAhead'
        OBVIOUS
    <2>1. PICK k \in (pos - 1) .. Len(stdin.lines) : stdin.lines[k] = ExitLine
        BY DEF LineInv
    <2>2. k # pos - 1
        BY <1>1, <2>1
    <2>3. k \in pos .. Len(stdin.lines)
        BY <1>2, <2>1, <2>2
    <2>4. stdin' = stdin /\ pos' = pos
        OBVIOUS
    <2>5. QED
        BY <2>1, <2>3, <2>4 DEF ExitAhead
<1>5. QED
    BY <1>3, <1>4 DEF LineInv, BeforeDispatch

LEMMA NextLineInv ==
    ASSUME InputsEndOrExit, MainIInv, LineInv, [MainNext]_allVars
    PROVE  LineInv'
<1>0. /\ stdin.lines \in Seq(InputLines)
      /\ stdin.terminated \in BOOLEAN
      /\ pos \in Nat \ {0}
    BY StdinType DEF MainIInv
<1>1. CASE LoggerInitialize \/ LogRelock \/ Startup
    <2>1. UNCHANGED <<stdin, pos, input, ran>>
          /\ pc \in BeforeDispatch /\ pc' \in BeforeDispatch
        BY <1>1 DEF LoggerInitialize, LogRelock, Startup, BeforeDispatch
    <2>2. pc # "dispatch" /\ pc' # "dispatch"
        BY <2>1 DEF BeforeDispatch
    <2>3. QED
        BY <2>1, <2>2 DEF LineInv, ExitAhead
<1>2. CASE ReadLine
    <2>1. pc = "read" /\ pc' = "dispatch" /\ UNCHANGED <<stdin, ran>>
        BY <1>2 DEF ReadLine
    <2>2. CASE pos <= Len(stdin.lines)
        <3>1. input' = stdin.lines[pos] /\ pos' = pos + 1
            BY <1>2, <2>2 DEF ReadLine
        <3>2. ~stdin.terminated =>
                \E k \in pos .. Len(stdin.lines) : stdin.lines[k] = ExitLine
            BY <2>1 DEF LineInv, BeforeDispatch, ExitAhead
        <3>3. pos' - 1 \in 1 .. Len(stdin'.lines)
              /\ input' = stdin'.lines[pos' - 1]
              /\ \A i \in 1 .. Len(ran') : ran'[i] < pos' - 1
            <4>1. stdin' = stdin /\ ran' = ran /\ pos' - 1 = pos
                BY <1>0, <2>1, <3>1
            <4>2. pos \in 1 .. Len(stdin.lines)
                BY <1>0, <2>2
            <4>3. \A i \in 1 .. Len(ran) : ran[i] < pos
                BY DEF LineInv
            <4>4. QED
                BY <3>1, <4>1, <4>2, <4>3
        <3>4. ~stdin'.terminated =>
                \E k \in (pos' - 1) .. Len(stdin'.lines) :
                    stdin'.lines[k] = ExitLine
            BY <1>0, <2>1, <3>1, <3>2
        <3>5. /\ ran' \in Seq(Nat)
              /\ \A i \in 1 .. Len(ran') : 1 <= ran'[i] /\ ran'[i] < pos'
              /\ \A i, j \in 1 .. Len(ran') : i < j => ran'[i] < ran'[j]
            BY <1>0, <2>1, <3>1 DEF LineInv
        <3>6. QED
            BY <2>1, <3>3, <3>4, <3>5 DEF LineInv, BeforeDispatch
    <2>3. CASE ~(pos <= Len(stdin.lines))
        <3>1. stdin.terminated
            BY <1>0, <2>1, <2>3 DEF LineInv, BeforeDispatch, ExitAhead
        <3>2. input' = Blank /\ pos' = pos
            BY <1>2, <2>3, <3>1 DEF ReadLine
        <3>3. QED
            BY <2>1, <3>1, <3>2 DEF LineInv
    <2>4. QED
        BY <2>2, <2>3
<1>3. CASE DispatchBlank
    <2>1. pc = "dispatch" /\ input = Blank /\ pc' = "read"
          /\ UNCHANGED <<stdin, pos, input, ran>>
        BY <1>3 DEF DispatchBlank
    <2>2. ~stdin.terminated => ExitAhead'
        <3> SUFFICES ASSUME ~stdin.terminated PROVE ExitAhead'
            OBVIOUS
        <3>1. stdin.lines[pos - 1] = Blank
            BY <2>1 DEF LineInv
        <3>2. PICK k \in (pos - 1) .. Len(stdin.lines) : stdin.lines[k] = ExitLine
            BY <2>1 DEF LineInv
        <3>3. k # pos - 1
            BY <3>1, <3>2, InputAssumption
        <3>4. k \in pos .. Len(stdin.lines)
            BY <1>0, <3>2, <3>3
        <3>5. stdin' = stdin /\ pos' = pos
            BY <2>1
        <3>6. QED
            BY <3>2, <3>4, <3>5 DEF ExitAhead
    <2>3. QED
        BY <2>1, <2>2 DEF LineInv, BeforeDispatch
<1>4. CASE DispatchExit
    BY <1>4 DEF DispatchExit, LineInv, BeforeDispatch
<1>5. CASE DispatchOther
    <2>1. pc = "dispatch" /\ input \notin {Blank, ExitLine}
        BY <1>5, InputAssumption DEF DispatchOther
    <2>2. QED
        BY <1>5, <2>1, RunFreshLine DEF DispatchOther
<1>6. CASE DispatchCommand
    <2>1. pc = "dispatch" /\ input \notin {Blank, ExitLine}
        BY <1>6 DEF DispatchCommand, IsCommand
    <2>2. QED
        BY <1>6, <2>1, RunFreshLine DEF DispatchCommand
<1>7. CASE Shutdown
    BY <1>7 DEF Shutdown, LineInv, BeforeDispatch
<1>8. CASE UNCHANGED allVars
    BY <1>8 DEF allVars, mainVars, LineInv, ExitAhead
<1>9. QED
    BY <1>1, <1>2, <1>3, <1>4, <1>5, <1>6, <1>7, <1>8 DEF MainNext

(***************************************************************************)
(* In a session that ends with "exit" or with a final newline, main runs   *)
(* every line of stdin at most once: the getline that fails at the end of *)
(* such an input either clears `input` or never happens, so no transfer is *)
(* executed twice for one line.  For any number of lines and any parsed    *)
(* commands; the unterminated case is the main_eof finding.               *)
(***************************************************************************)
THEOREM LinesRunOnce ==
    ASSUME InputsEndOrExit
    PROVE  MainSpec => []EachLineRunOnce
<1>1. LineInv => EachLineRunOnce
    <2> SUFFICES ASSUME LineInv, NEW i \in 1 .. Len(ran), NEW j \in 1 .. Len(ran),
                        i # j
                 PROVE  ran[i] # ran[j]
        BY DEF EachLineRunOnce
    <2>1. CASE i < j
        BY <2>1 DEF LineInv
    <2>2. CASE j < i
        BY <2>2 DEF LineInv
    <2>3. QED
        BY <2>1, <2>2
<1>2. MainIInv /\ LineInv /\ [MainNext]_allVars => MainIInv' /\ LineInv'
    BY MainNextIInv, NextLineInv
<1>3. MainInit => MainIInv /\ LineInv
    BY MainInitIInv, InitLineInv
<1>4. QED
    BY <1>1, <1>2, <1>3, PTL DEF MainSpec

=============================================================================
