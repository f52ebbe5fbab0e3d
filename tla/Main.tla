-------------------------------- MODULE Main --------------------------------
(***************************************************************************)
(* The program: main() in src/src/main.cpp with the Logger singleton it    *)
(* initialises first (src/src/core/wallet.cpp, class Logger) and the       *)
(* command loop over the CommandHandler and the Wallet.                    *)
(*                                                                         *)
(* main() calls Logger::initialize("lumina_wallet.log"), loads the config  *)
(* and constructs the components, then reads stdin line by line with       *)
(* std::getline, splits each line (parseCommandLine) and either stops on   *)
(* "exit" or runs the command.  After the loop it saves the config and     *)
(* returns, and the Wallet's destructor saves the wallet.  The loop never  *)
(* looks at the state of std::cin.                                         *)
(*                                                                         *)
(* stdin is the whole input, chosen once: its lines and whether the last   *)
(* one ends with a newline.  A line is Blank (no word), ExitLine, OtherLine *)
(* (a command that only prints, or an unknown one) or a transfer or donate *)
(* command with its parsed arguments.  The config and the network          *)
(* synchroniser share no state with this loop and are left out.           *)
(***************************************************************************)
EXTENDS CommandHandler

CONSTANTS
    Inputs,      \* possible stdin contents: [lines, terminated]
    Blank,       \* a line with no word; also the initial empty `input`
    ExitLine,    \* "exit"
    OtherLine    \* a command that changes no modelled state

VARIABLES
    stdin,          \* the input, fixed by Init
    pos,            \* index of the next line std::getline returns
    input,          \* main's std::string input
    pc,             \* control point of the main thread
    ran,            \* auxiliary: index of the line of each command run
    logHeld,        \* Logger::m_mutex is locked
    logFileOpen,    \* Logger::m_logFile.is_open()
    consoleOutput,  \* Logger::m_consoleOutput
    logged          \* the records main's own log calls have written

mainVars == <<stdin, pos, input, pc, ran, logHeld, logFileOpen, consoleOutput,
             logged>>
allVars == <<cliVars, mainVars>>

\* The parsed transfer and donate lines: address, amount (std::stod: an
\* integer, or NaN for "nan") and the optional payment id; amount and the
\* optional "confirm".
TransferLines ==
    [cmd : {"transfer"}, to : Recipients, amount : Number,
     pid : PaymentIds \cup {NoPaymentId}]
DonateLines == [cmd : {"donate"}, amount : Number, confirm : BOOLEAN]

\* The lines of stdin, as parseCommandLine and the handlers read them.
InputLines == {Blank, ExitLine, OtherLine} \cup TransferLines \cup DonateLines

ASSUME InputAssumption ==
    /\ Inputs \subseteq [lines : Seq(InputLines), terminated : BOOLEAN]
    /\ \A l \in {Blank, ExitLine, OtherLine} :
          l \notin TransferLines \cup DonateLines
    /\ Blank # ExitLine /\ Blank # OtherLine /\ ExitLine # OtherLine

\* A line that executeCommand passes to a handler with modelled effects.
IsCommand(l) == l \notin {Blank, ExitLine, OtherLine}

\* The Logger constructor: empty path, console output, INFO level.
LoggerConstructed ==
    /\ logHeld = FALSE
    /\ logFileOpen = FALSE
    /\ consoleOutput = TRUE

\* enum class LogLevel, in its order.
LogLevel == <<"DEBUG", "INFO", "WARNING", "ERROR", "CRITICAL">>

LevelRank(l) == CHOOSE i \in DOMAIN LogLevel : LogLevel[i] = l

\* m_logLevel: INFO from the constructor on; nothing calls setLogLevel.
MinLogLevel == "INFO"

\* log() skips a message below m_logLevel.
Passes(l) == LevelRank(l) >= LevelRank(MinLogLevel)

(***************************************************************************)
(* Logger::log called with m_mutex free, once per level in `levels` (the   *)
(* info() and warning() wrappers): a message of a passing level goes to    *)
(* the console if it is on and to the file if it is open.                  *)
(***************************************************************************)
Log(levels) ==
    LET kept == SelectSeq(levels, Passes)
    IN  /\ ~logHeld
        /\ logged' = logged \o [i \in DOMAIN kept |->
                                   [level |-> kept[i], console |-> consoleOutput,
                                    file |-> logFileOpen]]

MainInit ==
    /\ CliInit
    /\ stdin \in Inputs
    /\ pos = 1
    /\ input = Blank
    /\ pc = "logInit"
    /\ ran = <<>>
    /\ LoggerConstructed
    /\ logged = <<>>

(***************************************************************************)
(* Logger::initialize(path): locks m_mutex (a lock_guard for the whole     *)
(* call) and opens the file for appending.  If the open fails it turns     *)
(* console output on and returns false, releasing the lock.  Otherwise it  *)
(* calls log(INFO, ...) with the lock still held; INFO passes the level    *)
(* check, so log() goes on to lock m_mutex again.                          *)
(***************************************************************************)
LoggerInitialize ==
    /\ pc = "logInit"
    /\ ~logHeld
    /\ \E opened \in BOOLEAN :
         IF opened
           THEN /\ logHeld' = TRUE
                /\ logFileOpen' = TRUE
                /\ pc' = "logRelock"
                /\ UNCHANGED consoleOutput
           ELSE /\ consoleOutput' = TRUE
                /\ pc' = "startup"
                /\ UNCHANGED <<logHeld, logFileOpen>>
    /\ UNCHANGED <<cliVars, stdin, pos, input, ran, logged>>

(***************************************************************************)
(* log() locking the std::mutex its own thread holds: undefined behaviour. *)
(* With the non-recursive mutex of glibc the thread blocks forever; an     *)
(* implementation that detects it throws std::system_error, which nothing  *)
(* in initialize() or main() catches, so the program terminates.  Either   *)
(* way initialize() never returns.                                         *)
(***************************************************************************)
LogRelock ==
    /\ pc = "logRelock"
    /\ logHeld
    /\ pc' \in {"blocked", "aborted"}
    /\ UNCHANGED <<cliVars, stdin, pos, input, ran, logHeld, logFileOpen,
                   consoleOutput, logged>>

\* main(): log the start, load the config, log it, construct the components
\* and print the welcome.
Startup ==
    /\ pc = "startup"
    /\ Log(<<"INFO", "INFO">>)
    /\ pc' = "read"
    /\ UNCHANGED <<cliVars, stdin, pos, input, ran, logHeld, logFileOpen,
                   consoleOutput>>

\* Mutant: a getline at end of input never clears the string.
ReadLineKeepsLast ==
    /\ pc = "read"
    /\ IF pos <= Len(stdin.lines)
         THEN /\ input' = stdin.lines[pos]
              /\ pos' = pos + 1
         ELSE UNCHANGED <<input, pos>>
    /\ pc' = "dispatch"
    /\ UNCHANGED <<cliVars, stdin, ran, logHeld, logFileOpen, consoleOutput, logged>>

(***************************************************************************)
(* std::getline(std::cin, input).  Before the end it returns the next      *)
(* line.  At the end, a call that starts at end-of-file fails before it    *)
(* touches `input`, so the previous line stays; only the first call after  *)
(* a final newline clears it (it starts in a good state, reads nothing).   *)
(***************************************************************************)
ReadLine ==
    /\ pc = "read"
    /\ IF pos <= Len(stdin.lines)
         THEN /\ input' = stdin.lines[pos]
              /\ pos' = pos + 1
         ELSE /\ input' = IF stdin.terminated THEN Blank ELSE input
              /\ UNCHANGED pos
    /\ pc' = "dispatch"
    /\ UNCHANGED <<cliVars, stdin, ran, logHeld, logFileOpen, consoleOutput, logged>>

\* parseCommandLine fails on a line with no word: nothing runs.
DispatchBlank ==
    /\ pc = "dispatch"
    /\ input = Blank
    /\ pc' = "read"
    /\ UNCHANGED <<cliVars, stdin, pos, input, ran, logHeld, logFileOpen,
                   consoleOutput, logged>>

\* The line that was run: the one getline returned last.
RanLine == Append(ran, pos - 1)

\* Mutant: "exit" is not recognised and the loop goes on reading.
DispatchExitIgnored ==
    /\ pc = "dispatch"
    /\ input = ExitLine
    /\ pc' = "read"
    /\ UNCHANGED <<cliVars, stdin, pos, input, ran, logHeld, logFileOpen,
                   consoleOutput, logged>>

\* command == "exit": running = false, logged; the loop ends.
DispatchExit ==
    /\ pc = "dispatch"
    /\ input = ExitLine
    /\ Log(<<"INFO">>)
    /\ pc' = "shutdown"
    /\ UNCHANGED <<cliVars, stdin, pos, input, ran, logHeld, logFileOpen,
                   consoleOutput>>

\* A failed command is logged as a warning.
LogResult(ok) == Log(IF ok THEN <<>> ELSE <<"WARNING">>)

\* executeCommand of a command that only prints (succeeds), or an unknown
\* one (fails).
DispatchOther ==
    /\ pc = "dispatch"
    /\ input = OtherLine
    /\ \E ok \in BOOLEAN : LogResult(ok)
    /\ ran' = RanLine
    /\ pc' = "read"
    /\ UNCHANGED <<cliVars, stdin, pos, input, logHeld, logFileOpen,
                   consoleOutput>>

\* executeCommand("transfer" | "donate", args): the handler runs.
DispatchCommand ==
    /\ pc = "dispatch"
    /\ IsCommand(input)
    /\ IF input.cmd = "transfer"
         THEN HandleTransfer(input.to, input.amount, input.pid)
         ELSE HandleDonate(input.amount, input.confirm)
    /\ LogResult(reply'.ok)
    /\ ran' = RanLine
    /\ pc' = "read"
    /\ UNCHANGED <<stdin, pos, input, logHeld, logFileOpen, consoleOutput>>

(***************************************************************************)
(* After the loop: Config::saveToFile(), two info lines, return 0, and    *)
(* the destructors: ~Wallet() saves an initialised wallet, which may fail. *)
(***************************************************************************)
Shutdown ==
    /\ pc = "shutdown"
    /\ IF initialized THEN SaveWallet(address, balances)
                      ELSE UNCHANGED disk
    /\ Log(<<"INFO", "INFO">>)
    /\ pc' = "done"
    /\ UNCHANGED <<walletVars, ghostVars, restarts, reply, stdin, pos, input,
                   ran, logHeld, logFileOpen, consoleOutput>>

\* The steps of the main thread, the only thread of the program.
MainNext ==
    \/ LoggerInitialize
    \/ LogRelock
    \/ Startup
    \/ ReadLine
    \/ DispatchBlank
    \/ DispatchExit
    \/ DispatchOther
    \/ DispatchCommand
    \/ Shutdown

(***************************************************************************)
(* The main thread never waits for anything but the mutex and stdin (whose *)
(* contents are all there from the start): it is weakly fair.              *)
(***************************************************************************)
MainSpec == MainInit /\ [][MainNext]_allVars /\ WF_allVars(MainNext)

-----------------------------------------------------------------------------
\* An "exit" line is still to be read.
ExitAhead == \E i \in pos .. Len(stdin.lines) : stdin.lines[i] = ExitLine

(***************************************************************************)
(* Once the command loop runs and an "exit" line is still ahead in stdin,  *)
(* the program gets to the end of main(): the lines before it are each run *)
(* or skipped, and "exit" stops the loop.                                  *)
(***************************************************************************)
SessionEndsOnExit == (pc = "read" /\ ExitAhead) ~> (pc = "done")

(***************************************************************************)
(* Every line the user typed is run at most once: no command, a transfer   *)
(* above all, is executed twice for one line of input.  Fails when stdin   *)
(* ends without a newline and without "exit": every later getline fails   *)
(* and leaves the last line in `input`, which the loop runs again.         *)
(***************************************************************************)
EachLineRunOnce ==
    \A i, j \in 1 .. Len(ran) : i # j => ran[i] # ran[j]

(***************************************************************************)
(* Logger::initialize returns and the program reaches its command loop.    *)
(* The relock of m_mutex in log() stops it whenever the log file opens.    *)
(***************************************************************************)
LoggerInitializeReturns == <>(pc \notin {"logInit", "logRelock", "blocked", "aborted"})

=============================================================================
