# TLA+ models of the LuminaChain wallet

This directory holds TLA+ models of the LuminaChain wallet (`src/`). Each module is written from the C++ source. TLC checks the models on small instances. TLAPS proves, for every value of the constants, the synchroniser's main invariants, that it implements an abstract synchroniser, the transactions' type invariant, the wallet's balance and ledger invariants for integer amounts, that the CLI never creates a transaction whose amount satisfies `amount <= 0`, and that main runs no line of a session twice.

## The system and its parts

| Part | Source | Module | Status |
|---|---|---|---|
| NetworkSync (sync engine) | `src/unnamed/part_005`, `src/include/network/sync.h` | `NetworkSync`, `NetworkSyncProofs` | modelled |
| Config (the `network_endpoint` entry) | `src/unnamed/part_003` | inside `NetworkSync` | partly |
| Wallet | `src/src/core/wallet.cpp`, `src/include/core/wallet.h` | `Wallet`, `WalletProofs` | modelled |
| Transaction | `src/src/core/transaction.cpp`, `transaction.h` | `Transaction` | modelled |
| CommandHandler (transfer, donate) | `src/unnamed/part_004` | `CommandHandler` | partly |
| main (start-up, command loop, shutdown) | `src/src/main.cpp` | `Main` | modelled |
| Logger | `wallet.cpp` 386-451, `src/unnamed/part_002` | `Main` | partly |
| ContractExecutor | `executor.cpp`, `src/unnamed/part_000` | none | not modelled: out of scope, unreachable stub |

How the parts interact:

- `main` loads the Config and constructs a Wallet. The Wallet constructor runs `loadWallet`. As written, `main.cpp` 59-61 default-constructs `Wallet` and `NetworkSync`, but `wallet.h` and `sync.h` declare only `Wallet(walletPath, password)` and `NetworkSync(walletAddress)`, so the file does not compile. The model follows the declared constructor: the Wallet is built from its file.
- `main` also constructs a NetworkSync, which reads `network_endpoint` from the Config, and a CommandHandler that holds both.
- The CLI handlers call `Wallet::transfer`. The Wallet creates a `Transaction` for each successful transfer.
- NetworkSync never touches the wallet's balances.
- Nothing runs on a second thread. `startSync` runs the whole `simulateSync` loop on the caller's thread. The only interleaving is re-entrancy: the user's progress callback runs in the middle of the loop and may call back into the object.

## Modules and their correspondence to the code

The modules build on each other: `CommandHandler` extends `Wallet`, and `Main` extends `CommandHandler`, so `Main` is the whole single-threaded program from `main()` down to the wallet file. `NetworkSync` and `Transaction` stand alone, because nothing in the command loop reaches them (`Wallet::transfer` creates a Transaction whose id and signature no property of the wallet reads).

### `NetworkSync`

**State.** The variables are the members of `sync.h` 108-116, plus the following:

- `pc`: the control point of the thread inside `startSync`.
- `height`: the loop variable of `simulateSync`.
- The Config's endpoint entry, in memory (`cfgValue`) and on disk (`cfgFile`).
- `batches`: an auxiliary record of the batch ends of the current run.

**Data abstractions.**

- Heights are integers modulo `Modulus`, which stands for 2^64, so `height + batchSize` is computed as the code computes it. `fetchLatestBlockHeight` always reports 12345 (part_005:180), and 12345 + 100 is far below 2^64, so no batch of the program wraps. The runs' heights do not wrap either.
- The `float` progress is kept exactly as the fraction `<<num, den>>`.
- The reported height, 12345 in the code, is any member of `ReportedHeights`.

**Actions and the code they model.**

| Action | Code | Lines |
|---|---|---|
| `StartSync` | `startSync` | 55-88 |
| `ProcessBlocks` | one loop body up to the callback (`processBlocks`) | 190-208 |
| `BatchCallbackReturns` | the return of the batch callback | 202-205 |
| `EndBatch` | the sleep, the stop check, `height += batchSize` and the loop test | 243-255 |
| `FinishSync` | the completion test and `updateProgress(1.0)` up to its callback | 233-262 |
| `FinalCallbackReturns` | the tail of `updateProgress` | 213-228 |
| `CallbackStopSync` | `stopSync` called from a callback | 93-111 |
| `SetNetworkEndpoint` | `setNetworkEndpoint`, including `Config::saveToFile`, which fails without a loaded path | 144-152 |

### `SyncAbstract`

`SyncAbstract` states what one call of `startSync` promises, without batches, callbacks or the loop. It has four variables: `status`, `height`, `target`, and `busy` (a call has not returned). There are five actions:

- `Start`: only when no call runs and the status is not SYNCING. It resets the height.
- `Advance`: moves the height up, never past the target, while SYNCING.
- `Stop`: SYNCING to NOT_SYNCED.
- `Complete`: returns SYNCED, only with height = target.
- `Return`: a stopped call returns.

`Complete` is allowed after a `Stop`. The code sets SYNCED after the final callback even when that callback called `stopSync`. `NetworkSync` instantiates it as `Abs` with `height <- current`, `target <- latest` and `busy <- pc # "idle"`; `SyncRefinesAbstract == Abs!Spec`. The mapping sends each action as follows:

- `StartSync` to `Start`.
- `ProcessBlocks` to `Advance`.
- `CallbackStopSync` to `Stop`.
- `FinishSync` to `Complete` without a callback and to `Return` after a stop.
- `FinalCallbackReturns` to `Complete`.
- Every other step is a stutter.

### `Wallet`

**State.** The variables are the members of `wallet.h` 116-126 and the wallet file `disk`. The file is `NoFile`, `BadFile` or `[address, balances]`.

The auxiliary variables record the following:

- `sessionBase`: the balances the current run started from.
- `everSpent`: everything transfers have debited, over all runs.
- `funds`: the balances the file held at first.
- `walletSeed`: the phrase the wallet was made from.
- `shownSeed`: the phrase `getSeedPhrase` last returned.

**Bound.** `restarts` bounds the number of runs (`MaxRestarts`).

**Actions.**

- `Create` and `RecoverFromSeed` share the tail `Initialise`, which ends in `SaveWallet`. `SaveWallet` either writes the file or fails and leaves the old one.
- `Transfer` models `transfer`, which does not save.
- `Donate` models `donate`.
- `GetSeedPhrase` and `Synchronize` model the methods of the same names.
- `Exit` is the destructor's save, which may fail, followed by the next run's `loadWallet`.
- `Crash` is a kill followed by the next run's `loadWallet`.

**File format.** `WalletFile` is what `saveWallet` writes. `FileAmount` is the 6-significant-digit rounding of `file << double`. A NaN balance is written as `nan`, and `loadWallet`'s `std::stod` reads it back as NaN.

**Amounts.** Amounts are `double` in the code. Here they are integers, plus a model value `NaN` for the quiet NaN that `std::stod("nan")` returns. `Lt`, `Leq` and `Minus` are the IEEE `<`, `<=` and `-`: a comparison with NaN is false, and arithmetic with NaN gives NaN. The standalone `Wallet` spec is called with integer `Amounts` (`AmountAssumption`). `Main` can also pass NaN, because that is where a NaN comes from.

### `Transaction`

`txs` is `m_transactions`, one record per transaction: the id, the status and the signature.

- `Create` models the constructor, which calls `generateId`. The id is a function of a 32-bit `random_device` seed.
- `SetStatus` models `setStatus`, which has no guard.
- `Sign` models `sign`, which sets `"SIGNATURE_" + m_id`.
- `VerifySignature` models the prefix check.

### `CommandHandler`

This module extends `Wallet`.

- `HandleTransfer` and `HandleDonate` model `handleTransfer` and `handleDonate`: the `std::stod` amount (an integer or NaN), the check `amount <= 0` (false for NaN), the donation confirmation, and the token argument that each handler really passes to `Wallet::transfer`. `CliNext` lets the user type NaN as well as the integer `Amounts`.
- `reply` is the last `CommandResult`.
- The wallet's other operations run unchanged.

### `Main`

`Main` extends `CommandHandler`. Its state is the following:

- `stdin`: the whole input, chosen in the initial state. It is a sequence of lines and whether the last one ends with a newline. A line is `Blank`, `ExitLine`, `OtherLine` (a command that only prints, or an unknown one) or a parsed transfer or donate command.
- `pos` and `input`: the stream position and main's `std::string input`.
- `pc`: the control point of the one thread.
- `logHeld`, `logFileOpen`, `consoleOutput`: the Logger's mutex, file and console flag.
- `logged`: the records main's own `info`/`warning` calls write, with the sinks each reached.
- `ran`: an auxiliary record of the index of the line each executed command came from.

| Action | Code |
|---|---|
| `LoggerInitialize` | `Logger::initialize` (`wallet.cpp` 403-423). If the open fails, console on and return. If it succeeds, `log()` is called with the lock still held. |
| `LogRelock` | `log()` locking the mutex its own thread holds (428-434). This is undefined behaviour, modelled as either outcome: a block forever, or a `system_error` that ends in `std::terminate`. |
| `Startup` | `main.cpp` 48-69: two info lines, the config, the components, the welcome. |
| `ReadLine` | `std::getline` (77-79), including its behaviour at end of input. |
| `DispatchBlank`, `DispatchExit`, `DispatchOther`, `DispatchCommand` | `parseCommandLine` (115-129), the exit check (81-85) and `executeCommand` with the warning on failure (86-93). |
| `Shutdown` | `main.cpp` 96-103 and the Wallet destructor's save. |

`getline` at end of input is the part the loop gets wrong. A call that starts at end-of-file fails in its sentry before it clears the string, so `input` keeps the last line. Only when the last line ends with a newline does one more call start in a good state and clear the string.

## Runs

| Run | Expect | What it shows |
|---|---|---|
| `sync_core` | pass | The following hold under callback stops and endpoint changes, with heights 0 and 5, batch 2 and modulus 8: `TypeOK`, the flag-status agreement `SyncFlagMatchesStatus`, `SyncedMeansCaughtUp`, `SyncedCoversAllHeights` (the batch ends of a SYNCED run are exactly min(i·batch, latest)), the action property `HeightNeverBacktracksInRun` (the current height never decreases within a call), the refinement `SyncRefinesAbstract`, and the liveness `SyncTerminates` under `WF(SyncStep)`. |
| `sync_progress` | violation | A second `startSync` keeps progress 1.0 from the first run, then the first batch lowers it. This contradicts spec §3, which says progress is monotone. |
| `sync_completed` | violation | `stopSync` in the last batch's callback leaves progress 1.0 with NOT_SYNCED. |
| `wallet_core` | pass | No balance goes negative, for any token, whatever runs, exits, kills and failed saves came before. Each run's debits equal the amounts in its history, token by token. The action property `BalanceDropRecorded` holds: within a run a balance drops only by a transfer that appends one Transaction of that token for exactly the drop, so `create`/`recoverFromSeed` never erase a loaded LMT balance. |
| `wallet_double_spend` | violation | `transfer` does not save. A kill or a failed save at exit reloads the old balance, and the money is spent twice. |
| `wallet_seed` | violation | `getSeedPhrase` returns a fixed phrase, not the wallet's own. |
| `tx_core` | pass | `TypeOK`: over any order of creations, status changes and signings, each transaction keeps an id that `generateId` can produce, a status of the enum, and no signature or the signature of an id. At most `MaxTx` are created. |
| `cli_token` | violation | A CLI transfer or donation that the LMT balance covers fails, because the token passed is `""` or `"Donation"`. |
| `main_core` | pass | Checks every stdin of up to three lines that ends with a newline or holds `exit`. The following hold: `EachLineRunOnce` (no line is executed twice); `NoNonPositiveTransfer` (no transaction has an amount for which the handlers' `amount <= 0` holds, with `transfer dev nan LMT` among the lines); and the liveness `SessionEndsOnExit` (once an `exit` is ahead, main returns). These hold only on the start-up path where the log file does not open. |
| `main_logger` | violation | `LoggerInitializeReturns`: when `lumina_wallet.log` opens, `initialize` deadlocks or aborts on its own mutex and the command loop is never reached. |
| `main_eof` | violation | `EachLineRunOnce`: with piped input whose last line is `transfer dev 1 LMT` without a newline, the transfer runs again on every turn of the loop. |
| `main_nan` | violation | `TransferAmountsPositive` (spec §3: amounts are positive): `transfer dev nan LMT` passes `amount <= 0` and the balance check, and a Transaction of amount NaN is created. The balance becomes NaN. After that, every transfer of the token passes the balance check. TLC shows a wallet holding 0 LMT that accepts `transfer dev nan LMT` and then `transfer dev 1 LMT`. |

`Transaction!UniqueIds` is stated but has no run (see Bounds). `Wallet::transfer` called directly with `-1` succeeds and credits the balance. No run shows this, because only the CLI calls `transfer` and it rejects negative amounts.

**Bounds.**

- **Sync.** Batch 2 with latest 5 gives the uneven last batch that 12345/100 has. Latest 0 takes the caught-up path. Modulus 8 leaves room for every batch, as 2^64 does for 12345.
- **Wallet.** File balances are 0 and 3, amounts 1 and 2, and two tokens. That allows several transfers that exhaust a balance and one that fails. `MaxHistory = 3` and `MaxRestarts = 2` allow a transfer followed by a kill or exit and a reload.
- **Main.** All stdins of up to three lines over seven kinds of line (one of them `transfer dev nan LMT`), in both endings, with file balances 0 and 3. That covers an `exit` at every position, lines after it, a transfer that succeeds, one the CLI rejects, and a donation that fails on its token. Three lines reach the history bound `MaxHistory = 3` only with three successful transfers.
- **Transaction.** Two seeds and two transactions let both transactions share a seed. `UniqueIds` is stated but not run: with so few seeds a collision only restates the pigeonhole.

Every property of a passing run has a mutant in `PROJECT.json`: a plausible bug in the code that makes TLC find the property violated.

**Fairness.** Only the synchronising thread's own steps are weakly fair: the loop never blocks, and a callback returns. The user's calls (`startSync`, `stopSync`, `setNetworkEndpoint`) are not fair. In `Main` the one thread's steps are weakly fair: the input is all there from the start and nothing else runs. `CHECK_DEADLOCK FALSE` is set for `Main` because the program really stops, at the end of `main()` and when the logger blocks or aborts it.

## What is proved

`NetworkSyncProofs` proves `Spec => []TypeOK`, `Spec => []SyncFlagMatchesStatus` and `Spec => []SyncedMeansCaughtUp` for every batch size, every modulus ≥ 2 and every set of reported heights. The assumptions are `BatchAssumption`, `ModulusAssumption`, `HeightsAssumption` and `EndpointAssumption`.

The proof goes through the inductive invariant `IInv`. It strengthens the properties with three facts:

- `current <= latest`. This holds because `FinishSync` completes on `current >= latest`.
- No run in progress is SYNCED. Without this, `processBlocks` could move a SYNCED state.
- At `pc = "finalCallback"`, the run has already caught up and its progress is 1. This matters because the callback runs between the check and the SYNCED status.

`InitIInv` and `NextIInv` prove, with one step per action, that `IInv` is inductive. Each theorem then follows by PTL.

`NetworkSyncRunProofs` proves three results about one call of `startSync`:

- `CoversAllHeights`: `Spec => []SyncedCoversAllHeights`.
- `HeightMonotone`: `Spec => HeightNeverBacktracksInRun`, an action property.
- `Refinement`: `Spec => SyncRefinesAbstract`, that is `Spec => Abs!Spec`.

All three rest on the hypothesis `NoWrap`: every reported height h has h + batchSize ≤ 2^64. The program meets it, because it always reports 12345 with batch 100. The hypothesis is stated on the theorems, not as an assumption of the module, because `NetworkSync` keeps the modular arithmetic for any reported height. For a height within batchSize of the modulus, the loop start would wrap to 0 and none of the three would hold.

The invariant is `RunInv`. It describes the loop in terms of n = `Len(batches)`, the number of `processBlocks` calls so far:

- At the loop head, `height = n·batch < latest` and `current = height`.
- After `processBlocks`, `height = (n−1)·batch` and `current = min(height + batch, latest)`.
- Every recorded batch end is `min(i·batch, latest)`.
- When the loop has ended caught up (`pc = "final"` while syncing, the final callback, or SYNCED), n·batch ≥ latest > (n−1)·batch and `current = latest`.
- During a call or after a completed one, `latest + batch ≤ Modulus`. This is what makes `Wrap` the identity on every loop step.

Two arithmetic lemmas support it:

- `MulSucc`: (n+1)·b = n·b + b.
- `CeilDiv`: such an n equals ⌈latest/batch⌉ = `(latest + batch − 1) \div batch`.

`NextRunInv` has one step per action, and the `EndBatch` step is split three ways: continue, leave the loop caught up, or leave after a stop. The action property follows from the one-step lemma `StepNeverBacktracks` and PTL. The refinement follows from `InitRefines` and `StepRefines`, which gives the abstract step of each action. The `Complete` and `Return` cases of `FinishSync` use `RunInv`'s `current = latest` once the loop is done.

`TransactionProofs` proves `Spec => []TypeOK` for every set of seeds and every bound, with one step per action. `TypeOK` is inductive as it stands: `sign()` writes the signature of `m_id`, which is the id of a seed.

`MainProofs` proves `NoNonPositiveTransfer` twice, with NaN amounts typed:

- `CliNoNonPositiveTransfer`: `CliSpec => []NoNonPositiveTransfer`.
- `MainNoNonPositiveTransfer`: `MainSpec => []NoNonPositiveTransfer`.

This is exactly what the handlers' test guarantees. No transaction has an amount for which `amount <= 0` holds. The stronger `TransferAmountsPositive` is false, because NaN passes the test (`main_nan`).

The assumptions are the Wallet, CLI and input assumptions (`InputAssumption`: stdin holds parsed lines). The invariant `HistOK` adds that the history is a sequence of transaction records. The lemmas `HandleTransferStep` and `HandleDonateStep` show that each handler either leaves the history alone or calls `Wallet::transfer` with an amount for which `amount <= 0` was false (a positive integer or NaN). `WalletOpStep` covers the other operations, which keep or empty the history.

For the whole program, `MainIInv` adds that `input` is a line of stdin or the empty one, and that the stream position is at least 1. With that, a line `DispatchCommand` passes to a handler is a parsed transfer or donate line. This also covers the end-of-input path that re-runs the last line: a repeated line passes the same check.

`LinesRunOnce` proves `MainSpec => []EachLineRunOnce` under the hypothesis `InputsEndOrExit`: every possible stdin ends with a newline or holds an `exit` line. These are exactly `MC_Main`'s `SessionInputs`. The hypothesis cannot be dropped: `main_eof` shows the repeat on an unterminated stdin without `exit`.

The invariant `LineInv` states four things:

- The lines run are strictly increasing indices of lines already read.
- At the dispatch point, `input` is either the blank that a `getline` at the end of terminated input leaves, or the line just read, which comes after every line run so far.
- An unterminated stdin still has its `exit` ahead at the read point.
- At the dispatch point, an unterminated stdin's `exit` is at or after the line just read.

The last two facts are what show that the failing `getline`, which leaves a stale `input`, never happens on such an input. The proof needs `Blank`, `ExitLine` and `OtherLine` to be distinct lines (`InputAssumption`).

In these proofs an amount is any member of `Number`, the integers and NaN. The argument uses the IEEE semantics of `<=` on NaN.

`WalletProofs` proves four results about the wallet. They hold for every set of tokens and recipients, every set of integer amounts (negative ones included; `AmountAssumption`), every set of natural file balances, every precision `SigDigits ≥ 1` and every bound:

- `TypeCorrect`: `Spec => []TypeOK`.
- `BalancesNonNegative`: `Spec => []BalanceNeverNegative`.
- `LedgerBalances`: `Spec => []SessionLedgerBalances`.
- `DropsRecorded`: `Spec => BalanceDropRecorded`, an action property.

**Hypothesis.** Each theorem has one hypothesis, `PowerStep`: 10^(k+1) = 10·10^k for every natural k. This is the recurrence that defines exponentiation. It is not a fact about the wallet. The provers evaluate `10 ^ k` only for a literal k, so it has to be stated.

**Arithmetic lemmas.** The lemmas on exponentiation use induction on Nat. `NatSetInduction` states it for a set: a set of naturals that holds 0 and is closed under successor is Nat. It is proved from the well-foundedness of < (`WFMin`, `NatLessThanWellFounded`). This avoids the library's induction rules, whose operator parameter the provers cannot instantiate. From it:

- `PowNat`: every 10^k is a positive natural.
- `PowMonotone`: 10^k is monotone in k.
- `PowExceeds`: n < 10^n.
- `DigitCountSpec`: `DigitCount`'s CHOOSE has a witness. It is found as the least d with n < 10^d.
- `RoundSigNat`: `saveWallet`'s rounding to `SigDigits` significant digits keeps a natural a natural. The exponent d − `SigDigits` is natural because n ≥ 10^`SigDigits`.

**Invariant `IInv`.** `BalanceNeverNegative` alone is not inductive. A restart loads the file, so `IInv` adds two facts:

- the file's balances are non-negative (`DiskNonNegative`);
- an initialised wallet holds the fixed address (`AddressWhenInitialized`), so the file `~Wallet()` writes is one `saveWallet` can produce.

`WalletFileOK` shows that a file written from non-negative balances keeps them non-negative. `TransferInt` shows that on integer balances and amounts, transfer's IEEE operators are the integer ones. The lemmas `InitialiseIInv`, `TransferIInv` and `LoadIInv` cover the steps: `LoadIInv` serves both `Exit` and `Crash`. `NextIInv` has one case per action.

**`SpentOn`.** `SpentOn` is a function defined by recursion over the history. Its equation is restated as `SpentEq(f, h, t, L)`. Three lemmas settle it:

- `SpentExists`: a solution exists. It is built one index at a time, by `NatSetInduction` on L.
- `SpentUnique`: the solution is unique.
- `SpentAppend`: appending a Transaction adds its amount to its own token's sum, and to no other. The proof restricts the new running sum to the old indices and uses uniqueness.

**Invariant `LInv`.** `LInv` adds `NoHistoryUninitialized` (an uninitialised wallet has no history). This is what lets `create` and `recoverFromSeed` zero LMT and reset the session's base with nothing in the history to account for.

**Action property.** `DropsRecorded` uses `EmptyUninitialized`: an uninitialised wallet holds the empty map. Its one-step lemma `StepDropRecorded` then shows that only a transfer lowers a balance within a run. Each invariant was first checked by TLC on `MC_Wallet`'s instance, with positive and with signed amounts.

Only TLC checks the following:

- Liveness (`SyncTerminates`, `SessionEndsOnExit`), which needs fairness and ENABLED. The provers here do not handle these.
- The other properties of `CommandHandler`, and the violated properties of `Wallet` (`DoubleSpendFree`, `SeedBackupIsWalletSeed`, `TransferAmountsPositive`). These are findings, not theorems.
- The wallet's invariants with NaN amounts. They do not hold: a NaN transfer makes the balance NaN, and `BalanceNeverNegative` and `SessionLedgerBalances` are then false. `main_nan` shows how a NaN gets in.

## Not modelled

- A `startSync` re-entered from a callback after `stopSync`. This needs a stack of runs.
- Torn writes of `saveWallet`, and partial loads after a `stod` exception.
- The Config parser and its other keys.
- The CLI handlers that only print, or that call undeclared methods (`handleRefresh`, `handleSeed`, `handleStatus`).
- The ContractExecutor. Spec §1 puts contract execution out of scope. The code is a stub. `main` constructs it without the address its only constructor takes, and the CLI calls an `executeContract` it does not declare, so no path reaches it.
- The Logger's `setLogLevel` and `setConsoleOutput`, which nothing calls. Its timestamp and level formatting. The log calls inside `Wallet` and `Transaction`.

## Plan

1. A run where balances reach 10^6, to show the `%g` round-trip loss. A property on the result returned by `create` when its save fails.
2. Re-entrant `startSync` from a callback, with a bounded stack of runs.
3. A refinement for the wallet: an abstract ledger of balances and debits that `Wallet` implements within a session.
4. Torn writes of the wallet file and of the config file.
