------------------------------- MODULE Wallet -------------------------------
(***************************************************************************)
(* The wallet core of LuminaChain (src/src/core/wallet.cpp, class Wallet,  *)
(* declared in src/include/core/wallet.h): creation and recovery, balances *)
(* per token, transfers that debit a balance and append a Transaction to   *)
(* the history, the seed backup, and the wallet file.                      *)
(*                                                                         *)
(* The process owning the wallet can end cleanly (the destructor saves an  *)
(* initialised wallet) or be killed; either way the next run constructs    *)
(* the Wallet again from the file.  The history is not in the file.        *)
(*                                                                         *)
(* Amounts are doubles in the code: integers here, and the model value NaN *)
(* for the quiet NaN std::stod("nan") returns.  Every comparison with NaN  *)
(* is false and NaN absorbs arithmetic (Lt, Leq, Minus, Plus).  Callers of *)
(* the standalone Wallet pass integer Amounts; the CLI model (Main) can    *)
(* also pass NaN.  saveWallet writes a double with the stream's default    *)
(* precision (6 significant digits, %g) and NaN as "nan", which stod reads *)
(* back as NaN: SigDigits is that precision, FileAmount the conversion.    *)
(*                                                                         *)
(* Auxiliary variables, not in the code: sessionBase (the balances the     *)
(* current run started from), everSpent (what all successful transfers of  *)
(* all runs debited), funds (the balances the file held at first),         *)
(* walletSeed (the phrase the wallet was made from) and shownSeed (what    *)
(* getSeedPhrase last returned).                                           *)
(***************************************************************************)
EXTENDS Integers, Sequences

CONSTANTS
    Tokens,          \* token symbols
    LMT,             \* "LMT", the default token
    Recipients,      \* addresses transfers are sent to
    DevAddress,      \* DEV_TEAM_ADDRESS of donate()
    WalletAddress,   \* the address create() and recoverFromSeed() assign
    NoAddress,       \* the empty m_mainAddress
    Amounts,         \* amounts callers pass to transfer() and donate()
    NaN,             \* the double NaN
    FileBalances,    \* LMT balances a wallet file can hold at start
    Seeds,           \* seed phrases (their words abstracted away)
    GeneratedSeeds,  \* the phrases generateSeed() can return
    BackupPhrase,    \* the fixed phrase getSeedPhrase() returns
    Phrases,         \* inputs of recoverFromSeed: [seed, words, inDict]
    NoSeed,          \* no phrase
    NoFile,          \* no wallet file at m_walletPath
    BadFile,         \* a file whose first line is not the header
    SigDigits,       \* digits saveWallet keeps of a double
    MaxHistory,      \* bound on the transactions of one run
    MaxRestarts      \* bound on the runs after the first

ASSUME TokenAssumption == LMT \in Tokens
ASSUME AddressAssumption == DevAddress \in Recipients
                              /\ WalletAddress # NoAddress
ASSUME AmountAssumption == Amounts \subseteq Int /\ FileBalances \subseteq Nat
ASSUME NaNAssumption == NaN \notin Int
ASSUME SeedAssumption == GeneratedSeeds \subseteq Seeds
                           /\ BackupPhrase \in Seeds /\ NoSeed \notin Seeds
ASSUME PhraseAssumption ==
    Phrases \subseteq [seed : Seeds, words : Nat, inDict : BOOLEAN]
ASSUME BoundAssumption == SigDigits \in Nat \ {0} /\ MaxHistory \in Nat
                         /\ MaxRestarts \in Nat

VARIABLES
    initialized,   \* m_isInitialized
    synchronized,  \* m_isSynchronized
    address,       \* m_mainAddress
    balances,      \* m_balances: token -> amount, for the tokens it holds
    history,       \* m_transactions: [to, amount, token] in creation order
    disk,          \* the wallet file: NoFile, BadFile or [address, balances]
    sessionBase,   \* auxiliary, see above
    everSpent,     \* auxiliary
    funds,         \* auxiliary
    walletSeed,    \* auxiliary
    shownSeed,     \* auxiliary
    restarts       \* runs after the first, for the bound

walletVars == <<initialized, synchronized, address, balances, history>>
ghostVars == <<sessionBase, everSpent, funds, walletSeed, shownSeed>>
vars == <<walletVars, disk, ghostVars, restarts>>

-----------------------------------------------------------------------------
(***************************************************************************)
(* The text conversion of saveWallet: file << double keeps SigDigits       *)
(* significant digits, rounding to nearest with ties to even.              *)
(***************************************************************************)
DigitCount(n) == CHOOSE d \in 1 .. n + 1 : 10 ^ (d - 1) <= n /\ n < 10 ^ d

RoundSig(n) ==
    IF n < 10 ^ SigDigits THEN n
    ELSE LET u == 10 ^ (DigitCount(n) - SigDigits)
             q == n \div u
             r == n % u
         IN  IF 2 * r > u \/ (2 * r = u /\ q % 2 = 1) THEN (q + 1) * u
                                                      ELSE q * u

FileAmount(x) ==
    CASE x = NaN -> NaN
      [] x >= 0  -> RoundSig(x)
      [] OTHER   -> -RoundSig(-x)

\* The file saveWallet writes: the header, ADDRESS and one BALANCE line each.
WalletFile(addr, bal) ==
    [address |-> addr, balances |-> [t \in DOMAIN bal |-> FileAmount(bal[t])]]

(***************************************************************************)
(* IEEE double comparison and arithmetic on Number: < and <= are false     *)
(* when either side is NaN, and - and + of NaN give NaN.                   *)
(***************************************************************************)
Number == Int \cup {NaN}
Lt(a, b) == a # NaN /\ b # NaN /\ a < b
Leq(a, b) == a # NaN /\ b # NaN /\ a <= b
Minus(a, b) == IF a = NaN \/ b = NaN THEN NaN ELSE a - b
Plus(a, b) == IF a = NaN \/ b = NaN THEN NaN ELSE a + b

\* getBalance(token): 0 for a token the map does not hold.
Bal(bal, t) == IF t \in DOMAIN bal THEN bal[t] ELSE 0

\* The balances of a map, the absent tokens as 0.
AllBalances(bal) == [t \in Tokens |-> Bal(bal, t)]

EmptyMap == [t \in {} |-> 0]

\* m_balances["LMT"] = 0.0 on an otherwise unchanged map.
WithZeroLMT(bal) == [t \in DOMAIN bal \cup {LMT} |->
                        IF t = LMT THEN 0 ELSE bal[t]]

IsFile(d) == d \notin {NoFile, BadFile}

\* The wallet files that can exist when the first run starts.
InitialFiles ==
    {NoFile, BadFile} \cup
    {[address |-> WalletAddress, balances |-> [t \in {LMT} |-> b]] :
        b \in FileBalances}

-----------------------------------------------------------------------------
(***************************************************************************)
(* The constructor: loadWallet() on the file; on success the wallet is     *)
(* initialised with the file's address and balances, otherwise it stays   *)
(* uninitialised with an empty map.  Not synchronised, no history.         *)
(***************************************************************************)
LoadWallet(d) ==
    /\ initialized' = IsFile(d)
    /\ synchronized' = FALSE
    /\ address' = IF IsFile(d) THEN d.address ELSE NoAddress
    /\ balances' = IF IsFile(d) THEN d.balances ELSE EmptyMap
    /\ history' = <<>>
    /\ sessionBase' = AllBalances(balances')
    /\ restarts < MaxRestarts
    /\ restarts' = restarts + 1

Init ==
    /\ disk \in InitialFiles
    /\ initialized = IsFile(disk)
    /\ synchronized = FALSE
    /\ address = IF IsFile(disk) THEN disk.address ELSE NoAddress
    /\ balances = IF IsFile(disk) THEN disk.balances ELSE EmptyMap
    /\ history = <<>>
    /\ sessionBase = AllBalances(balances)
    /\ everSpent = [t \in Tokens |-> 0]
    /\ funds = sessionBase
    /\ walletSeed \in IF IsFile(disk) THEN Seeds ELSE {NoSeed}
    /\ shownSeed = NoSeed
    /\ restarts = 0

(***************************************************************************)
(* saveWallet(): writes the file, or fails to open it and leaves the old   *)
(* one (the result is only returned, and create() returns it).             *)
(***************************************************************************)
SaveWallet(addr, bal) ==
    disk' \in {WalletFile(addr, bal), disk}

\* Mutant: the address is never assigned, and the file gets the empty one.
InitialiseNoAddress(seed) ==
    /\ address' = address
    /\ balances' = WithZeroLMT(balances)
    /\ initialized' = TRUE
    /\ synchronized' = FALSE
    /\ SaveWallet(address, balances')
    /\ walletSeed' = seed
    /\ sessionBase' = AllBalances(balances')
    /\ UNCHANGED <<history, everSpent, funds, shownSeed, restarts>>

(***************************************************************************)
(* The common tail of create() and recoverFromSeed(): the fixed address,   *)
(* LMT set to 0, initialised, not synchronised, then saveWallet().         *)
(***************************************************************************)
Initialise(seed) ==
    /\ address' = WalletAddress
    /\ balances' = WithZeroLMT(balances)
    /\ initialized' = TRUE
    /\ synchronized' = FALSE
    /\ SaveWallet(WalletAddress, balances')
    /\ walletSeed' = seed
    /\ sessionBase' = AllBalances(balances')
    /\ UNCHANGED <<history, everSpent, funds, shownSeed, restarts>>

(***************************************************************************)
(* generateSeed(): twelve words drawn from SEED_WORDS by an mt19937 seeded *)
(* with one 32-bit random_device value: one of the phrases GeneratedSeeds  *)
(* lists, each a phrase of dictionary words.                               *)
(***************************************************************************)
GenerateSeed == GeneratedSeeds

\* Mutant: create() without its m_isInitialized check.
CreateWhenInitialized ==
    \E seed \in GenerateSeed : Initialise(seed)

\* create(): rejected when initialised; generateSeed() result is not kept.
Create ==
    /\ ~initialized
    /\ \E seed \in GenerateSeed : Initialise(seed)

(***************************************************************************)
(* recoverFromSeed(phrase): rejected when initialised or when the phrase   *)
(* does not have 12 words; the words are not checked against SEED_WORDS.   *)
(***************************************************************************)
RecoverFromSeed(phrase) ==
    /\ ~initialized
    /\ phrase.words = 12
    /\ Initialise(phrase.seed)

\* Mutant: the balance check reads the LMT balance whatever the token.
TransferChecksLMT(to, amount, token) ==
    /\ initialized
    /\ ~Lt(Bal(balances, LMT), amount)
    /\ Len(history) < MaxHistory
    /\ balances' = [t \in DOMAIN balances \cup {token} |->
                      IF t = token THEN Minus(Bal(balances, token), amount)
                                   ELSE balances[t]]
    /\ history' = Append(history, [to |-> to, amount |-> amount,
                                   token |-> token])
    /\ everSpent' = [everSpent EXCEPT ![token] = Plus(@, amount)]
    /\ UNCHANGED <<initialized, synchronized, address, disk, sessionBase,
                   funds, walletSeed, shownSeed, restarts>>

\* Mutant: the Transaction is appended before the balance check, so a
\* rejected transfer leaves it in the history.
TransferAppendsFirst(to, amount, token) ==
    /\ initialized
    /\ Len(history) < MaxHistory
    /\ history' = Append(history, [to |-> to, amount |-> amount,
                                   token |-> token])
    /\ IF Lt(Bal(balances, token), amount)
         THEN UNCHANGED <<balances, everSpent>>
         ELSE /\ balances' =
                   [t \in DOMAIN balances \cup {token} |->
                      IF t = token THEN Minus(Bal(balances, token), amount)
                                   ELSE balances[t]]
              /\ everSpent' = [everSpent EXCEPT ![token] = Plus(@, amount)]
    /\ UNCHANGED <<initialized, synchronized, address, disk, sessionBase,
                   funds, walletSeed, shownSeed, restarts>>

(***************************************************************************)
(* transfer(to, amount, token): rejected when not initialised or when      *)
(* getBalance(token) < amount; otherwise a PENDING Transaction is created, *)
(* the balance debited (creating the entry) and the Transaction appended.  *)
(* Not saved.  No check that amount is positive.                           *)
(***************************************************************************)
Transfer(to, amount, token) ==
    /\ initialized
    /\ ~Lt(Bal(balances, token), amount)
    /\ Len(history) < MaxHistory
    /\ balances' = [t \in DOMAIN balances \cup {token} |->
                      IF t = token THEN Minus(Bal(balances, token), amount)
                                   ELSE balances[t]]
    /\ history' = Append(history, [to |-> to, amount |-> amount,
                                   token |-> token])
    /\ everSpent' = [everSpent EXCEPT ![token] = Plus(@, amount)]
    /\ UNCHANGED <<initialized, synchronized, address, disk, sessionBase,
                   funds, walletSeed, shownSeed, restarts>>

\* donate(amount): transfer(DEV_TEAM_ADDRESS, amount) with the default LMT.
Donate(amount) == Transfer(DevAddress, amount, LMT)

\* getSeedPhrase(password): the fixed phrase when initialised; the password
\* and m_encryptedSeed are not used.
GetSeedPhrase ==
    /\ initialized
    /\ shownSeed' = BackupPhrase
    /\ UNCHANGED <<walletVars, disk, sessionBase, everSpent, funds,
                   walletSeed, restarts>>

\* synchronize(): sets the flag when initialised.
Synchronize ==
    /\ initialized
    /\ synchronized' = TRUE
    /\ UNCHANGED <<initialized, address, balances, history, disk, ghostVars,
                   restarts>>

(***************************************************************************)
(* The process ends cleanly: ~Wallet() saves an initialised wallet; the    *)
(* next run constructs the Wallet from the file.                           *)
(***************************************************************************)
Exit ==
    \E d \in IF initialized THEN {WalletFile(address, balances), disk}
                           ELSE {disk} :
        /\ disk' = d
        /\ LoadWallet(d)
        /\ UNCHANGED <<everSpent, funds, walletSeed, shownSeed>>

\* The process is killed; the next run loads whatever the file holds.
Crash ==
    /\ LoadWallet(disk)
    /\ UNCHANGED <<disk, everSpent, funds, walletSeed, shownSeed>>

Next ==
    \/ Create
    \/ \E p \in Phrases : RecoverFromSeed(p)
    \/ \E to \in Recipients, a \in Amounts, t \in Tokens : Transfer(to, a, t)
    \/ \E a \in Amounts : Donate(a)
    \/ GetSeedPhrase
    \/ Synchronize
    \/ Exit
    \/ Crash

Spec == Init /\ [][Next]_vars

-----------------------------------------------------------------------------
\* What the history of this run debited from token t.
SpentOn(t) ==
    LET s[i \in 0 .. Len(history)] ==
          IF i = 0 THEN 0
          ELSE s[i - 1] + (IF history[i].token = t THEN history[i].amount
                                                 ELSE 0)
    IN  s[Len(history)]

\* A wallet file saveWallet can have written.
IsWalletFile(d) ==
    /\ d.address = WalletAddress
    /\ DOMAIN d.balances \subseteq Tokens
    /\ \A t \in DOMAIN d.balances : d.balances[t] \in Int

TypeOK ==
    /\ initialized \in BOOLEAN
    /\ synchronized \in BOOLEAN
    /\ address \in {WalletAddress, NoAddress}
    /\ DOMAIN balances \subseteq Tokens
    /\ \A t \in DOMAIN balances : balances[t] \in Int
    /\ history \in Seq([to : Recipients, amount : Amounts, token : Tokens])
    /\ disk \in {NoFile, BadFile} \/ IsWalletFile(disk)
    /\ sessionBase \in [Tokens -> Int]
    /\ everSpent \in [Tokens -> Int]
    /\ funds \in [Tokens -> Int]
    /\ walletSeed \in Seeds \cup {NoSeed}
    /\ shownSeed \in Seeds \cup {NoSeed}
    /\ restarts \in 0 .. MaxRestarts


(***************************************************************************)
(* No balance goes below zero: transfer compares getBalance(token) with    *)
(* the amount of the same token before it debits, whatever runs, loads and *)
(* saves came before.                                                      *)
(***************************************************************************)
BalanceNeverNegative == \A t \in DOMAIN balances : balances[t] >= 0

(***************************************************************************)
(* Within a run, the debit of a transfer and the Transaction it appends go *)
(* together: what a token's balance lost since the run started is exactly *)
(* the sum of the amounts of that token's transactions in the history.     *)
(***************************************************************************)
SessionLedgerBalances ==
    \A t \in Tokens : Bal(balances, t) + SpentOn(t) = sessionBase[t]

(***************************************************************************)
(* Within a run (no restart), a token's balance only drops through a       *)
(* transfer that appends one Transaction of that token whose amount is     *)
(* exactly the drop: create() and recoverFromSeed(), which set LMT to 0,   *)
(* cannot erase a balance, because they refuse an initialised wallet.      *)
(***************************************************************************)
BalanceDropRecorded ==
    [][restarts' = restarts =>
        \A t \in Tokens :
          Bal(balances', t) < Bal(balances, t) =>
            /\ Len(history') = Len(history) + 1
            /\ history'[Len(history')].token = t
            /\ history'[Len(history')].amount =
                 Bal(balances, t) - Bal(balances', t)]_vars

(***************************************************************************)
(* Spec 3, 4.2: the wallet is saved after each successful transfer, so a   *)
(* spent amount is never available again: over all runs, what transfers   *)
(* debited plus what the wallet now holds never exceeds the funds the file *)
(* held.  transfer() does not save, so a restart that does not go through  *)
(* the destructor reloads the pre-transfer balance.                        *)
(***************************************************************************)
DoubleSpendFree ==
    initialized => \A t \in Tokens : Bal(balances, t) + everSpent[t] <= funds[t]

(***************************************************************************)
(* Spec 4.2: getSeedPhrase returns the wallet's seed phrase, the one it    *)
(* was created or recovered from.  The code returns a fixed phrase and     *)
(* never stores the generated one.                                         *)
(***************************************************************************)
SeedBackupIsWalletSeed == shownSeed # NoSeed => shownSeed = walletSeed

(***************************************************************************)
(* Spec 3, 4.2: a transaction's amount is positive; transfer fails with    *)
(* ValidationError when amount <= 0.  Wallet::transfer and donate have no  *)
(* such check; the CLI handlers reject amount <= 0, which is false for a   *)
(* NaN amount, and the balance check balance < amount is false too.        *)
(***************************************************************************)
TransferAmountsPositive ==
    \A i \in 1 .. Len(history) : Lt(0, history[i].amount)

=============================================================================
