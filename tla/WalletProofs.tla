---------------------------- MODULE WalletProofs ----------------------------
(***************************************************************************)
(* Proofs about the wallet: the type invariant and that no balance goes    *)
(* below zero, for every set of tokens, recipients, integer amounts, file  *)
(* balances and precision.                                                 *)
(*                                                                         *)
(* Both rest on the rounding saveWallet does (RoundSig) mapping naturals   *)
(* to naturals.  The provers know 10 ^ k only for a literal k, so the      *)
(* lemmas below take the recurrence that defines exponentiation,          *)
(* PowerStep, as their one hypothesis and derive the rest by induction on *)
(* Nat, done through the well-foundedness of < (WFMin) rather than an     *)
(* induction rule with an operator parameter.                              *)
(***************************************************************************)
EXTENDS Wallet, WellFoundedInduction, TLAPS

USE TokenAssumption, AddressAssumption, AmountAssumption, SeedAssumption,
    PhraseAssumption, BoundAssumption

\* The recurrence of the natural power: 10^(k+1) = 10 * 10^k.
PowerStep == \A k \in Nat : 10 ^ (k + 1) = 10 * 10 ^ k

-----------------------------------------------------------------------------
\* Induction on Nat for a set: a set of naturals holding 0 and closed under
\* successor is Nat.
LEMMA NatSetInduction ==
    ASSUME NEW S \in SUBSET Nat, 0 \in S, \A k \in S : k + 1 \in S
    PROVE  S = Nat
<1>1. SUFFICES ASSUME Nat \ S # {} PROVE FALSE
  OBVIOUS
<1>2. PICK m \in Nat \ S : \A y \in Nat \ S : ~(<<y, m>> \in OpToRel(<, Nat))
  BY <1>1, NatLessThanWellFounded, WFMin
<1>3. m \in Nat /\ m \notin S /\ \A y \in Nat \ S : ~(y < m)
  BY <1>2 DEF OpToRel
<1>4. m # 0 /\ m - 1 \in Nat
  BY <1>3, SMT
<1>5. m - 1 \in S
  BY <1>3, <1>4, SMT
<1> QED BY <1>5, <1>4, SMT

\* Every power of ten is a positive natural.
LEMMA PowNat ==
    ASSUME PowerStep, NEW k \in Nat
    PROVE  10 ^ k \in Nat \ {0}
<1> DEFINE S == {j \in Nat : 10 ^ j \in Nat \ {0}}
<1>1. 0 \in S
  BY SMT
<1>2. \A j \in S : j + 1 \in S
  <2> TAKE j \in S
  <2>1. 10 ^ j \in Nat \ {0}
    OBVIOUS
  <2>2. 10 ^ (j + 1) = 10 * 10 ^ j
    BY SMT DEF PowerStep
  <2> QED BY <2>1, <2>2, SMT
<1>3. S = Nat
  BY <1>1, <1>2, NatSetInduction
<1>4. k \in S
  BY <1>3
<1> QED BY <1>4

\* Powers of ten grow with the exponent.
LEMMA PowMonotone ==
    ASSUME PowerStep, NEW a \in Nat, NEW b \in Nat, a <= b
    PROVE  10 ^ a <= 10 ^ b
<1> DEFINE S == {m \in Nat : 10 ^ a <= 10 ^ (a + m)}
<1>1. 0 \in S
  BY SMT
<1>2. \A m \in S : m + 1 \in S
  <2> TAKE m \in S
  <2>1. 10 ^ (a + m) \in Nat \ {0}
    BY PowNat
  <2>2. 10 ^ (a + m + 1) = 10 * 10 ^ (a + m)
    BY SMT DEF PowerStep
  <2> QED BY <2>1, <2>2, SMT
<1>3. S = Nat
  BY <1>1, <1>2, NatSetInduction
<1>4. b - a \in Nat /\ a + (b - a) = b
  BY SMT
<1>5. 10 ^ a <= 10 ^ (a + (b - a))
  BY <1>3, <1>4, Zenon
<1> QED BY <1>4, <1>5, SMT

\* n < 10^n: every natural has a number of digits.
LEMMA PowExceeds ==
    ASSUME PowerStep, NEW n \in Nat
    PROVE  n < 10 ^ n
<1> DEFINE S == {j \in Nat : j < 10 ^ j}
<1>1. 0 \in S
  BY SMT
<1>2. \A j \in S : j + 1 \in S
  <2> TAKE j \in S
  <2>1. 10 ^ j \in Nat \ {0}
    BY PowNat
  <2>2. 10 ^ (j + 1) = 10 * 10 ^ j
    BY SMT DEF PowerStep
  <2> QED BY <2>1, <2>2, SMT
<1>3. S = Nat
  BY <1>1, <1>2, NatSetInduction
<1> QED BY <1>3

\* A positive natural has a number of digits: DigitCount's CHOOSE has a
\* witness, so it returns d with 10^(d-1) <= n < 10^d.
LEMMA DigitCountSpec ==
    ASSUME PowerStep, NEW n \in Nat, 1 <= n
    PROVE  /\ DigitCount(n) \in 1 .. n + 1
           /\ 10 ^ (DigitCount(n) - 1) <= n
           /\ n < 10 ^ DigitCount(n)
<1> DEFINE T == {d \in Nat : n < 10 ^ d}
<1>1. n \in T
  BY PowExceeds
<1>2. PICK m \in T : \A y \in T : ~(<<y, m>> \in OpToRel(<, Nat))
  BY <1>1, NatLessThanWellFounded, WFMin
<1>3. m \in Nat /\ n < 10 ^ m /\ \A y \in T : ~(y < m)
  BY <1>2 DEF OpToRel
<1>4. m # 0
  <2>1. m \in Nat /\ n < 10 ^ m
    BY <1>3
  <2> SUFFICES ASSUME m = 0 PROVE FALSE
    OBVIOUS
  <2>2. n < 10 ^ 0
    BY <2>1
  <2> QED BY <2>2, SMT
<1>5. m - 1 \in Nat /\ m - 1 < m
  BY <1>3, <1>4, SMT
<1>6. ~(n < 10 ^ (m - 1))
  BY <1>3, <1>5
<1>7. m \in 1 .. n + 1
  BY <1>1, <1>3, <1>4, SMT
<1>8. \E d \in 1 .. n + 1 : 10 ^ (d - 1) <= n /\ n < 10 ^ d
  <2>1. 10 ^ (m - 1) \in Int
    BY <1>5, SMT
  <2> QED BY <1>3, <1>6, <1>7, <2>1, SMT
<1> QED BY <1>8 DEF DigitCount

\* saveWallet's rounding to SigDigits significant digits keeps a natural
\* a natural.
LEMMA RoundSigNat ==
    ASSUME PowerStep, NEW n \in Nat
    PROVE  RoundSig(n) \in Nat
<1>1. CASE n < 10 ^ SigDigits
  BY <1>1 DEF RoundSig
<1>2. CASE ~(n < 10 ^ SigDigits)
  <2> DEFINE d == DigitCount(n)
             u == 10 ^ (d - SigDigits)
  <2>1. 10 ^ SigDigits \in Nat \ {0}
    BY PowNat
  <2>2. d \in 1 .. n + 1 /\ n < 10 ^ d
    BY <1>2, <2>1, DigitCountSpec, SMT
  <2>3. d - SigDigits \in Nat
    <3> SUFFICES ASSUME d < SigDigits PROVE FALSE
      BY <2>2, SMT
    <3>1. 10 ^ d <= 10 ^ SigDigits
      BY <2>2, PowMonotone, SMT
    <3> QED BY <1>2, <2>2, <3>1, <2>1, SMT
  <2>4. u \in Nat \ {0}
    BY <2>3, PowNat
  <2>5. RoundSig(n) = IF 2 * (n % u) > u \/ (2 * (n % u) = u /\ (n \div u) % 2 = 1)
                        THEN ((n \div u) + 1) * u ELSE (n \div u) * u
    BY <1>2 DEF RoundSig
  <2> QED BY <2>4, <2>5, SMT
<1> QED BY <1>1, <1>2

\* The amount a balance is written as: a natural stays a natural.
LEMMA FileAmountNat ==
    ASSUME PowerStep, NEW x \in Nat
    PROVE  FileAmount(x) \in Nat
BY RoundSigNat DEF FileAmount


-----------------------------------------------------------------------------
(***************************************************************************)
(* The inductive invariant.  BalanceNeverNegative alone is not inductive: *)
(* a restart loads the balances of the file, so the file's balances must   *)
(* be non-negative too, and ~Wallet() writes m_mainAddress, so an          *)
(* initialised wallet must hold the fixed address for the file to be one   *)
(* saveWallet can have written.                                            *)
(***************************************************************************)
DiskNonNegative ==
    IsFile(disk) => \A t \in DOMAIN disk.balances : disk.balances[t] >= 0

AddressWhenInitialized == initialized => address = WalletAddress

IInv ==
    /\ TypeOK
    /\ BalanceNeverNegative
    /\ DiskNonNegative
    /\ AddressWhenInitialized


\* A file saveWallet writes of the fixed address and non-negative balances
\* is a wallet file with non-negative balances.
LEMMA WalletFileOK ==
    ASSUME PowerStep, NEW bal, DOMAIN bal \subseteq Tokens,
           \A t \in DOMAIN bal : bal[t] \in Nat
    PROVE  /\ IsWalletFile(WalletFile(WalletAddress, bal))
           /\ \A t \in DOMAIN WalletFile(WalletAddress, bal).balances :
                 WalletFile(WalletAddress, bal).balances[t] >= 0
<1>1. \A t \in DOMAIN bal : FileAmount(bal[t]) \in Nat
  BY FileAmountNat
<1> QED BY <1>1 DEF WalletFile, IsWalletFile

LEMMA InitIInv == Init => IInv
<1> SUFFICES ASSUME Init PROVE IInv
  OBVIOUS
<1>1. /\ history = <<>> /\ synchronized = FALSE /\ shownSeed = NoSeed
      /\ restarts = 0 /\ everSpent = [t \in Tokens |-> 0]
      /\ sessionBase = AllBalances(balances) /\ funds = sessionBase
      /\ walletSeed \in Seeds \cup {NoSeed}
  BY DEF Init
<1>2. CASE disk \in {NoFile, BadFile}
  <2>1. initialized = FALSE /\ address = NoAddress /\ balances = EmptyMap
    BY <1>2 DEF Init, IsFile
  <2>2. sessionBase = [t \in Tokens |-> 0]
    BY <1>1, <2>1 DEF AllBalances, Bal, EmptyMap
  <2>3. history \in Seq([to : Recipients, amount : Amounts, token : Tokens])
    BY <1>1
  <2>4. TypeOK
    <3>1. initialized \in BOOLEAN /\ synchronized \in BOOLEAN
      BY <1>1, <2>1
    <3>2. address \in {WalletAddress, NoAddress}
      BY <2>1
    <3>3. DOMAIN balances \subseteq Tokens
          /\ \A t \in DOMAIN balances : balances[t] \in Int
      BY <2>1 DEF EmptyMap
    <3>4. sessionBase \in [Tokens -> Int] /\ everSpent \in [Tokens -> Int]
          /\ funds \in [Tokens -> Int]
      BY <1>1, <2>2
    <3>5. walletSeed \in Seeds \cup {NoSeed} /\ shownSeed \in Seeds \cup {NoSeed}
      BY <1>1
    <3>6. restarts \in 0 .. MaxRestarts
      BY <1>1
    <3> QED BY <1>2, <2>3, <3>1, <3>2, <3>3, <3>4, <3>5, <3>6 DEF TypeOK
  <2> QED BY <1>2, <2>1, <2>4 DEF IInv, BalanceNeverNegative,
             DiskNonNegative, AddressWhenInitialized, IsFile, EmptyMap
<1>3. CASE disk \notin {NoFile, BadFile}
  <2>1. PICK b \in FileBalances :
          disk = [address |-> WalletAddress, balances |-> [t \in {LMT} |-> b]]
    BY <1>3 DEF Init, InitialFiles
  <2>2. initialized = TRUE /\ address = WalletAddress
        /\ balances = [t \in {LMT} |-> b] /\ b \in Nat
    BY <1>3, <2>1 DEF Init, IsFile
  <2>3. sessionBase \in [Tokens -> Int]
    BY <1>1, <2>2 DEF AllBalances, Bal
  <2>4. IsWalletFile(disk) /\ DiskNonNegative
    BY <2>1, <2>2 DEF IsWalletFile, DiskNonNegative
  <2>5. history \in Seq([to : Recipients, amount : Amounts, token : Tokens])
    BY <1>1
  <2>6. TypeOK
    <3>1. initialized \in BOOLEAN /\ synchronized \in BOOLEAN
      BY <1>1, <2>2
    <3>2. DOMAIN balances \subseteq Tokens
          /\ \A t \in DOMAIN balances : balances[t] \in Int
      BY <2>2
    <3>3. sessionBase \in [Tokens -> Int] /\ everSpent \in [Tokens -> Int]
          /\ funds \in [Tokens -> Int]
      BY <1>1, <2>3
    <3>4. walletSeed \in Seeds \cup {NoSeed} /\ shownSeed \in Seeds \cup {NoSeed}
          /\ restarts \in 0 .. MaxRestarts
      BY <1>1
    <3> QED BY <2>2, <2>4, <2>5, <3>1, <3>2, <3>3, <3>4 DEF TypeOK
  <2> QED BY <2>2, <2>4, <2>6 DEF IInv, BalanceNeverNegative,
             AddressWhenInitialized
<1> QED BY <1>2, <1>3


\* create() and recoverFromSeed(): the fixed address, LMT set to 0 and a
\* save that writes the file or leaves the old one.
LEMMA InitialiseIInv ==
    ASSUME PowerStep, IInv, NEW seed \in Seeds, Initialise(seed)
    PROVE  IInv'
<1>1. /\ balances' = WithZeroLMT(balances)
      /\ address' = WalletAddress /\ initialized' = TRUE
      /\ synchronized' = FALSE /\ walletSeed' = seed
      /\ sessionBase' = AllBalances(balances')
      /\ UNCHANGED <<history, everSpent, funds, shownSeed, restarts>>
  BY DEF Initialise
<1>2. /\ DOMAIN balances' \subseteq Tokens
      /\ \A t \in DOMAIN balances' : balances'[t] \in Nat
  BY <1>1 DEF IInv, TypeOK, BalanceNeverNegative, WithZeroLMT
<1>3. disk' \in {WalletFile(WalletAddress, balances'), disk}
  BY DEF Initialise, SaveWallet
<1>4. /\ IsWalletFile(WalletFile(WalletAddress, balances'))
      /\ \A t \in DOMAIN WalletFile(WalletAddress, balances').balances :
            WalletFile(WalletAddress, balances').balances[t] >= 0
  BY <1>2, WalletFileOK
<1>5. /\ disk' \in {NoFile, BadFile} \/ IsWalletFile(disk')
      /\ DiskNonNegative'
  BY <1>3, <1>4 DEF IInv, TypeOK, DiskNonNegative
<1>6. sessionBase' \in [Tokens -> Int]
  BY <1>1, <1>2 DEF AllBalances, Bal
<1>7. TypeOK'
  <2>1. initialized' \in BOOLEAN /\ synchronized' \in BOOLEAN
        /\ address' \in {WalletAddress, NoAddress}
        /\ walletSeed' \in Seeds \cup {NoSeed}
    BY <1>1
  <2>2. /\ history' \in Seq([to : Recipients, amount : Amounts, token : Tokens])
        /\ everSpent' \in [Tokens -> Int] /\ funds' \in [Tokens -> Int]
        /\ shownSeed' \in Seeds \cup {NoSeed} /\ restarts' \in 0 .. MaxRestarts
    BY <1>1 DEF IInv, TypeOK
  <2> QED BY <1>2, <1>5, <1>6, <2>1, <2>2 DEF TypeOK
<1> QED BY <1>1, <1>2, <1>5, <1>7 DEF IInv, BalanceNeverNegative,
           AddressWhenInitialized

\* Transfer on integer balances and amounts: its double comparison and
\* arithmetic are the integer ones.
IntTransfer(to, amount, token) ==
    /\ ~(Bal(balances, token) < amount)
    /\ balances' = [t \in DOMAIN balances \cup {token} |->
                      IF t = token THEN Bal(balances, token) - amount
                                   ELSE balances[t]]
    /\ history' = Append(history, [to |-> to, amount |-> amount,
                                   token |-> token])
    /\ everSpent' = [everSpent EXCEPT ![token] = @ + amount]
    /\ UNCHANGED <<initialized, synchronized, address, disk, sessionBase,
                   funds, walletSeed, shownSeed, restarts>>

LEMMA TransferInt ==
    ASSUME TypeOK, NEW to, NEW amount \in Amounts, NEW token \in Tokens,
           Transfer(to, amount, token)
    PROVE  IntTransfer(to, amount, token)
<1>1. Bal(balances, token) \in Int /\ amount \in Int
      /\ everSpent[token] \in Int
  BY DEF TypeOK, Bal
<1>2. /\ Lt(Bal(balances, token), amount) = (Bal(balances, token) < amount)
      /\ Minus(Bal(balances, token), amount) = Bal(balances, token) - amount
      /\ Plus(everSpent[token], amount) = everSpent[token] + amount
  BY <1>1, NaNAssumption DEF Lt, Minus, Plus
<1> QED BY <1>2 DEF Transfer, IntTransfer

\* transfer(to, amount, token): the debit only after the balance check.
LEMMA TransferIInv ==
    ASSUME IInv, NEW to \in Recipients, NEW amount \in Amounts,
           NEW token \in Tokens, Transfer(to, amount, token)
    PROVE  IInv'
<1>1. /\ ~(Bal(balances, token) < amount)
      /\ balances' = [t \in DOMAIN balances \cup {token} |->
                        IF t = token THEN Bal(balances, token) - amount
                                     ELSE balances[t]]
      /\ history' = Append(history, [to |-> to, amount |-> amount,
                                     token |-> token])
      /\ everSpent' = [everSpent EXCEPT ![token] = @ + amount]
      /\ UNCHANGED <<initialized, synchronized, address, disk, sessionBase,
                     funds, walletSeed, shownSeed, restarts>>
  <2>1. IntTransfer(to, amount, token)
    BY TransferInt DEF IInv
  <2> QED BY <2>1 DEF IntTransfer
<1>2. Bal(balances, token) \in Int /\ Bal(balances, token) >= 0
  BY DEF IInv, TypeOK, BalanceNeverNegative, Bal
<1>3. /\ DOMAIN balances' \subseteq Tokens
      /\ \A t \in DOMAIN balances' : balances'[t] \in Int /\ balances'[t] >= 0
  BY <1>1, <1>2 DEF IInv, TypeOK, BalanceNeverNegative
<1>4. history' \in Seq([to : Recipients, amount : Amounts, token : Tokens])
  BY <1>1 DEF IInv, TypeOK
<1>5. everSpent' \in [Tokens -> Int]
  BY <1>1 DEF IInv, TypeOK
<1>6. TypeOK'
  BY <1>1, <1>3, <1>4, <1>5 DEF IInv, TypeOK, IsWalletFile
<1> QED BY <1>1, <1>3, <1>6 DEF IInv, BalanceNeverNegative, DiskNonNegative,
           AddressWhenInitialized, IsFile


\* A restart, clean or not: the next run constructs the Wallet from a file
\* that is absent, corrupt, or a wallet file with non-negative balances.
LEMMA LoadIInv ==
    ASSUME IInv, NEW d,
           d \in {NoFile, BadFile} \/ IsWalletFile(d),
           IsFile(d) => \A t \in DOMAIN d.balances : d.balances[t] >= 0,
           LoadWallet(d), disk' = d,
           UNCHANGED <<everSpent, funds, walletSeed, shownSeed>>
    PROVE  IInv'
<1>1. /\ initialized' = IsFile(d) /\ synchronized' = FALSE
      /\ history' = <<>> /\ sessionBase' = AllBalances(balances')
      /\ restarts' \in 0 .. MaxRestarts
  BY DEF LoadWallet, IInv, TypeOK
<1>2. /\ DOMAIN balances' \subseteq Tokens
      /\ \A t \in DOMAIN balances' : balances'[t] \in Int /\ balances'[t] >= 0
      /\ initialized' => address' = WalletAddress
      /\ address' \in {WalletAddress, NoAddress}
  <2>1. CASE IsFile(d)
    <3>1. IsWalletFile(d)
      BY <2>1 DEF IsFile
    <3> QED BY <2>1, <3>1 DEF LoadWallet, IsWalletFile
  <2>2. CASE ~IsFile(d)
    BY <2>2 DEF LoadWallet, EmptyMap
  <2> QED BY <2>1, <2>2
<1>3. sessionBase' \in [Tokens -> Int]
  BY <1>1, <1>2 DEF AllBalances, Bal
<1>4. TypeOK'
  <2>1. initialized' \in BOOLEAN /\ synchronized' \in BOOLEAN
    BY <1>1 DEF IsFile
  <2>2. history' \in Seq([to : Recipients, amount : Amounts, token : Tokens])
    BY <1>1
  <2>3. /\ everSpent' \in [Tokens -> Int] /\ funds' \in [Tokens -> Int]
        /\ walletSeed' \in Seeds \cup {NoSeed}
        /\ shownSeed' \in Seeds \cup {NoSeed}
    BY DEF IInv, TypeOK
  <2> QED BY <1>1, <1>2, <1>3, <2>1, <2>2, <2>3 DEF TypeOK
<1> QED BY <1>2, <1>4 DEF IInv, BalanceNeverNegative, DiskNonNegative,
           AddressWhenInitialized

\* The inductive step: every action of the wallet preserves IInv.
LEMMA NextIInv ==
    ASSUME PowerStep, IInv, [Next]_vars
    PROVE  IInv'
<1>1. CASE Create
  BY <1>1, InitialiseIInv DEF Create, GenerateSeed
<1>2. CASE \E p \in Phrases : RecoverFromSeed(p)
  <2>1. PICK p \in Phrases : RecoverFromSeed(p)
    BY <1>2
  <2>2. p.seed \in Seeds
    BY PhraseAssumption
  <2> QED BY <2>1, <2>2, InitialiseIInv DEF RecoverFromSeed
<1>3. CASE \E to \in Recipients, a \in Amounts, t \in Tokens : Transfer(to, a, t)
  BY <1>3, TransferIInv
<1>4. CASE \E a \in Amounts : Donate(a)
  BY <1>4, TransferIInv DEF Donate
<1>5. CASE GetSeedPhrase
  BY <1>5 DEF GetSeedPhrase, IInv, TypeOK, BalanceNeverNegative,
             DiskNonNegative, AddressWhenInitialized, IsWalletFile, walletVars
<1>6. CASE Synchronize
  BY <1>6 DEF Synchronize, IInv, TypeOK, BalanceNeverNegative,
             DiskNonNegative, AddressWhenInitialized, IsWalletFile, ghostVars
<1>7. CASE Exit
  <2>1. PICK d \in IF initialized THEN {WalletFile(address, balances), disk}
                                  ELSE {disk} :
          /\ disk' = d
          /\ LoadWallet(d)
          /\ UNCHANGED <<everSpent, funds, walletSeed, shownSeed>>
    BY <1>7 DEF Exit
  <2>2. /\ disk \in {NoFile, BadFile} \/ IsWalletFile(disk)
        /\ IsFile(disk) => \A t \in DOMAIN disk.balances : disk.balances[t] >= 0
    BY DEF IInv, TypeOK, DiskNonNegative
  <2>3. CASE initialized /\ d = WalletFile(address, balances)
    <3>1. address = WalletAddress
      BY <2>3 DEF IInv, AddressWhenInitialized
    <3>2. DOMAIN balances \subseteq Tokens
          /\ \A t \in DOMAIN balances : balances[t] \in Nat
      BY DEF IInv, TypeOK, BalanceNeverNegative
    <3> QED BY <2>1, <2>3, <3>1, <3>2, WalletFileOK, LoadIInv
  <2>4. CASE d = disk
    BY <2>1, <2>2, <2>4, LoadIInv
  <2> QED BY <2>1, <2>3, <2>4
<1>8. CASE Crash
  BY <1>8, LoadIInv DEF Crash, IInv, TypeOK, DiskNonNegative
<1>9. CASE UNCHANGED vars
  BY <1>9 DEF vars, walletVars, ghostVars, IInv, TypeOK, BalanceNeverNegative,
             DiskNonNegative, AddressWhenInitialized, IsWalletFile, IsFile
<1> QED BY <1>1, <1>2, <1>3, <1>4, <1>5, <1>6, <1>7, <1>8, <1>9 DEF Next


-----------------------------------------------------------------------------
(***************************************************************************)
(* SpentOn is a recursive function over 0 .. Len(history).  Its equation   *)
(* is restated for any sequence h and length L, the function is shown to   *)
(* exist (built up one index at a time) and to be unique, and from these  *)
(* follows what appending a Transaction does to it.                        *)
(***************************************************************************)
TxRecords == [to : Recipients, amount : Amounts, token : Tokens]

\* What the i-th transaction of h debits from token t.
Debit(h, t, i) == IF h[i].token = t THEN h[i].amount ELSE 0

\* f is SpentOn's running sum over the first L transactions of h.
SpentEq(f, h, t, L) ==
    f = [i \in 0 .. L |-> IF i = 0 THEN 0 ELSE f[i - 1] + Debit(h, t, i)]

SpentFn(h, t) == CHOOSE f : SpentEq(f, h, t, Len(h))

LEMMA SpentOnDef ==
    ASSUME NEW t
    PROVE  /\ SpentOn(t) = SpentFn(history, t)[Len(history)]
           /\ SpentOn(t)' = SpentFn(history', t)[Len(history')]
BY DEF SpentOn, SpentFn, SpentEq, Debit

\* The running sum exists: it is built one transaction at a time.
LEMMA SpentExists ==
    ASSUME NEW h \in Seq(TxRecords), NEW t
    PROVE  \E f : SpentEq(f, h, t, Len(h)) /\ f \in [0 .. Len(h) -> Int]
<1> DEFINE S == {L \in Nat : L <= Len(h) =>
                     \E f : SpentEq(f, h, t, L) /\ f \in [0 .. L -> Int]}
<1>1. 0 \in S
  <2> DEFINE z == [i \in 0 .. 0 |-> 0]
  <2>1. SpentEq(z, h, t, 0) /\ z \in [0 .. 0 -> Int]
    BY DEF SpentEq
  <2> QED BY <2>1
<1>2. \A L \in S : L + 1 \in S
  <2> TAKE L \in S
  <2> SUFFICES ASSUME L + 1 <= Len(h)
               PROVE  \E f : SpentEq(f, h, t, L + 1) /\ f \in [0 .. L + 1 -> Int]
    OBVIOUS
  <2>1. PICK f : SpentEq(f, h, t, L) /\ f \in [0 .. L -> Int]
    BY SMT
  <2>2. \A i \in 1 .. Len(h) : Debit(h, t, i) \in Int
    BY AmountAssumption DEF Debit, TxRecords
  <2> DEFINE g == [i \in 0 .. L + 1 |->
                     IF i <= L THEN f[i] ELSE f[L] + Debit(h, t, L + 1)]
  <2>3. \A i \in 0 .. L : f[i] = IF i = 0 THEN 0 ELSE f[i - 1] + Debit(h, t, i)
    BY <2>1 DEF SpentEq
  <2>4. \A i \in 0 .. L + 1 :
           g[i] = IF i = 0 THEN 0 ELSE g[i - 1] + Debit(h, t, i)
    BY <2>3, SMT
  <2>5. SpentEq(g, h, t, L + 1)
    BY <2>4 DEF SpentEq
  <2>6. g \in [0 .. L + 1 -> Int]
    BY <2>1, <2>2, SMT
  <2> QED BY <2>5, <2>6
<1>3. S = Nat
  BY <1>1, <1>2, NatSetInduction
<1>4. Len(h) \in S
  BY <1>3
<1> QED BY <1>4

\* Two running sums over the same transactions are equal.
LEMMA SpentUnique ==
    ASSUME NEW h, NEW t, NEW L \in Nat, NEW f, NEW g,
           SpentEq(f, h, t, L), SpentEq(g, h, t, L)
    PROVE  f = g
<1> DEFINE S == {i \in Nat : i <= L => f[i] = g[i]}
<1>1. \A i \in 0 .. L : f[i] = IF i = 0 THEN 0 ELSE f[i - 1] + Debit(h, t, i)
  BY DEF SpentEq
<1>2. \A i \in 0 .. L : g[i] = IF i = 0 THEN 0 ELSE g[i - 1] + Debit(h, t, i)
  BY DEF SpentEq
<1>3. 0 \in S
  BY <1>1, <1>2
<1>4. \A i \in S : i + 1 \in S
  BY <1>1, <1>2, SMT
<1>5. S = Nat
  BY <1>3, <1>4, NatSetInduction
<1>6. \A i \in 0 .. L : f[i] = g[i]
  BY <1>5
<1>7. f = [i \in 0 .. L |-> f[i]] /\ g = [i \in 0 .. L |-> g[i]]
  BY DEF SpentEq
<1> QED BY <1>6, <1>7

\* SpentFn is the running sum, with integer values.
LEMMA SpentFnSpec ==
    ASSUME NEW h \in Seq(TxRecords), NEW t
    PROVE  /\ SpentEq(SpentFn(h, t), h, t, Len(h))
           /\ SpentFn(h, t) \in [0 .. Len(h) -> Int]
<1>1. PICK f : SpentEq(f, h, t, Len(h)) /\ f \in [0 .. Len(h) -> Int]
  BY SpentExists
<1>2. SpentEq(SpentFn(h, t), h, t, Len(h))
  BY <1>1 DEF SpentFn
<1>3. SpentFn(h, t) = f
  BY <1>1, <1>2, SpentUnique
<1> QED BY <1>1, <1>2, <1>3

\* Nothing is spent over no transactions.
LEMMA SpentEmpty ==
    ASSUME NEW t
    PROVE  SpentFn(<<>>, t)[0] = 0
<1>1. <<>> \in Seq(TxRecords) /\ Len(<<>>) = 0
  OBVIOUS
<1>2. SpentEq(SpentFn(<<>>, t), <<>>, t, 0)
  BY <1>1, SpentFnSpec
<1> QED BY <1>2 DEF SpentEq

\* Appending a Transaction adds its amount to its own token's sum only.
LEMMA SpentAppend ==
    ASSUME NEW h \in Seq(TxRecords), NEW x \in TxRecords, NEW t
    PROVE  SpentFn(Append(h, x), t)[Len(h) + 1] =
             SpentFn(h, t)[Len(h)] + (IF x.token = t THEN x.amount ELSE 0)
<1> DEFINE h2 == Append(h, x)
           L == Len(h)
           F2 == SpentFn(h2, t)
           F == SpentFn(h, t)
           R == [i \in 0 .. L |-> F2[i]]
<1>1. h2 \in Seq(TxRecords) /\ Len(h2) = L + 1 /\ L \in Nat
  OBVIOUS
<1>2. SpentEq(F2, h2, t, L + 1) /\ F2 \in [0 .. L + 1 -> Int]
  BY <1>1, SpentFnSpec
<1>3. \A i \in 0 .. L + 1 : F2[i] = IF i = 0 THEN 0 ELSE F2[i - 1] + Debit(h2, t, i)
  BY <1>2 DEF SpentEq
<1>4. \A i \in 1 .. L : Debit(h2, t, i) = Debit(h, t, i)
  BY DEF Debit
<1>5. SpentEq(R, h, t, L)
  <2>1. \A i \in 0 .. L : R[i] = IF i = 0 THEN 0 ELSE R[i - 1] + Debit(h, t, i)
    BY <1>3, <1>4, SMT
  <2> QED BY <2>1 DEF SpentEq
<1>6. SpentEq(F, h, t, L)
  BY SpentFnSpec
<1>7. R = F
  BY <1>5, <1>6, SpentUnique
<1>8. F2[L + 1] = F2[L] + Debit(h2, t, L + 1) /\ Debit(h2, t, L + 1) = (IF x.token = t THEN x.amount ELSE 0)
  BY <1>1, <1>3 DEF Debit
<1> QED BY <1>7, <1>8

-----------------------------------------------------------------------------
(***************************************************************************)
(* The invariant behind SessionLedgerBalances: IInv, and an uninitialised *)
(* wallet has no history (only a load clears initialized, and it empties   *)
(* the history), so create() and recoverFromSeed(), which set LMT to 0 and *)
(* restart the session's base, find no transaction to account for.        *)
(***************************************************************************)
NoHistoryUninitialized == ~initialized => history = <<>>

LInv == IInv /\ NoHistoryUninitialized /\ SessionLedgerBalances

\* A step that empties the history and takes the balances as the new base.
LEMMA LedgerReset ==
    ASSUME history' = <<>>, sessionBase' = AllBalances(balances'),
           \A t \in Tokens : Bal(balances', t) \in Int
    PROVE  SessionLedgerBalances'
<1> SUFFICES ASSUME NEW t \in Tokens
             PROVE  Bal(balances', t) + SpentOn(t)' = sessionBase'[t]
  BY DEF SessionLedgerBalances
<1>1. SpentOn(t)' = 0
  BY SpentOnDef, SpentEmpty
<1> QED BY <1>1 DEF AllBalances

\* A transfer debits its token by the amount of the Transaction it appends.
LEMMA LedgerTransfer ==
    ASSUME LInv, NEW to \in Recipients, NEW amount \in Amounts,
           NEW token \in Tokens, Transfer(to, amount, token)
    PROVE  SessionLedgerBalances'
<1> DEFINE x == [to |-> to, amount |-> amount, token |-> token]
<1>1. /\ ~(Bal(balances, token) < amount)
      /\ balances' = [t \in DOMAIN balances \cup {token} |->
                        IF t = token THEN Bal(balances, token) - amount
                                     ELSE balances[t]]
      /\ history' = Append(history, x)
      /\ sessionBase' = sessionBase
  <2>1. IntTransfer(to, amount, token)
    BY TransferInt DEF LInv, IInv
  <2> QED BY <2>1 DEF IntTransfer
<1>2. history \in Seq(TxRecords) /\ x \in TxRecords
  BY DEF LInv, IInv, TypeOK, TxRecords
<1> SUFFICES ASSUME NEW t \in Tokens
             PROVE  Bal(balances', t) + SpentOn(t)' = sessionBase'[t]
  BY DEF SessionLedgerBalances
<1>3. SpentOn(t)' = SpentOn(t) + (IF token = t THEN amount ELSE 0)
  BY <1>1, <1>2, SpentOnDef, SpentAppend
<1>4. Bal(balances', t) = Bal(balances, t) - (IF token = t THEN amount ELSE 0)
  <2>1. \A u \in DOMAIN balances : balances[u] \in Int
    BY DEF LInv, IInv, TypeOK
  <2>2. amount \in Int
    BY AmountAssumption
  <2> QED BY <1>1, <2>1, <2>2 DEF Bal
<1>5. Bal(balances, t) + SpentOn(t) = sessionBase[t]
  BY DEF LInv, SessionLedgerBalances
<1>6. /\ Bal(balances, t) \in Int /\ amount \in Int
      /\ SpentOn(t) \in Int
  <2>1. SpentFn(history, t) \in [0 .. Len(history) -> Int]
    BY <1>2, SpentFnSpec
  <2>2. Len(history) \in 0 .. Len(history)
    BY <1>2
  <2>3. SpentOn(t) \in Int
    BY <2>1, <2>2, SpentOnDef
  <2>4. Bal(balances, t) \in Int
    BY DEF LInv, IInv, TypeOK, Bal
  <2> QED BY <2>3, <2>4, AmountAssumption
<1> QED BY <1>1, <1>3, <1>4, <1>5, <1>6

LEMMA InitLInv == Init => LInv
<1> SUFFICES ASSUME Init PROVE LInv
  OBVIOUS
<1>1. IInv
  BY InitIInv
<1>2. history = <<>> /\ sessionBase = AllBalances(balances)
  BY DEF Init
<1>3. SessionLedgerBalances
  <2> SUFFICES ASSUME NEW t \in Tokens
               PROVE  Bal(balances, t) + SpentOn(t) = sessionBase[t]
    BY DEF SessionLedgerBalances
  <2>1. SpentOn(t) = 0
    BY <1>2, SpentOnDef, SpentEmpty
  <2>2. Bal(balances, t) \in Int
    BY <1>1 DEF IInv, TypeOK, Bal
  <2> QED BY <1>2, <2>1, <2>2 DEF AllBalances
<1> QED BY <1>1, <1>2, <1>3 DEF LInv, NoHistoryUninitialized

\* The inductive step of LInv, one action at a time.
LEMMA NextLInv ==
    ASSUME PowerStep, LInv, [Next]_vars
    PROVE  LInv'
<1>1. IInv'
  BY NextIInv DEF LInv
<1>2. \A t \in Tokens : Bal(balances', t) \in Int
  BY <1>1 DEF IInv, TypeOK, Bal
<1>3. /\ history \in Seq(TxRecords)
      /\ (~initialized => history = <<>>)
  BY DEF LInv, IInv, TypeOK, TxRecords, NoHistoryUninitialized
<1> SUFFICES NoHistoryUninitialized' /\ SessionLedgerBalances'
  BY <1>1 DEF LInv
<1>4. CASE Create \/ \E p \in Phrases : RecoverFromSeed(p)
  <2>1. /\ ~initialized /\ initialized' = TRUE
        /\ history' = history
        /\ sessionBase' = AllBalances(balances')
    BY <1>4 DEF Create, RecoverFromSeed, Initialise
  <2>2. history' = <<>>
    BY <1>3, <2>1
  <2> QED BY <1>2, <2>1, <2>2, LedgerReset DEF NoHistoryUninitialized
<1>5. CASE \E to \in Recipients, a \in Amounts, t \in Tokens : Transfer(to, a, t)
  <2>1. PICK to \in Recipients, a \in Amounts, t \in Tokens : Transfer(to, a, t)
    BY <1>5
  <2>2. initialized' = TRUE
    BY <2>1 DEF Transfer
  <2> QED BY <2>1, <2>2, LedgerTransfer DEF NoHistoryUninitialized
<1>6. CASE \E a \in Amounts : Donate(a)
  <2>1. PICK a \in Amounts : Transfer(DevAddress, a, LMT)
    BY <1>6 DEF Donate
  <2>2. initialized' = TRUE
    BY <2>1 DEF Transfer
  <2> QED BY <2>1, <2>2, LedgerTransfer, AddressAssumption, TokenAssumption
          DEF NoHistoryUninitialized
<1>7. CASE GetSeedPhrase \/ Synchronize
  <2>1. UNCHANGED <<initialized, balances, history, sessionBase>>
    BY <1>7 DEF GetSeedPhrase, Synchronize, walletVars, ghostVars
  <2> QED BY <2>1 DEF LInv, NoHistoryUninitialized, SessionLedgerBalances,
             SpentOn, Bal
<1>8. CASE Exit \/ Crash
  <2>1. PICK d : LoadWallet(d)
    BY <1>8 DEF Exit, Crash
  <2>2. history' = <<>> /\ sessionBase' = AllBalances(balances')
    BY <2>1 DEF LoadWallet
  <2> QED BY <1>2, <2>2, LedgerReset DEF NoHistoryUninitialized
<1>9. CASE UNCHANGED vars
  <2>1. UNCHANGED <<initialized, balances, history, sessionBase>>
    BY <1>9 DEF vars, walletVars, ghostVars
  <2> QED BY <2>1 DEF LInv, NoHistoryUninitialized, SessionLedgerBalances,
             SpentOn, Bal
<1> QED BY <1>4, <1>5, <1>6, <1>7, <1>8, <1>9 DEF Next

-----------------------------------------------------------------------------
(***************************************************************************)
(* For BalanceDropRecorded: an uninitialised wallet holds the empty map,   *)
(* since the constructor and a restart load EmptyMap whenever the file is *)
(* not a wallet file, and nothing else clears initialized.                 *)
(***************************************************************************)
EmptyUninitialized == ~initialized => balances = EmptyMap

LEMMA InitEmpty == Init => EmptyUninitialized
BY DEF Init, EmptyUninitialized

LEMMA NextEmpty ==
    ASSUME IInv, EmptyUninitialized, [Next]_vars
    PROVE  EmptyUninitialized'
<1>1. initialized \in BOOLEAN
  BY DEF IInv, TypeOK
<1>2. CASE Create \/ \E p \in Phrases : RecoverFromSeed(p)
  BY <1>2 DEF Create, RecoverFromSeed, Initialise, EmptyUninitialized
<1>3. CASE \/ \E to \in Recipients, a \in Amounts, t \in Tokens : Transfer(to, a, t)
           \/ \E a \in Amounts : Donate(a)
  <2>1. PICK to \in Recipients, a \in Amounts, tk \in Tokens : Transfer(to, a, tk)
    BY <1>3, AddressAssumption, TokenAssumption DEF Donate
  <2>2. initialized /\ initialized' = initialized
    BY <2>1 DEF Transfer
  <2> QED BY <2>2 DEF EmptyUninitialized
<1>4. CASE GetSeedPhrase \/ Synchronize \/ UNCHANGED vars
  <2>1. initialized' = initialized /\ balances' = balances
    BY <1>4 DEF GetSeedPhrase, Synchronize, vars, walletVars
  <2> QED BY <2>1 DEF EmptyUninitialized
<1>5. CASE Exit \/ Crash
  <2>1. PICK d : LoadWallet(d)
    BY <1>5 DEF Exit, Crash
  <2> QED BY <2>1 DEF LoadWallet, EmptyUninitialized
<1> QED BY <1>2, <1>3, <1>4, <1>5 DEF Next

\* The step of BalanceDropRecorded, as an action.
DropRecorded ==
    restarts' = restarts =>
        \A t \in Tokens :
          Bal(balances', t) < Bal(balances, t) =>
            /\ Len(history') = Len(history) + 1
            /\ history'[Len(history')].token = t
            /\ history'[Len(history')].amount =
                 Bal(balances, t) - Bal(balances', t)

LEMMA StepDropRecorded ==
    ASSUME IInv, EmptyUninitialized, [Next]_vars
    PROVE  [DropRecorded]_vars
<1>1. /\ \A u \in DOMAIN balances : balances[u] \in Int
      /\ history \in Seq(TxRecords)
      /\ restarts \in Nat
  BY BoundAssumption DEF IInv, TypeOK, TxRecords
<1>2. CASE Create \/ \E p \in Phrases : RecoverFromSeed(p)
  <2>1. ~initialized /\ balances' = WithZeroLMT(balances)
    BY <1>2 DEF Create, RecoverFromSeed, Initialise
  <2>2. balances = EmptyMap
    BY <2>1 DEF EmptyUninitialized
  <2>3. \A t \in Tokens : Bal(balances, t) = 0 /\ Bal(balances', t) = 0
    BY <2>1, <2>2 DEF Bal, WithZeroLMT, EmptyMap
  <2> QED BY <2>3 DEF DropRecorded
<1>3. CASE \/ \E to \in Recipients, a \in Amounts, tk \in Tokens : Transfer(to, a, tk)
           \/ \E a \in Amounts : Donate(a)
  <2>1. PICK to \in Recipients, a \in Amounts, tk \in Tokens : Transfer(to, a, tk)
    BY <1>3, AddressAssumption, TokenAssumption DEF Donate
  <2>2. /\ balances' = [u \in DOMAIN balances \cup {tk} |->
                          IF u = tk THEN Bal(balances, tk) - a ELSE balances[u]]
        /\ history' = Append(history, [to |-> to, amount |-> a, token |-> tk])
    <3>1. IntTransfer(to, a, tk)
      BY <2>1, TransferInt DEF IInv
    <3> QED BY <3>1 DEF IntTransfer
  <2>3. a \in Int
    BY AmountAssumption
  <2>4. \A t \in Tokens : t # tk => Bal(balances', t) = Bal(balances, t)
    BY <2>2 DEF Bal
  <2>5. Bal(balances', tk) = Bal(balances, tk) - a
    BY <2>2 DEF Bal
  <2>6. Len(history') = Len(history) + 1
        /\ history'[Len(history')] = [to |-> to, amount |-> a, token |-> tk]
    BY <1>1, <2>2
  <2>7. \A t \in Tokens : Bal(balances, t) \in Int
    BY <1>1 DEF Bal
  <2>8. ASSUME NEW t \in Tokens, Bal(balances', t) < Bal(balances, t)
        PROVE  t = tk
    BY <2>4, <2>7, <2>8
  <2>9. DropRecorded
    BY <2>3, <2>5, <2>6, <2>7, <2>8 DEF DropRecorded
  <2> QED BY <2>9
<1>4. CASE GetSeedPhrase \/ Synchronize \/ UNCHANGED vars
  <2>1. balances' = balances
    BY <1>4 DEF GetSeedPhrase, Synchronize, vars, walletVars
  <2>2. \A t \in Tokens : ~(Bal(balances', t) < Bal(balances, t))
    BY <1>1, <2>1 DEF Bal
  <2>3. DropRecorded
    BY <2>2 DEF DropRecorded
  <2> QED BY <2>3
<1>5. CASE Exit \/ Crash
  <2>1. PICK d : LoadWallet(d)
    BY <1>5 DEF Exit, Crash
  <2>2. restarts' = restarts + 1
    BY <2>1 DEF LoadWallet
  <2>3. restarts' # restarts
    BY <1>1, <2>2
  <2>4. DropRecorded
    BY <2>3 DEF DropRecorded
  <2> QED BY <2>4
<1> QED BY <1>2, <1>3, <1>4, <1>5 DEF Next

-----------------------------------------------------------------------------
(***************************************************************************)
(* The wallet's type invariant holds in every reachable state, over any   *)
(* sequence of create, recoverFromSeed, transfer, donate, synchronize,     *)
(* clean exits and crashes: the balance map keeps token keys and integer   *)
(* values, the file on disk is absent, corrupt or one saveWallet wrote,    *)
(* and the history holds Transaction records.                              *)
(***************************************************************************)
THEOREM TypeCorrect ==
    ASSUME PowerStep
    PROVE  Spec => []TypeOK
<1>1. Init => IInv
  BY InitIInv
<1>2. IInv /\ [Next]_vars => IInv'
  BY NextIInv
<1>3. IInv => TypeOK
  BY DEF IInv
<1> QED BY <1>1, <1>2, <1>3, PTL DEF Spec

(***************************************************************************)
(* No balance of the wallet ever goes below zero: transfer() and donate() *)
(* debit only after getBalance(token) >= amount, for any integer amounts   *)
(* a caller passes (negative ones included), and what a restart reloads   *)
(* is a file written from non-negative balances, rounded by saveWallet.   *)
(***************************************************************************)
THEOREM BalancesNonNegative ==
    ASSUME PowerStep
    PROVE  Spec => []BalanceNeverNegative
<1>1. Init => IInv
  BY InitIInv
<1>2. IInv /\ [Next]_vars => IInv'
  BY NextIInv
<1>3. IInv => BalanceNeverNegative
  BY DEF IInv
<1> QED BY <1>1, <1>2, <1>3, PTL DEF Spec


(***************************************************************************)
(* Within a run, the debit of a transfer and the Transaction it appends go *)
(* together: every token's balance plus what this run's history spent on  *)
(* it equals the balance the run started from (or create() reset), over   *)
(* any interleaving of transfers, donations, creates, recovers, exits and *)
(* crashes, for integer amounts of either sign.                           *)
(***************************************************************************)
THEOREM LedgerBalances ==
    ASSUME PowerStep
    PROVE  Spec => []SessionLedgerBalances
<1>1. Init => LInv
  BY InitLInv
<1>2. LInv /\ [Next]_vars => LInv'
  BY NextLInv
<1>3. LInv => SessionLedgerBalances
  BY DEF LInv
<1> QED BY <1>1, <1>2, <1>3, PTL DEF Spec


(***************************************************************************)
(* Within one run, no balance drops except by a transfer or donation that *)
(* appends one Transaction of that token for exactly the drop: create()   *)
(* and recoverFromSeed() zero LMT only on an uninitialised, empty wallet. *)
(***************************************************************************)
THEOREM DropsRecorded ==
    ASSUME PowerStep
    PROVE  Spec => BalanceDropRecorded
<1> DEFINE EInv == IInv /\ EmptyUninitialized
<1>1. Init => EInv
  BY InitIInv, InitEmpty
<1>2. EInv /\ [Next]_vars => EInv'
  BY NextIInv, NextEmpty
<1>3. EInv /\ [Next]_vars => [DropRecorded]_vars
  BY StepDropRecorded
<1> QED BY <1>1, <1>2, <1>3, PTL DEF Spec, BalanceDropRecorded, DropRecorded

=============================================================================
