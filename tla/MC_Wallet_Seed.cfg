CONSTANTS
    Tokens = {LMT, TOK}
    LMT = LMT
    Recipients = {dev, bob}
    DevAddress = dev
    WalletAddress = walletAddr
    NoAddress = NoAddress
    Amounts <- PositiveAmounts
    NaN = NaN
    FileBalances = {0, 3}
    s1 = s1
    s2 = s2
    s3 = s3
    Seeds = {s1, s2, s3}
    GeneratedSeeds = {s1, s3}
    BackupPhrase = s1
    Phrases <- MCPhrases
    NoSeed = NoSeed
    NoFile = NoFile
    BadFile = BadFile
    SigDigits = 6
    MaxHistory = 3
    MaxRestarts = 2

SPECIFICATION Spec

INVARIANT SeedBackupIsWalletSeed
