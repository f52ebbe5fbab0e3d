CONSTANTS
    Tokens = {LMT, EmptyToken, DonationToken}
    LMT = LMT
    EmptyToken = EmptyToken
    DonationToken = DonationToken
    PaymentIds = {LMT}
    NoPaymentId = NoPaymentId
    Recipients = {dev, bob}
    DevAddress = dev
    DonationAddress = dev
    DefaultDonation = 1
    WalletAddress = walletAddr
    NoAddress = NoAddress
    Amounts <- AnyAmounts
    NaN = NaN
    FileBalances = {0, 3}
    s1 = s1
    s2 = s2
    s3 = s3
    Seeds = {s1, s2, s3}
    GeneratedSeeds = {s1, s3}
    BackupPhrase = s1
    Phrases <- MCPhrases
    NoSeed = NoSeed
    NoFile = NoFile
    BadFile = BadFile
    NoReply = NoReply
    SigDigits = 6
    MaxHistory = 3
    MaxRestarts = 1
    Blank = Blank
    ExitLine = ExitLine
    OtherLine = OtherLine
    Inputs <- UnterminatedInputs
SPECIFICATION MainSpec
CHECK_DEADLOCK FALSE
INVARIANT EachLineRunOnce
