CONSTANTS
    Seeds = {sa, sb}
    MaxTx = 2
    NoSig = NoSig
SPECIFICATION Spec
INVARIANT TypeOK
