SPECIFICATION Spec
CONSTANTS
    Tester = Tester
    Ecu = Ecu
    Lengths = {1}
    TesterBlock = 0
    EcuBlock = 0
    TesterSends = 2
    EcuSends = 0
    BlockSize <- MCBlockSize
    MaxSends <- MCMaxSends
    SequenceMod = 16
    BsMod = 256
    WaitLimit = 0
    MaxLoss = 0
    MaxForeign = 0
INVARIANTS DeliveredIntact
