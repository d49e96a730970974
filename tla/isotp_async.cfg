SPECIFICATION FairSpec
CONSTANTS
    Tester = Tester
    Ecu = Ecu
    Lengths = {0, 2}
    TesterBlock = 0
    EcuBlock = 1
    TesterSends = 2
    EcuSends = 1
    BlockSize <- MCBlockSize
    MaxSends <- MCMaxSends
    SequenceMod = 2
    BsMod = 256
    WaitLimit = 1
    MaxLoss = 1
    MaxForeign = 1
INVARIANTS DeliveredInSequence
PROPERTIES CallReturns
