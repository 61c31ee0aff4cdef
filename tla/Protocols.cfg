SPECIFICATION Spec
CONSTANTS
    K = 4
    ByteBits = 2
    FxpBits = 1
    OTBits = 2
    CompareRadix = 1
    P = 7
    GlobalKey = 11
    Prg <- MCPrg
    Seeds <- MCSeeds
    Starts <- MCStarts
    TableStarts <- MCTables
    Shuffled <- MCShuffled
    RunTable <- TableCallOf
    Ranks <- RanksOf
    SharedNumber <- NumberOf
    FirstStreams <- StreamsOf
    ToShares <- SharesOf
    ToBitShares <- BitSharesOf
    RunCall <- CallOf
    RunFork <- ForkOf
    CanEqual <- ComparesOf
    Takes <- TakesOf
    SameCopies <- ConsistentOf
    SameDraws <- AlignedOf
CHECK_DEADLOCK FALSE
INVARIANTS
    Reconstructs
    CopiesAgree
    StreamsAligned
    WidthCovers
