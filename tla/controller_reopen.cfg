SPECIFICATION OneSpec
CONSTANTS
    Blocks <- MCBlocks
    Genesis = "g1"
    Prev <- MCPrev
    Num <- MCNum
    Lib <- MCLib
    Rank <- MCRank
    Anc <- MCAnc
    Bad = {"a5", "c5"}
    Trx = {}
    TrxOf <- MCNoTrx
    Own = {"a3", "a4", "b3", "b4"}
    Modes = {"SPECULATIVE"}
    Crashes = 0
    Reopens = 1
    AppendFails = FALSE
INVARIANT ReopenMatches
CHECK_DEADLOCK FALSE
