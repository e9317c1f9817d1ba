SPECIFICATION MCSpec
CONSTANTS
    Blocks <- MCBlocks
    Genesis = "g1"
    Prev <- MCPrev
    Num <- MCNum
    Lib <- MCLib
    Rank <- MCRank
    Anc <- MCAnc
    Bad = {"a5", "c4"}
    Trx = {"t", "u"}
    TrxOf <- MCTrxOf
    Own = {"a3", "a4", "b3"}
    Modes = {"SPECULATIVE", "HEAD", "IRREVERSIBLE"}
    Crashes = 2
    Reopens = 2
    AppendFails = FALSE
INVARIANTS TypeOK ChainRecordsAgree ReversibleIsBranch BestHead RecoversHead UnappliedIsNew NothingBadIsFinal
PROPERTIES FinalLogSpec Settles
CHECK_DEADLOCK FALSE
