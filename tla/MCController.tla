---------------------------- MODULE MCController ----------------------------
(***************************************************************************)
(* The controller on a tree of blocks; ranks prefer the second branch to   *)
(* the first at equal heights.  There are three nodes: one that stays in   *)
(* speculative mode, with bad blocks, transactions and crashes; one that   *)
(* is stopped and started again in any read mode; and one whose appends to *)
(* the block log may throw, with a bad block that would become final.  The *)
(* constants of the configuration cover all three.                         *)
(*                                                                         *)
(*   g1 -- a2 -- a3 -- a4 -- a5 -- a6                                      *)
(*          \--- b3 -- b4 -- b5                                            *)
(*                \--- c4 -- c5                                            *)
(***************************************************************************)
EXTENDS Controller

MCBlocks == {"g1", "a2", "a3", "a4", "a5", "a6", "b3", "b4", "b5", "c4", "c5"}
MCPrev == [g1 |-> "g1", a2 |-> "g1", a3 |-> "a2", a4 |-> "a3", a5 |-> "a4", a6 |-> "a5", b3 |-> "a2", b4 |-> "b3", b5 |-> "b4", c4 |-> "b3", c5 |-> "c4"]
MCNum == [g1 |-> 1, a2 |-> 2, a3 |-> 3, a4 |-> 4, a5 |-> 5, a6 |-> 6, b3 |-> 3, b4 |-> 4, b5 |-> 5, c4 |-> 4, c5 |-> 5]
MCLib == [g1 |-> 0, a2 |-> 1, a3 |-> 1, a4 |-> 2, a5 |-> 2, a6 |-> 4, b3 |-> 1, b4 |-> 2, b5 |-> 3, c4 |-> 2, c5 |-> 2]
\* c5 makes c4 final.
MCLibOfBad == [MCLib EXCEPT !.c5 = 4]
MCRank == [g1 |-> 0, a2 |-> 1, a3 |-> 5, a4 |-> 5, a5 |-> 5, a6 |-> 5, b3 |-> 3, b4 |-> 3, b5 |-> 3, c4 |-> 4, c5 |-> 4]
MCAnc == [g1 |-> {"g1"},
          a2 |-> {"a2", "g1"},
          a3 |-> {"a3", "a2", "g1"},
          a4 |-> {"a4", "a3", "a2", "g1"},
          a5 |-> {"a5", "a4", "a3", "a2", "g1"},
          a6 |-> {"a6", "a5", "a4", "a3", "a2", "g1"},
          b3 |-> {"b3", "a2", "g1"},
          b4 |-> {"b4", "b3", "a2", "g1"},
          b5 |-> {"b5", "b4", "b3", "a2", "g1"},
          c4 |-> {"c4", "b3", "a2", "g1"},
          c5 |-> {"c5", "c4", "b3", "a2", "g1"}]
MCTrxOf == [g1 |-> {}, a2 |-> {}, a3 |-> {"t"}, a4 |-> {}, a5 |-> {"u"}, a6 |-> {},
            b3 |-> {}, b4 |-> {"u"}, b5 |-> {}, c4 |-> {}, c5 |-> {"u"}]
MCNoTrx == [g1 |-> {}, a2 |-> {}, a3 |-> {}, a4 |-> {}, a5 |-> {}, a6 |-> {}, b3 |-> {}, b4 |-> {}, b5 |-> {}, c4 |-> {}, c5 |-> {}]
VARIABLE which

Forking == INSTANCE Controller WITH
    Lib <- MCLib, Modes <- {"SPECULATIVE"}, Reopens <- 0, AppendFails <- FALSE

Moded == INSTANCE Controller WITH
    Lib <- MCLib, Bad <- {}, Trx <- {}, TrxOf <- MCNoTrx, Own <- {"a3", "b3"}, Crashes <- 1,
    AppendFails <- FALSE

Logging == INSTANCE Controller WITH
    Lib <- MCLibOfBad, Trx <- {}, TrxOf <- MCNoTrx, Own <- {"a3", "b3", "b4"},
    Modes <- {"SPECULATIVE", "IRREVERSIBLE"}, Crashes <- 1, Reopens <- 1, AppendFails <- TRUE

MCInit == \/ which = "forks" /\ Forking!Init
          \/ which = "modes" /\ Moded!Init
          \/ which = "final" /\ Logging!Init

MCNext == \/ which = "forks" /\ Forking!Next /\ UNCHANGED which
          \/ which = "modes" /\ Moded!Next /\ UNCHANGED which
          \/ which = "final" /\ Logging!Next /\ UNCHANGED which

\* A method that has begun runs to its end, as in Controller!FairSpec.
MCStep == \/ which = "forks" /\ Forking!Step /\ UNCHANGED which
          \/ which = "modes" /\ Moded!Step /\ UNCHANGED which
          \/ which = "final" /\ Logging!Step /\ UNCHANGED which

MCSpec == MCInit /\ [][MCNext]_<<vars, which>> /\ WF_<<vars, which>>(MCStep)

(* One node with the constants of the configuration. *)
OneSpec == which = "one" /\ Init /\ [][Next /\ UNCHANGED which]_<<vars, which>>
-----------------------------------------------------------------------------
(* While no append throws, no assertion of the controller fails, the state   *)
(* database is the one of the head (Controller!StateOfHead), and the head in *)
(* irreversible mode is the last block of the log                            *)
(* (Controller!IrreversibleHead).                                            *)
ChainRecordsAgree == which # "final" => InSync /\ StateOfHead /\ IrreversibleHead
=============================================================================
