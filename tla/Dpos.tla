-------------------------------- MODULE Dpos --------------------------------
(***************************************************************************)
(* Producers that build one chain together: for each of them a node with   *)
(* the producer plugin (plugins/producer_plugin), on top of the header     *)
(* states of BlockHeaderState.  Blocks travel between the nodes with any   *)
(* delay, so that a node knows, when its slot comes, its own blocks and    *)
(* any of the others'; nodes may stop and start again, which loses the     *)
(* watermark, kept in memory only, but not the blocks.                     *)
(***************************************************************************)
EXTENDS BlockHeaderState

CONSTANTS
    Initial,        \* genesis.initial_producer_list
    MaxConfirm,     \* the largest uint16_t
    MaxSlot,        \* bound on time
    Forks,          \* bound on the blocks built beside another one
    Restarts        \* bound on restarts

ASSUME DposAssumption ==
    /\ Initial \in Seq(Producers) /\ Initial # <<>>
    /\ MaxConfirm \in Nat
    /\ MaxSlot \in Nat
    /\ Forks \in Nat
    /\ Restarts \in Nat

VARIABLES
    blocks,         \* every block produced so far, the genesis block first
    time,           \* the current slot
    watermark,      \* _producer_watermarks, 0 for none
    own,            \* the block each producer produced last
    restarts        \* the restarts left

vars == <<blocks, time, watermark, own, restarts>>

\* A block: the position of the one before, its ancestors' (itself included),
\* its producer, `confirmed` and its header state.
IsBlock(b) ==
    /\ b.prev \in Nat /\ b.confirmed \in 0 .. MaxConfirm
    /\ b.anc \subseteq 1 .. Len(blocks)
    /\ b.producer \in Producers
    /\ IsHeaderState(b.st)

TypeOK ==
    /\ \A i \in 1 .. Len(blocks) : IsBlock(blocks[i])
    /\ time \in 0 .. MaxSlot
    /\ watermark \in [Producers -> Nat]
    /\ own \in [Producers -> 1 .. Len(blocks)]
    /\ restarts \in 0 .. Restarts

Init ==
    /\ blocks = << [prev |-> 0, anc |-> {1}, producer |-> Initial[1], confirmed |-> 0,
                    st |-> GenesisState(Initial)] >>
    /\ time = 0
    /\ watermark = [p \in Producers |-> 0]
    /\ own = [p \in Producers |-> 1]
    /\ restarts = Restarts
-----------------------------------------------------------------------------
Num(i) == blocks[i].st.num
Lib(i) == blocks[i].st.lib

\* bool first_preferred( lhs, rhs ) of the fork database.
FirstPreferred(i, j) == Lib(i) > Lib(j) \/ (Lib(i) = Lib(j) /\ Num(i) > Num(j))

\* The ancestor of block i at height n.
At(i, n) == {j \in blocks[i].anc : Num(j) = n}

\* May i be the head of the node of p?  Its own last block is known there, and
\* the last irreversible block of that is the root of its fork database.
MayBeHead(p, i) ==
    \/ i = own[p]
    \/ FirstPreferred(i, own[p]) /\ At(own[p], Lib(own[p])) \subseteq blocks[i].anc

Lower(a, b) == IF a < b THEN a ELSE b

MutConfirmSinceLib(p, s) == s.num - s.lib

MutConfirmByBranch(p, s) ==
    Lower(s.num - (IF p \in DOMAIN s.last_produced THEN s.last_produced[p] ELSE 0),
          s.num - s.lib)

\* How many blocks before its own p confirms in a block built on header s.
blocks_to_confirm(p, s) ==
    LET unseen == IF watermark[p] > 0 /\ watermark[p] < s.num
                  THEN Lower(MaxConfirm, s.num - watermark[p]) ELSE 0
    IN  Lower(unseen, s.num - s.lib)

\* The blocks built beside an earlier one.
Beside == {j \in 2 .. Len(blocks) : \E k \in 2 .. j - 1 : blocks[k].prev = blocks[j].prev}

\* start_block of the producer plugin, with head i: is it the turn of p, and
\* does the watermark not exclude it?
producing(p, i) ==
    /\ blocks[i].st.slot < time
    /\ get_scheduled_producer(blocks[i].st, time) = p
    /\ MayBeHead(p, i)
    /\ watermark[p] < Num(i) + 1

\* start_block and produce_block of the node of p, whose head is block i.
produce_block(p, i) ==
    LET b == blocks[i]
        s == b.st
        c == blocks_to_confirm(p, s)
    IN
    /\ (\E j \in 2 .. Len(blocks) : blocks[j].prev = i) => Cardinality(Beside) < Forks
    /\ producing(p, i)
    /\ CanNext(s, time, c)
    /\ blocks' = Append(blocks,
                   [prev |-> i, anc |-> b.anc \cup {Len(blocks) + 1}, producer |-> p,
                    confirmed |-> c, st |-> next(s, time, c, {})])
    /\ watermark' = [watermark EXCEPT ![p] = s.num + 1]
    /\ own' = [own EXCEPT ![p] = Len(blocks) + 1]
    /\ UNCHANGED <<time, restarts>>

\* A slot passes.
Tick ==
    /\ time < MaxSlot
    /\ time' = time + 1
    /\ UNCHANGED <<blocks, watermark, own, restarts>>

\* The node of p is stopped and started: watermarks are not durable.
Restart(p) ==
    /\ restarts > 0
    /\ watermark[p] # 0
    /\ restarts' = restarts - 1
    /\ watermark' = [watermark EXCEPT ![p] = 0]
    /\ UNCHANGED <<blocks, time, own>>

Next ==
    \/ Tick
    \/ \E p \in Producers :
          \/ Restart(p)
          \/ \E i \in 1 .. Len(blocks) : produce_block(p, i)

Spec == Init /\ [][Next]_vars
-----------------------------------------------------------------------------
(***************************************************************************)
(* Properties.                                                             *)
(***************************************************************************)

\* The heights that block i confirms: its own and the `confirmed` before it.
Heights(i) == Num(i) - blocks[i].confirmed .. Num(i)

\* No producer ever confirms two blocks of one height.  The comment in
\* start_block promises it also "after a crash".
NoDoubleConfirm ==
    \A i, j \in 2 .. Len(blocks) :
       i # j /\ blocks[i].producer = blocks[j].producer => Heights(i) \cap Heights(j) = {}

\* No node has been restarted yet.
Unbroken == restarts = Restarts

\* Until the first restart no producer confirms two blocks of one height,
\* whatever forks it works on: its watermark keeps it from signing a block at
\* or below the last one it signed, and blocks_to_confirm from confirming
\* again what it confirmed on another fork.
ConfirmsOnce == Unbroken => NoDoubleConfirm

\* Until the first restart at most one of the blocks of a height is proposed as
\* irreversible (dpos_proposed_irreversible_blocknum), on all forks together:
\* that takes the confirmations of more than two thirds of the producers, and
\* two such sets share a producer.
OneProposed ==
    Unbroken =>
       \A i, j \in 1 .. Len(blocks) :
          blocks[i].st.proposed = blocks[j].st.proposed =>
             At(i, blocks[i].st.proposed) = At(j, blocks[j].st.proposed)

\* Until the first restart, whenever the producer plugin starts a block to
\* produce it, next() accepts what it confirms: on whichever fork it is, the
\* watermark is not below any block of the producer that the header state knows
\* of, so it never runs into "double-confirming known range".
NeverRefused ==
    Unbroken =>
       \A p \in Producers, i \in 1 .. Len(blocks) :
          producing(p, i) => CanNext(blocks[i].st, time, blocks_to_confirm(p, blocks[i].st))
=============================================================================
