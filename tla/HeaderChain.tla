---------------------------- MODULE HeaderChain ----------------------------
(***************************************************************************)
(* One chain of headers, as every node that follows it computes it: blocks *)
(* with any time and any confirmed count that pass next()'s assertions,    *)
(* and producer schedules on their way from proposed (in the state of the  *)
(* system contract) to pending and to active (in the header state).        *)
(***************************************************************************)
EXTENDS BlockHeaderState

CONSTANTS
    Initial,        \* genesis.initial_producer_list
    Schedules,      \* schedules the system contract may propose
    MaxNum,         \* bound on the block number
    MaxMissed,      \* bound on the slots missed between two blocks
    Counts,         \* values of `confirmed` besides the producer plugin's
    Window,         \* how many blocks in a row `streak` counts
    Lag             \* how far the LIB may be behind after them

VARIABLES
    head,           \* the header state of the last block
    proposed,       \* gpo.proposed_schedule and its block number, if any
    parent,         \* history: the LIB of the block before and the size of its schedule
    streak          \* history: the last blocks that missed no slot and
                    \* confirmed everything their producer had not

vars == <<head, proposed, parent, streak>>

Proposal == [producers : Seq(Producers), version : Nat, num : Nat]

TypeOK ==
    /\ IsHeaderState(head)
    /\ proposed \subseteq Proposal /\ Cardinality(proposed) <= 1
    /\ parent \in [lib : Nat, size : Nat]
    /\ streak \in 0 .. Window

Init ==
    /\ head = GenesisState(Initial)
    /\ proposed = {}
    /\ parent = [lib |-> 0, size |-> Len(Initial)]
    /\ streak = 0
-----------------------------------------------------------------------------
\* The part of start_block about schedules: a proposal that has become
\* irreversible goes into the header when no schedule is pending.
NewPending(lib) == {g \in proposed : g.num <= lib /\ head.pending.producers = <<>>}

\* What start_block asserts about it, and finish_next about new_producers.
CanPend(p) ==
    LET lib == calc_dpos_last_irreversible(head, p)
    IN  \A g \in NewPending(lib) : g.version = head.version + 1 /\ ~Promotes(head, p)

MutLatestActive(t) == [producers |-> t.active, version |-> t.version]

\* What a schedule proposed in the block t on top of head is compared with:
\* pending_producers() still finds one that this block promotes.
Latest(t) ==
    IF t.pending.producers # <<>> THEN t.pending
    ELSE IF head.pending.producers # <<>> THEN head.pending
    ELSE [producers |-> t.active, version |-> t.version]

\* int64_t set_proposed_producers( producers ), in the block t.
set_proposed_producers(old, producers, t) ==
    IF old # {} \/ producers = Latest(t).producers THEN old
    ELSE {[producers |-> producers, version |-> Latest(t).version + 1, num |-> t.num]}

\* What the producer plugin confirms when it knows the producer's last block.
AllUnseen(p) ==
    IF p \in DOMAIN head.last_produced /\ head.last_produced[p] > 0
    THEN LET n == head.num - head.last_produced[p]
         IN  IF n < head.num - head.lib THEN n ELSE head.num - head.lib
    ELSE 0

\* A block for slot `when` is produced or received: start_block with a
\* proposal of the system contract or without, finalize_block, commit_block.
add_block(when, confirm) ==
    LET p   == get_scheduled_producer(head, when)
        new == NewPending(calc_dpos_last_irreversible(head, p))
        t   == next(head, when, confirm, new)
    IN
    /\ head.num < MaxNum
    /\ CanNext(head, when, confirm)
    /\ CanPend(p)
    /\ head' = t
    /\ \/ proposed' = proposed \ new
       \/ \E q \in Schedules : proposed' = set_proposed_producers(proposed \ new, q, t)
    /\ parent' = [lib |-> head.lib, size |-> Len(head.active)]
    /\ streak' = IF when = head.slot + 1 /\ confirm = AllUnseen(p)
                 THEN IF streak < Window THEN streak + 1 ELSE Window
                 ELSE 0

Next ==
    \E missed \in 0 .. MaxMissed :
       LET when == head.slot + 1 + missed
       IN  \E confirm \in Counts \cup {AllUnseen(get_scheduled_producer(head, when))} :
              add_block(when, confirm)

Spec == Init /\ [][Next]_vars
-----------------------------------------------------------------------------
\* No chain gets stuck on a schedule: whenever a proposal is due, its version
\* is the one start_block and finish_next assert, whatever was proposed,
\* pending or promoted in the meantime.
NeverWedged == \A i \in 1 .. Len(head.active) : CanPend(head.active[i])

\* A block is preferred to the one it builds on, as commit_block asserts
\* ("committed block did not become the new head in fork database"): its
\* number is higher, so that its LIB must not be lower, whoever missed slots
\* and whatever schedule became active.
CommittedBecomesHead == head.lib >= parent.lib

\* What holds of it: the next block's LIB is not lower, whoever produces it,
\* unless the block has just made a schedule active that is so much smaller
\* that calc_dpos_last_irreversible takes a lower place among its producers.
\* Newcomers and producers that stay never pull it back.
LibHolds ==
    (Len(head.active) - 1) \div 3 >= (parent.size - 1) \div 3 =>
        \A i \in 1 .. Len(head.active) : calc_dpos_last_irreversible(head, head.active[i]) >= head.lib

\* When for some rounds no slot is missed and every producer confirms what it
\* has not confirmed yet, a block is irreversible after less than two rounds:
\* the two stages of next(), the proposal and its confirmation by the next
\* round, never leave a block behind.
KeepsUp == streak = Window => head.num - head.lib <= Lag
=============================================================================
