-------------------------- MODULE BlockHeaderState --------------------------
(***************************************************************************)
(* block_header_state (libraries/chain/block_header_state.cpp): what the   *)
(* header of a block says about the chain that ends with it, and how it    *)
(* follows from the header state of the block before.  From it come the    *)
(* producer of every slot, the blocks a producer confirms, the block       *)
(* proposed as irreversible, the last irreversible block (LIB), and the    *)
(* change from one producer schedule to the next.                          *)
(*                                                                         *)
(* A header state is a record:                                             *)
(*    num, slot       block_num and the time slot of the header            *)
(*    active          the producers of active_schedule; its version is     *)
(*    version         `version`                                            *)
(*    pending         pending_schedule: producers, version and lib_num     *)
(*    confirm_count   the confirmations that the last blocks still need    *)
(*    proposed, lib   dpos_(proposed_)irreversible_blocknum                *)
(*    last_produced   producer_to_last_produced                            *)
(*    implied_irb     producer_to_last_implied_irb                         *)
(***************************************************************************)
EXTENDS Integers, Sequences, FiniteSets

CONSTANTS
    Producers,      \* the producer accounts
    Repetitions,    \* config::producer_repetitions
    MaxTracked      \* config::maximum_tracked_dpos_confirmations

ASSUME HeaderAssumption ==
    /\ IsFiniteSet(Producers)
    /\ Repetitions \in Nat \ {0}
    /\ MaxTracked \in Nat \ {0}

\* A flat_map from producers to block numbers.
IsMap(m) == DOMAIN m \subseteq Producers /\ \A q \in DOMAIN m : m[q] \in Nat

IsHeaderState(s) ==
    /\ {s.num, s.slot, s.version, s.proposed, s.lib} \subseteq Nat
    /\ s.active \in Seq(Producers) /\ s.active # <<>>
    /\ s.pending \in [producers : Seq(Producers), version : Nat, lib_num : Nat]
    /\ s.confirm_count \in Seq(Nat \ {0})
    /\ IsMap(s.last_produced)
    /\ IsMap(s.implied_irb)

\* The header state of initialize_blockchain_state: the initial schedule is
\* active, and pending as well.
GenesisState(initial) ==
    [num |-> 1, slot |-> 0, active |-> initial, version |-> 0,
     pending |-> [producers |-> initial, version |-> 0, lib_num |-> 0],
     confirm_count |-> <<>>, proposed |-> 0, lib |-> 0,
     last_produced |-> <<>>, implied_irb |-> <<>>]

\* producer_key get_scheduled_producer( t ).
get_scheduled_producer(s, t) ==
    s.active[((t % (Len(s.active) * Repetitions)) \div Repetitions) + 1]

\* m[ p ] = v.
Put(m, p, v) == [q \in DOMAIN m \cup {p} |-> IF q = p THEN v ELSE m[q]]

\* blocknums of calc_dpos_last_irreversible.
Implied(s, p) ==
    [q \in DOMAIN s.implied_irb |-> IF q = p THEN s.proposed ELSE s.implied_irb[q]]

\* std::nth_element, counting from 0.
NthElement(m, n) ==
    CHOOSE v \in {m[q] : q \in DOMAIN m} :
       /\ Cardinality({q \in DOMAIN m : m[q] < v}) <= n
       /\ Cardinality({q \in DOMAIN m : m[q] <= v}) > n

\* uint32_t calc_dpos_last_irreversible( producer_of_next_block ).
calc_dpos_last_irreversible(s, p) ==
    IF DOMAIN s.implied_irb = {} THEN 0
    ELSE NthElement(Implied(s, p), (Cardinality(DOMAIN s.implied_irb) - 1) \div 3)

MutOneThird(s) == Len(s.active) \div 3 + 1

MutOneMore(s) == (Len(s.active) * 2) \div 3 + 2

required_confs(s) == (Len(s.active) * 2) \div 3 + 1

\* The confirmations of the last MaxTracked blocks, the new one included.
Grow(s) ==
    LET cc == s.confirm_count
    IN  Append(IF Len(cc) < MaxTracked THEN cc ELSE Tail(cc), required_confs(s))

\* The loop over the last k entries, newest first: it ends at the first that
\* needs no more, which leaves with all older ones.  0 if there is none.
Reached(cc, k) ==
    LET zero == {i \in 1 .. Len(cc) : i > Len(cc) - k /\ cc[i] = 1}
    IN  IF zero = {} THEN 0 ELSE CHOOSE i \in zero : \A j \in zero : j <= i

MutKeepReached(cc, k) ==
    [j \in 1 .. Len(cc) |-> IF j > Len(cc) - k THEN cc[j] - 1 ELSE cc[j]]

Confirmed(cc, k) ==
    LET r == Reached(cc, k)
    IN  [j \in 1 .. Len(cc) - r |-> IF r + j > Len(cc) - k THEN cc[r + j] - 1 ELSE cc[r + j]]

\* What next( when, num_prev_blocks_to_confirm ) asserts.  The subtraction is
\* unsigned: a count beyond the block number wraps around and passes.
CanNext(s, when, confirm) ==
    LET p == get_scheduled_producer(s, when)
        first == s.num + 1 - confirm
    IN  /\ when > s.slot
        /\ p \in DOMAIN s.last_produced => s.last_produced[p] < first \/ first < 0

\* Is the pending schedule promoted to active by the next block of p?
Promotes(s, p) ==
    /\ s.pending.producers # <<>>
    /\ calc_dpos_last_irreversible(s, p) >= s.pending.lib_num

MutPromotedToZero(m, s, lib) ==
    [q \in {s.pending.producers[i] : i \in 1 .. Len(s.pending.producers)} |->
        IF q \in DOMAIN m THEN m[q] ELSE 0]

\* new_producer_to_last_produced and new_producer_to_last_implied_irb: the map
\* of the new schedule, with the old value of a producer that stays.
Promoted(m, s, lib) ==
    [q \in {s.pending.producers[i] : i \in 1 .. Len(s.pending.producers)} |->
        IF q \in DOMAIN m THEN m[q] ELSE lib]

\* pending_schedule after finish_next( h ); `new` are the new_producers of the
\* header, at most one, and `up` is was_pending_promoted.
finish_next(s, up, new) ==
    IF new # {}
    THEN LET n == CHOOSE n \in new : TRUE
         IN  [producers |-> n.producers, version |-> n.version, lib_num |-> s.num + 1]
    ELSE [s.pending EXCEPT !.producers = IF up THEN <<>> ELSE @]

\* next( when, num_prev_blocks_to_confirm ), and next( h ).
next(s, when, confirm, new) ==
    LET p   == get_scheduled_producer(s, when)
        cc  == Grow(s)
        r   == Reached(cc, confirm + 1)
        lib == calc_dpos_last_irreversible(s, p)
        up  == Promotes(s, p)
        irb == IF up THEN Promoted(s.implied_irb, s, lib) ELSE s.implied_irb
    IN
    [num |-> s.num + 1,
     slot |-> when,
     active |-> IF up THEN s.pending.producers ELSE s.active,
     version |-> IF up THEN s.pending.version ELSE s.version,
     pending |-> finish_next(s, up, new),
     confirm_count |-> Confirmed(cc, confirm + 1),
     proposed |-> IF r = 0 THEN s.proposed ELSE s.num + 1 - (Len(cc) - r),
     lib |-> lib,
     last_produced |->
        Put(IF up THEN Promoted(s.last_produced, s, lib) ELSE s.last_produced, p, s.num + 1),
     implied_irb |->
        IF ~up \/ p \in DOMAIN irb THEN Put(irb, p, s.proposed) ELSE irb]
=============================================================================
