--------------------------- MODULE ForceProducers ---------------------------
(***************************************************************************)
(* force.system, block production: onblock counts the blocks each producer *)
(* of the schedule made.  A producer that begins its Cycle+1st block since  *)
(* the last reward ends the cycle: producers are credited for the blocks   *)
(* they made and lose mortgage for the ones they did not (reward_block),   *)
(* and the top of the producers by stake is proposed as the next schedule  *)
(* (update_elected_bps).  The first block of a new schedule ends the cycle *)
(* of the old one.                                                         *)
(*                                                                         *)
(* Producers are numbered in the order of their names.  The reward of a    *)
(* block is fixed, where the code changes it daily.  Voting is in module   *)
(* ForceVoting, punishment in ForcePunish.                                 *)
(***************************************************************************)
EXTENDS Integers, FiniteSets, FiniteSetsExt, Sequences, SequencesExt

CONSTANTS
    NumBp, Top,     \* registered producers, NUM_OF_TOP_BPS of which are elected
    Genesis,        \* genesis producers, whose stake and mortgage are constants:
    GenesisStake, GenesisMortgage,
    Cycle,          \* CYCLE_PREBP_BLOCK
    Weight,         \* BLOCK_OUT_WEIGHT
    Unit,           \* reward_pre_block
    Mortgage,       \* the mortgage that a producer must exceed
    LackFreeze,     \* LACKMORTGAGE_FREEZE
    Word,           \* 2^32: block numbers are taken modulo it
    Stakes,         \* stakes that votes may give a producer
    Deposits,       \* amounts of mortgage added and claimed
    MinClaim,       \* what a claim must exceed
    MaxBlocks, MaxOps

VARIABLES
    bps,            \* bps_table
    sch,            \* the last row of schedules_table: [version, amount]
    chain,          \* the chain's schedules: [version, active, pending, proposed]
    reward,         \* reward_table: [out, age, last]
    now,            \* current_block_num
    oper            \* actions other than onblock done

producers_vars == <<bps, sch, chain, reward, now, oper>>

Bp == 1..NumBp
SumOver(f(_), S) == FoldSet(LAMBDA x, sum : sum + f(x), 0, S)

ProducersTypeOK ==
    /\ DOMAIN bps = Bp
    /\ \A b \in Bp : /\ bps[b].staked \in Nat /\ bps[b].mortgage \in Int
                     /\ bps[b].status \in {"normal", "lack", "removed"}
    /\ DOMAIN sch.amount \subseteq Bp /\ sch.version \in chain.version - 1..chain.version
    /\ chain.active \subseteq Bp /\ chain.pending \subseteq Bp /\ chain.proposed \subseteq Bp
    /\ reward.last <= now
    /\ now \in 1..MaxBlocks /\ oper \in 0..MaxOps

ProducersInit ==
    /\ \E first \in kSubset(Top, Bp) :
          /\ chain = [version |-> 1, active |-> first, pending |-> {}, proposed |-> {}]
          /\ sch = [version |-> 1, amount |-> [b \in first |-> 0]]
    /\ \E s \in [Bp -> Stakes] :
          bps = [b \in Bp |->
                   [staked |-> IF b \in Genesis THEN 0 ELSE s[b],
                    mortgage |-> IF b \in Genesis THEN 0 ELSE Mortgage + 1,
                    remain |-> 0, age |-> 0, last |-> 0, weight |-> Weight,
                    status |-> "normal", changed |-> 0]]
    /\ reward = [out |-> 0, age |-> 0, last |-> 1]
    /\ now = 1 /\ oper = 0
-----------------------------------------------------------------------------
(* A genesis producer has no mortgage or stake of its own. *)
IsGenesis(B, b) == b \in Genesis /\ B[b].mortgage <= 0
MortgageOf(B, b) == IF IsGenesis(B, b) THEN GenesisMortgage ELSE B[b].mortgage

Missed(b) == Cycle + bps[b].last - sch.amount[b]

Made(b) ==
    IF sch.amount[b] >= bps[b].last THEN sch.amount[b] - bps[b].last ELSE sch.amount[b]

(* What producer b of the schedule is credited with. *)
BlockAge(b) == IF MortgageOf(bps, b) > Mortgage THEN Made(b) * bps[b].weight ELSE 0

(* Mutation: the count is not remembered. *)
MutForgets(b, drain) ==
    [bps[b] EXCEPT !.age = @ + BlockAge(b),
                   !.weight = IF drain > 0 THEN Weight ELSE @ + 1,
                   !.mortgage = @ - 2 * Unit * drain,
                   !.remain = @ + 2 * Unit * drain]

CycleEnd(b, drain) ==
    [bps[b] EXCEPT !.age = @ + BlockAge(b),
                   !.weight = IF drain > 0 THEN Weight ELSE @ + 1,
                   !.mortgage = @ - 2 * Unit * drain,
                   !.remain = @ + 2 * Unit * drain,
                   !.last = sch.amount[b]]

(* reward_block, over the producers of the recorded schedule; with a forced *)
(* change of schedule no block counts as missed.                            *)
reward_block(force) ==
    [b \in Bp |-> IF b \notin DOMAIN sch.amount THEN bps[b]
                  ELSE CycleEnd(b, IF force THEN 0 ELSE Missed(b))]
-----------------------------------------------------------------------------
(* update_elected_bps *)

(* The flag for a mortgage that does not suffice: off after LackFreeze, on   *)
(* for a producer of the schedule.                                          *)
Flagged(B, n) ==
    [b \in Bp |->
        LET off == B[b].status = "lack" /\ B[b].changed < (n - LackFreeze) % Word
            status == IF off THEN "normal" ELSE B[b].status
        IN  IF MortgageOf(B, b) < Mortgage /\ b \in DOMAIN sch.amount /\ status = "normal"
            THEN [B[b] EXCEPT !.status = "lack", !.changed = n]
            ELSE [B[b] EXCEPT !.status = status]]

StakeOf(B, b) == IF IsGenesis(B, b) THEN GenesisStake ELSE B[b].staked
Eligible(B, b) == B[b].status # "removed" /\ MortgageOf(B, b) > Mortgage

(* Mutation: an equal stake of a later name does not go before. *)
MutStrictly(place, stake) == place < stake

(* A place without a producer counts as one with a stake of 0. *)
GoesBefore(place, stake) == place <= stake

(* One producer put in its place among those seen, if it is one of the first *)
(* Top places.                                                               *)
Placed(B, s, b) ==
    LET places == {i \in 1..Top : GoesBefore(s.sorts[i], StakeOf(B, b))}
    IN  IF ~Eligible(B, b) \/ places = {} THEN s
        ELSE [names |-> InsertAt(s.names, Min(places), b),
              sorts |-> InsertAt(s.sorts, Min(places), StakeOf(B, b))]

Elected(B) ==
    LET all == FoldLeft(LAMBDA s, b : Placed(B, s, b),
                        [names |-> << >>, sorts |-> [i \in 1..Top |-> 0]],
                        [b \in Bp |-> b])
    IN  {all.names[i] : i \in 1..Min({Top, Len(all.names)})}

(* A schedule that an earlier block proposed waits until it can be pending,  *)
(* and one that changes nothing is not proposed.                             *)
set_proposed_producers(S) ==
    LET now_set == IF chain.pending = {} THEN chain.active ELSE chain.pending
    IN  [chain EXCEPT !.proposed = IF @ # {} \/ S = now_set THEN @ ELSE S]
-----------------------------------------------------------------------------
(* onblock, for a block of producer b under the chain's schedule.  A new     *)
(* schedule that is not full has names that are not registered: it throws.   *)

CycleDone(b) == sch.amount[b] - bps[b].last >= Cycle

reset_block_weight(B) ==
    [b \in Bp |-> IF b \in chain.active THEN [B[b] EXCEPT !.weight = Weight, !.last = 0] ELSE B[b]]

Rewarded ==
    [out |-> reward.out + Unit * (now + 1 - reward.last),
     age |-> reward.age + SumOver(BlockAge, DOMAIN sch.amount),
     last |-> now + 1]

onblock_new(b) ==
    /\ chain.version # sch.version /\ Cardinality(chain.active) = Top
    /\ bps' = reset_block_weight(reward_block(TRUE))
    /\ reward' = Rewarded
    /\ sch' = [version |-> chain.version,
               amount |-> [p \in chain.active |-> IF p = b THEN 1 ELSE 0]]
    /\ UNCHANGED chain

onblock_cycle(b) ==
    /\ chain.version = sch.version /\ CycleDone(b)
    /\ bps' = Flagged(reward_block(FALSE), now + 1)
    /\ reward' = Rewarded
    /\ chain' = set_proposed_producers(Elected(bps'))
    /\ sch' = [sch EXCEPT !.amount[b] = @ + 1]

onblock_count(b) ==
    /\ chain.version = sch.version /\ ~CycleDone(b)
    /\ sch' = [sch EXCEPT !.amount[b] = @ + 1]
    /\ UNCHANGED <<bps, reward, chain>>

onblock(b) ==
    /\ now < MaxBlocks
    /\ now' = now + 1
    /\ onblock_new(b) \/ onblock_cycle(b) \/ onblock_count(b)
    /\ UNCHANGED oper

(* At the start of a block the pending schedule becomes the active one, or   *)
(* else a proposed one pending, once the blocks that say so are irreversible *)
(* (modules Controller and HeaderChain).                                     *)
promote ==
    /\ chain.version = sch.version
    /\ chain.pending # {}
    /\ chain' = [chain EXCEPT !.version = @ + 1, !.active = chain.pending, !.pending = {}]
    /\ UNCHANGED <<bps, sch, reward, now, oper>>

make_pending ==
    /\ chain.version = sch.version
    /\ chain.proposed # {} /\ chain.pending = {}
    /\ chain' = [chain EXCEPT !.pending = chain.proposed, !.proposed = {}]
    /\ UNCHANGED <<bps, sch, reward, now, oper>>
-----------------------------------------------------------------------------
(* The producers' own actions *)

Oper ==
    /\ oper < MaxOps
    /\ oper' = oper + 1
    /\ UNCHANGED <<sch, chain, now>>

addmortgage(b, q) ==
    /\ Oper /\ b \notin Genesis
    /\ bps' = [bps EXCEPT ![b].mortgage = @ + q]
    /\ UNCHANGED reward

claimmortgage(b, q) ==
    /\ Oper /\ bps[b].mortgage > q
    /\ bps' = [bps EXCEPT ![b].mortgage = @ - q]
    /\ UNCHANGED reward

(* Mutation: the claimed age stays in the total. *)
MutAgeStays(claim, age) == [reward EXCEPT !.out = @ - claim]

Claimed(claim, age) == [reward EXCEPT !.out = @ - claim, !.age = @ - age]

claimbp(b) ==
    LET claim == (reward.out * bps[b].age) \div reward.age
    IN  /\ Oper /\ reward.age # 0
        /\ claim > MinClaim
        /\ reward' = Claimed(claim, bps[b].age)
        /\ bps' = [bps EXCEPT ![b].age = 0]

removebp(b) ==
    /\ Oper
    /\ bps' = [bps EXCEPT ![b].status = "removed"]
    /\ UNCHANGED reward

(* A vote (module ForceVoting) gives b a new stake. *)
vote(b, s) ==
    /\ Oper /\ b \notin Genesis
    /\ bps' = [bps EXCEPT ![b].staked = s]
    /\ UNCHANGED reward

ProducersNext ==
    \/ \E b \in chain.active : onblock(b)
    \/ promote \/ make_pending
    \/ \E b \in Bp, q \in Deposits : addmortgage(b, q) \/ claimmortgage(b, q)
    \/ \E b \in Bp : claimbp(b) \/ removebp(b)
    \/ \E b \in Bp, s \in Stakes : vote(b, s)

ProducersSpec == ProducersInit /\ [][ProducersNext]_producers_vars
-----------------------------------------------------------------------------
(* Over reelections and cycles cut short by a new schedule, no producer of   *)
(* the schedule has made fewer than none or more than Cycle blocks since the *)
(* last reward: the number of missed blocks, an unsigned integer, does not   *)
(* wrap around.                                                              *)
CycleBounded == \A b \in DOMAIN sch.amount : sch.amount[b] - bps[b].last \in 0..Cycle

(* The total that rewards are divided by is the sum of what the producers    *)
(* can claim, through cycles, changes of schedule and claims, and no claim   *)
(* leaves the rewards negative.                                              *)
BlockAgeExact ==
    /\ reward.age = SumOver(LAMBDA b : bps[b].age, Bp)
    /\ reward.out >= 0

(* The elected are the first Top of the eligible producers by stake, the     *)
(* later name first among equals.                                            *)
ElectedTop ==
    LET eligible == {b \in Bp : Eligible(bps, b)}
        above(b) == {c \in eligible : \/ StakeOf(bps, c) > StakeOf(bps, b)
                                      \/ StakeOf(bps, c) = StakeOf(bps, b) /\ c > b}
    IN  Elected(bps) = {b \in eligible : Cardinality(above(b)) < Top}
=============================================================================
