---------------------------- MODULE ForceVoting ----------------------------
(***************************************************************************)
(* force.system, staking: freeze, vote, vote4ram and unfreeze move core    *)
(* coins between an account's balance, its frozen stake and its votes; a   *)
(* vote earns "voteage", votes times blocks.  At the end of a reward       *)
(* period onblock makes a record per producer of the voteage so far, with  *)
(* the producer's voters' reward; a voter's part of it is worked out when  *)
(* the voter next moves (settlevoter).                                     *)
(*                                                                         *)
(* Amounts are in whole coins (the code refuses fractions).  All producers *)
(* are registered, none is a genesis producer, and commissions are left    *)
(* out: a period's reward goes to the voters.  An action that throws       *)
(* changes nothing.                                                        *)
(***************************************************************************)
EXTENDS Integers, FiniteSets, FiniteSetsExt

CONSTANTS
    Voter, Bp,      \* accounts that vote, and producers
    Coins,          \* what every voter owns
    FrozenDelay,    \* FROZEN_DELAY
    RecordSize,     \* BP_REWARD_RECORD_SIZE
    Pool,           \* the reward of a period
    MinClaim,       \* what a claim must exceed
    Frozen0,        \* what every voter has frozen at the start
    MaxBlocks,      \* bound on block numbers
    MaxVotes        \* bound on actions of voters

VARIABLES
    balance,        \* coins of a voter in the token contract
    pledged,        \* what voters have sent to the system account, less returned
    freezed,        \* freeze_table: [staked, unstaking, unstake_height]
    votes,          \* votes_table: [is, vote, voteage, height, reward]
    ram,            \* votes4ram_table, and its sum by voter
    bps,            \* bps_table: [active, staked, voteage, height, records]
    now,            \* current_block_num
    moves,          \* actions of voters done
    feed            \* history: fee was used

voting_vars == <<balance, pledged, freezed, votes, ram, bps, now, moves, feed>>

NoVote == [is |-> FALSE, vote |-> 0, voteage |-> 0, height |-> 0, reward |-> 0]
Sum(f(_), S) == FoldSet(LAMBDA x, sum : sum + f(x), 0, S)

VotingTypeOK ==
    /\ balance \in [Voter -> 0..Coins] /\ pledged \in Nat
    /\ \A v \in Voter : freezed[v].staked \in Nat /\ freezed[v].unstaking \in Nat
    /\ \A v \in Voter, b \in Bp : votes[v][b].vote \in Nat /\ votes[v][b].height \in 0..now
    /\ \A v \in Voter : ram.sum[v] \in Nat
    /\ \A b \in Bp : bps[b].staked \in Nat /\ DOMAIN bps[b].records \subseteq 1..MaxBlocks
    /\ now \in 1..MaxBlocks /\ moves \in 0..MaxVotes
    /\ feed \in BOOLEAN

VotingInit ==
    /\ balance = [v \in Voter |-> Coins - Frozen0]
    /\ pledged = Frozen0 * Cardinality(Voter)
    /\ freezed = [v \in Voter |-> [staked |-> Frozen0, unstaking |-> 0, height |-> 1]]
    /\ votes = [v \in Voter |-> [b \in Bp |-> NoVote]]
    /\ ram = [vote |-> [v \in Voter |-> [b \in Bp |-> 0]], sum |-> [v \in Voter |-> 0]]
    /\ bps = [b \in Bp |-> [active |-> TRUE, staked |-> 0, voteage |-> 0, height |-> 1,
                            records |-> [n \in {} |-> 0]]]
    /\ now = 1 /\ moves = 0
    /\ feed = FALSE

Move ==
    /\ moves < MaxVotes
    /\ moves' = moves + 1
    /\ UNCHANGED now
-----------------------------------------------------------------------------
(* settlevoter: the records after the voter's last move, in turn. *)

Due(v, b) == {n \in DOMAIN bps[b].records : votes[v][b].height < n}

(* The voter's voteage in record n. *)
DayVoteage(v, b, n) ==
    LET i == votes[v][b]
        before == {k \in Due(v, b) : k < n}
    IN  IF before = {} THEN i.voteage + i.vote * (n - i.height) ELSE i.vote * (n - Max(before))

DayReward(v, b, n) ==
    (bps[b].records[n].reward * DayVoteage(v, b, n)) \div bps[b].records[n].voteage

(* The division by a record's voteage throws if that is 0. *)
Settles(v, b) == \A n \in Due(v, b) : bps[b].records[n].voteage # 0

OpenVoteage(v, b) ==
    LET i == votes[v][b]
    IN  IF Due(v, b) = {} THEN i.voteage + i.vote * (now - i.height)
        ELSE i.vote * (now - Max(Due(v, b)))

Settled(v, b) ==
    [votes[v][b] EXCEPT !.reward = @ + Sum(LAMBDA n : DayReward(v, b, n), Due(v, b)),
                        !.voteage = OpenVoteage(v, b),
                        !.height = now]

SettledRecords(v, b) ==
    [n \in DOMAIN bps[b].records |->
        IF n \notin Due(v, b) THEN bps[b].records[n]
        ELSE [voteage |-> bps[b].records[n].voteage - DayVoteage(v, b, n),
              reward |-> bps[b].records[n].reward - DayReward(v, b, n)]]
-----------------------------------------------------------------------------
(* Stakes and votes *)

(* Mutation: what is on its way out is overwritten, not added to. *)
MutUnstakeSet(v, stake, h) ==
    LET f == freezed[v]
        less == f.staked - stake
    IN  [staked |-> stake,
         unstaking |-> IF less > 0 THEN less ELSE f.unstaking,
         height |-> IF less > 0 THEN h ELSE f.height]

(* Less than before: the difference is on its way out. *)
Frozen(v, stake, h) ==
    LET f == freezed[v]
        less == f.staked - stake
    IN  [staked |-> stake,
         unstaking |-> IF less > 0 THEN f.unstaking + less ELSE f.unstaking,
         height |-> IF less > 0 THEN h ELSE f.height]

(* freeze and its transfer of what is added. *)
freeze(v, stake) ==
    LET more == Max({0, stake - freezed[v].staked})
    IN  /\ Move
        /\ more <= balance[v]
        /\ freezed' = [freezed EXCEPT ![v] = Frozen(v, stake, now)]
        /\ balance' = [balance EXCEPT ![v] = @ - more]
        /\ pledged' = pledged + more
        /\ UNCHANGED <<votes, ram, bps, feed>>

(* A vote taken back is frozen stake again; one added is taken from it. *)
Shifted(f, change) ==
    IF change < 0 THEN [f EXCEPT !.staked = @ - change, !.height = now]
    ELSE [f EXCEPT !.staked = @ - change]

(* Mutation: the producer's voteage is not brought up to now. *)
MutStakeOnly(b, change) == [bps[b] EXCEPT !.staked = @ + change]

(* Mutation: a lowered vote is not taken off the producer's stake. *)
MutStakeUp(b, change) ==
    [bps[b] EXCEPT !.voteage = @ + bps[b].staked * (now - bps[b].height),
                   !.height = now,
                   !.staked = @ + Max({change, 0})]

(* The producer's voteage up to now, and its new stake. *)
Voted(b, change) ==
    [bps[b] EXCEPT !.voteage = @ + bps[b].staked * (now - bps[b].height),
                   !.height = now,
                   !.staked = @ + change]

vote(v, b, stake) ==
    LET old == votes[v][b]
        change == stake - old.vote
    IN  /\ Move
        /\ old.is => Settles(v, b)
        /\ bps[b].active \/ change < 0
        /\ change > 0 => freezed[v].staked >= change
        /\ votes' = [votes EXCEPT ![v][b] =
              IF old.is THEN [Settled(v, b) EXCEPT !.vote = stake]
              ELSE [NoVote EXCEPT !.is = TRUE, !.vote = stake, !.height = now]]
        /\ freezed' = [freezed EXCEPT ![v] = Shifted(@, change)]
        /\ bps' = [bps EXCEPT ![b] =
              [Voted(b, change) EXCEPT !.records = IF old.is THEN SettledRecords(v, b) ELSE @]]
        /\ UNCHANGED <<balance, pledged, ram, feed>>

(* vote4ram: the voteage of the vote is kept but never settled. *)
Vote4ram(v, b, stake, f) ==
    LET change == stake - ram.vote[v][b]
    IN  /\ bps[b].active \/ change < 0
        /\ change > 0 => f.staked >= change
        /\ ram' = [vote |-> [ram.vote EXCEPT ![v][b] = stake],
                   sum |-> [ram.sum EXCEPT ![v] = @ + change]]
        /\ freezed' = [freezed EXCEPT ![v] = Shifted(f, change)]
        /\ bps' = [bps EXCEPT ![b] = Voted(b, change)]

vote4ram(v, b, stake) ==
    /\ Move
    /\ Vote4ram(v, b, stake, freezed[v])
    /\ UNCHANGED <<balance, pledged, votes, feed>>

(* vote4ram2: freeze and vote4ram in one action. *)
vote4ram2(v, b, stake) ==
    LET more == Max({0, stake - freezed[v].staked})
    IN  /\ Move
        /\ more <= balance[v]
        /\ Vote4ram(v, b, stake, Frozen(v, stake, now))
        /\ balance' = [balance EXCEPT ![v] = @ - more]
        /\ pledged' = pledged + more
        /\ UNCHANGED <<votes, feed>>

unfreeze(v) ==
    /\ Move
    /\ freezed[v].height + FrozenDelay < now
    /\ freezed[v].unstaking > 0
    /\ balance' = [balance EXCEPT ![v] = @ + freezed[v].unstaking]
    /\ pledged' = pledged - freezed[v].unstaking
    /\ freezed' = [freezed EXCEPT ![v].unstaking = 0, ![v].height = now]
    /\ UNCHANGED <<votes, ram, bps, feed>>

(* fee pays with voteage, and does not settle. *)
fee(v, b, age) ==
    LET i == votes[v][b]
        newest == i.voteage + i.vote * (now - i.height)
    IN  /\ Move
        /\ i.is /\ age <= newest
        /\ votes' = [votes EXCEPT ![v][b].voteage = newest - age, ![v][b].height = now]
        /\ bps' = [bps EXCEPT ![b] = [Voted(b, 0) EXCEPT !.voteage = @ - age]]
        /\ feed' = TRUE
        /\ UNCHANGED <<balance, pledged, freezed, ram>>

claimvote(v, b) ==
    /\ Move
    /\ votes[v][b].is /\ Settles(v, b)
    /\ Settled(v, b).reward > MinClaim
    /\ votes' = [votes EXCEPT ![v][b] = [Settled(v, b) EXCEPT !.reward = 0]]
    /\ bps' = [bps EXCEPT ![b].records = SettledRecords(v, b)]
    /\ UNCHANGED <<balance, pledged, freezed, ram, feed>>

removebp(b) ==
    /\ bps[b].active
    /\ bps' = [bps EXCEPT ![b].active = FALSE]
    /\ UNCHANGED <<balance, pledged, freezed, votes, ram, now, moves, feed>>
-----------------------------------------------------------------------------
(* onblock *)

onblock ==
    /\ now < MaxBlocks
    /\ now' = now + 1
    /\ UNCHANGED <<balance, pledged, freezed, votes, ram, bps, moves, feed>>

(* settlebpvote at block n: of RecordSize records the oldest is dropped and  *)
(* the next one loses its reward.                                            *)
settlebpvote(b, n) ==
    LET all == [k \in DOMAIN bps[b].records \cup {n} |->
                  IF k = n THEN [voteage |-> bps[b].voteage + bps[b].staked * (n - bps[b].height),
                                 reward |-> 0]
                  ELSE bps[b].records[k]]
        first == Min(DOMAIN all)
        second == Min(DOMAIN all \ {first})
    IN  [bps[b] EXCEPT !.voteage = 0, !.height = n,
                       !.records = IF Cardinality(DOMAIN @) < RecordSize THEN all
                                   ELSE [k \in DOMAIN all \ {first} |->
                                           IF k = second THEN [all[k] EXCEPT !.reward = 0] ELSE all[k]]]

(* settlebpvote, then reward_bps: producers with more than 1/200 of the     *)
(* voteage, not removed, share the pool by it.                              *)
onblock_reward ==
    /\ now < MaxBlocks
    /\ now' = now + 1
    /\ LET settled == [b \in Bp |-> settlebpvote(b, now')]
           age(b) == settled[b].records[now'].voteage
           all == Sum(age, Bp)
       IN  bps' = [b \in Bp |->
                     IF all <= 0 \/ age(b) <= all \div 200 \/ ~bps[b].active THEN settled[b]
                     ELSE [settled[b] EXCEPT !.records[now'].reward = (Pool * age(b)) \div all]]
    /\ UNCHANGED <<balance, pledged, freezed, votes, ram, moves, feed>>

VotingNext ==
    \/ \E v \in Voter, s \in 0..Coins : freeze(v, s)
    \/ \E v \in Voter, b \in Bp, s \in 0..Coins : vote(v, b, s) \/ vote4ram(v, b, s) \/ vote4ram2(v, b, s)
    \/ \E v \in Voter : unfreeze(v)
    \/ \E v \in Voter, b \in Bp : claimvote(v, b)
    \/ \E v \in Voter, b \in Bp, age \in 1..Coins : fee(v, b, age)
    \/ \E b \in Bp : removebp(b)
    \/ onblock
    \/ onblock_reward

VotingSpec == VotingInit /\ [][VotingNext]_voting_vars
-----------------------------------------------------------------------------
(* Whatever voters freeze, vote, take back and unfreeze, the system account *)
(* holds exactly their frozen stakes, what is on its way out and their      *)
(* votes, and each voter still has what it began with.                      *)
StakeBacked ==
    LET has(v) == freezed[v].staked + freezed[v].unstaking
                  + Sum(LAMBDA b : votes[v][b].vote + ram.vote[v][b], Bp)
    IN  /\ pledged = Sum(has, Voter)
        /\ \A v \in Voter : balance[v] + has(v) = Coins

(* A producer's stake, by which producers are elected, is the sum of the    *)
(* votes for it, and the stake a voter gets RAM for is the sum of its votes *)
(* for RAM.                                                                 *)
VotesCounted ==
    /\ \A b \in Bp : bps[b].staked = Sum(LAMBDA v : votes[v][b].vote + ram.vote[v][b], Voter)
    /\ \A v \in Voter : ram.sum[v] = Sum(LAMBDA b : ram.vote[v][b], Bp)

(* As long as no record was dropped and no voteage spent by fee, the voters *)
(* of a producer never have more voteage in one of its records than is in   *)
(* it: a record that some still have a part of has not run out.             *)
VoteageCovered ==
    ~feed =>
        \A b \in Bp : Cardinality(DOMAIN bps[b].records) < RecordSize =>
            \A n \in DOMAIN bps[b].records :
                /\ bps[b].records[n].reward >= 0
                /\ bps[b].records[n].voteage >=
                      Sum(LAMBDA v : IF n \in Due(v, b) THEN DayVoteage(v, b, n) ELSE 0, Voter)
=============================================================================
