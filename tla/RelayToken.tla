----------------------------- MODULE RelayToken -----------------------------
(***************************************************************************)
(* relay.token: a token that stands for one of another chain, and the      *)
(* rewards its holders earn by "mineage", balance times blocks.  Once in a *)
(* reward period onblock turns the mineage of all holders into a record    *)
(* with a pool; a holder's part of every record is worked out only when    *)
(* the holder next moves (settle_user).                                    *)
(*                                                                         *)
(* One token is modelled, with its issuer being the chain's account, as    *)
(* `on` needs it.  An action that throws changes nothing.  Names, symbols  *)
(* and memos are left out, as is the price, which is 1 per unit.           *)
(***************************************************************************)
EXTENDS Integers, FiniteSets, FiniteSetsExt

CONSTANTS
    Owner, Issuer,  \* accounts, and the one of them that issues
    MaxSupply,
    RecordSize,     \* COIN_REWARD_RECORD_SIZE
    Base,           \* BASE_COIN_WEIGHT
    CoinWeights,    \* what setweight sets
    MinClaim,       \* a claim must be above it
    Pools,          \* what the system contract hands to rewardmine
    MaxHeight       \* bound on block numbers

VARIABLES
    token,          \* [stat, accts, recs]: the tables of the contract
    height,         \* current_block_num
    granted,        \* history: the pools handed out
    claimed         \* history: the rewards paid out

token_vars == <<token, height, granted, claimed>>

NoAcct == [bal |-> 0, mineage |-> 0, height |-> 0, reward |-> 0, is |-> FALSE]
SumOver(f(_), S) == FoldSet(LAMBDA x, sum : sum + f(x), 0, S)

TokenTypeOK ==
    /\ token.stat.supply \in 0..MaxSupply
    /\ token.stat.mineage \in Nat /\ token.stat.height \in 0..MaxHeight
    /\ token.stat.listed \in BOOLEAN /\ token.stat.size \in 0..RecordSize
    /\ token.stat.weight \in CoinWeights
    /\ \A o \in Owner :
          LET a == token.accts[o]
          IN  a.bal \in Nat /\ a.mineage \in Nat /\ a.height \in 0..height /\ a.reward \in Nat
    /\ DOMAIN token.recs \subseteq 1..MaxHeight
    /\ height \in 1..MaxHeight
    /\ granted \in Nat /\ claimed \in Nat

(* After create. *)
TokenInit ==
    /\ height = 1
    /\ token = [stat |-> [supply |-> 0, mineage |-> 0, height |-> 1,
                          listed |-> FALSE, size |-> 0, weight |-> Base],
                accts |-> [o \in Owner |-> NoAcct],
                recs |-> [b \in {} |-> 0]]
    /\ granted = 0 /\ claimed = 0
-----------------------------------------------------------------------------
(* settle_user *)

(* The records a holder has a part of: later than its last move, and not    *)
(* used up.                                                                 *)
Due(t, o) == {b \in DOMAIN t.recs : t.accts[o].height < b /\ t.recs[b].mineage > 0}

(* Its mineage in a record: since the record before, for the first one      *)
(* together with what it had.                                               *)
Part(t, o, b) ==
    LET a == t.accts[o]
        before == {c \in Due(t, o) : c < b}
    IN  IF before = {} THEN a.mineage + a.bal * (b - a.height)
        ELSE a.bal * (b - Max(before))

Reward(t, o, b) == (t.recs[b].pool * Part(t, o, b)) \div t.recs[b].mineage

(* Its mineage since the last record. *)
OpenPart(t, o, now) ==
    LET a == t.accts[o]
    IN  IF Due(t, o) = {} THEN a.mineage + a.bal * (now - a.height)
        ELSE a.bal * (now - Max(Due(t, o)))

(* Mutation: the mineage of before the record is kept. *)
MutKeepAge(t, o, now) ==
    [t EXCEPT
       !.accts[o].reward = @ + SumOver(LAMBDA b : Reward(t, o, b), Due(t, o)),
       !.accts[o].mineage = @ + t.accts[o].bal * (now - Max(Due(t, o) \cup {t.accts[o].height})),
       !.accts[o].height = now,
       !.recs = [b \in DOMAIN t.recs |->
                   IF b \notin Due(t, o) THEN t.recs[b]
                   ELSE [mineage |-> t.recs[b].mineage - Part(t, o, b),
                         pool |-> t.recs[b].pool - Reward(t, o, b)]]]

(* Mutation: the mineage of the record is reduced, its pool is not. *)
MutKeepTotal(t, o, now) ==
    [t EXCEPT
       !.accts[o].reward = @ + SumOver(LAMBDA b : Reward(t, o, b), Due(t, o)),
       !.accts[o].mineage = OpenPart(t, o, now),
       !.accts[o].height = now,
       !.recs = [b \in DOMAIN t.recs |->
                   IF b \notin Due(t, o) THEN t.recs[b]
                   ELSE [mineage |-> t.recs[b].mineage - Part(t, o, b),
                         pool |-> t.recs[b].pool]]]

settle_user(t, o, now) ==
    [t EXCEPT
       !.accts[o].reward = @ + SumOver(LAMBDA b : Reward(t, o, b), Due(t, o)),
       !.accts[o].mineage = OpenPart(t, o, now),
       !.accts[o].height = now,
       !.recs = [b \in DOMAIN t.recs |->
                   IF b \notin Due(t, o) THEN t.recs[b]
                   ELSE [mineage |-> t.recs[b].mineage - Part(t, o, b),
                         pool |-> t.recs[b].pool - Reward(t, o, b)]]]
-----------------------------------------------------------------------------
(* Balances *)

sub_balance(t, o, q, now) == [settle_user(t, o, now) EXCEPT !.accts[o].bal = @ - q]

CanSub(t, o, q) == t.accts[o].is /\ t.accts[o].bal >= q

add_balance(t, o, q, now) ==
    IF t.accts[o].is
    THEN [settle_user(t, o, now) EXCEPT !.accts[o].bal = @ + q]
    ELSE [t EXCEPT !.accts[o] = [NoAcct EXCEPT !.bal = q, !.height = now, !.is = TRUE]]

Transferred(t, from, to, q, now) ==
    add_balance(sub_balance(t, from, q, now), to, q, now)

(* issue and destroy bring the total mineage up to the block before the     *)
(* supply changes.                                                          *)
Supply(t, delta, now) ==
    [t EXCEPT !.stat.mineage = @ + t.stat.supply * (now - t.stat.height),
              !.stat.height = now,
              !.stat.supply = @ + delta]

Issued(t, to, q, now) ==
    LET own == add_balance(Supply(t, q, now), Issuer, q, now)
    IN  IF to = Issuer THEN own ELSE Transferred(own, Issuer, to, q, now)
-----------------------------------------------------------------------------
(* Actions *)

issue(to, q) ==
    /\ q <= MaxSupply - token.stat.supply
    /\ token' = Issued(token, to, q, height)
    /\ UNCHANGED <<height, granted, claimed>>

(* on, called by the relay contract for a transfer on the other chain: it   *)
(* must not throw, and drops what it cannot issue.                          *)
on(to, q) ==
    /\ token' = IF q > MaxSupply - token.stat.supply THEN token
                ELSE Issued(token, to, q, height)
    /\ UNCHANGED <<height, granted, claimed>>

(* Mutation: what is destroyed stays in the supply. *)
MutSupplyStays(o, q) ==
    /\ CanSub(token, o, q)
    /\ token' = sub_balance(token, o, q, height)
    /\ UNCHANGED <<height, granted, claimed>>

destroy(o, q) ==
    /\ q <= token.stat.supply
    /\ CanSub(token, o, q)
    /\ token' = sub_balance(Supply(token, -q, height), o, q, height)
    /\ UNCHANGED <<height, granted, claimed>>

transfer(from, to, q) ==
    /\ from # to
    /\ CanSub(token, from, q)
    /\ token' = Transferred(token, from, to, q, height)
    /\ UNCHANGED <<height, granted, claimed>>

(* addreward: a first record without mineage. *)
addreward ==
    /\ ~token.stat.listed
    /\ token' = [token EXCEPT !.stat.listed = TRUE, !.stat.size = 1,
                              !.recs = [b \in {height} |-> [mineage |-> 0, pool |-> 0]]]
    /\ UNCHANGED <<height, granted, claimed>>

setweight(w) ==
    /\ token.stat.weight # w
    /\ token' = [token EXCEPT !.stat.weight = w]
    /\ UNCHANGED <<height, granted, claimed>>

claim(o) ==
    /\ token.stat.listed /\ token.accts[o].is
    /\ LET t == settle_user(token, o, height)
       IN  /\ t.accts[o].reward > MinClaim
           /\ token' = [t EXCEPT !.accts[o].reward = 0]
           /\ claimed' = claimed + t.accts[o].reward
    /\ UNCHANGED <<height, granted>>

(* settlemine: a record of the mineage since the last one; of RecordSize    *)
(* records the oldest is dropped and the next one loses its pool.           *)
settlemine(t, now) ==
    LET all == [b \in DOMAIN t.recs \cup {now} |->
                  IF b = now
                  THEN [mineage |-> t.stat.mineage + t.stat.supply * (now - t.stat.height),
                        pool |-> 0]
                  ELSE t.recs[b]]
        oldest == Min(DOMAIN all)
        second == Min(DOMAIN all \ {oldest})
    IN  [t EXCEPT !.stat.mineage = 0, !.stat.height = now,
                  !.stat.size = Min({@ + 1, RecordSize}),
                  !.recs = IF t.stat.size < RecordSize THEN all
                           ELSE [b \in DOMAIN all \ {oldest} |->
                                   IF b = second THEN [all[b] EXCEPT !.pool = 0] ELSE all[b]]]

(* rewardmine: the token's share of the reward by its power. *)
PoolOf(t, q, now) ==
    LET m == t.recs[now].mineage
        power == (m * t.stat.weight) \div Base
    IN  IF power = 0 THEN 0 ELSE (((m * q) \div power) * t.stat.weight) \div Base

(* onblock, the first transaction of a block, with inline actions settlemine *)
(* and rewardmine at the end of a reward period.                             *)
onblock ==
    /\ height < MaxHeight
    /\ height' = height + 1
    /\ UNCHANGED <<token, granted, claimed>>

onblock_reward(q) ==
    /\ height < MaxHeight
    /\ token.stat.listed
    /\ height' = height + 1
    /\ LET t == settlemine(token, height')
           pool == PoolOf(t, q, height')
       IN  /\ token' = [t EXCEPT !.recs[height'].pool = pool]
           /\ granted' = granted + pool
    /\ UNCHANGED claimed

TokenNext ==
    \/ \E o \in Owner, q \in 1..MaxSupply : issue(o, q) \/ on(o, q) \/ destroy(o, q)
    \/ \E from, to \in Owner, q \in 1..MaxSupply : transfer(from, to, q)
    \/ addreward
    \/ \E w \in CoinWeights : setweight(w)
    \/ \E o \in Owner : claim(o)
    \/ onblock
    \/ \E q \in Pools : onblock_reward(q)

TokenSpec == TokenInit /\ [][TokenNext]_token_vars
-----------------------------------------------------------------------------
(* The supply is the sum of the balances and never above its maximum,       *)
(* whichever of issue, on, destroy and transfer moved it.                   *)
SupplyExact ==
    /\ token.stat.supply = SumOver(LAMBDA o : token.accts[o].bal, Owner)
    /\ token.stat.supply <= MaxSupply

(* As long as no record was dropped, the mineage of every record, and that  *)
(* since the last one, is the sum of what the holders will be credited      *)
(* with, whenever each of them moves: so nobody is paid from the part of    *)
(* another.                                                                 *)
MineageExact ==
    token.stat.size < RecordSize =>
        /\ \A b \in DOMAIN token.recs :
              token.recs[b].mineage > 0 =>
                 token.recs[b].mineage =
                    SumOver(LAMBDA o : IF b \in Due(token, o) THEN Part(token, o, b) ELSE 0, Owner)
        /\ token.stat.mineage + token.stat.supply * (height - token.stat.height) =
              SumOver(LAMBDA o : OpenPart(token, o, height), Owner)

(* What was credited, paid out and is still in the pools never exceeds what *)
(* the pools were given, and no pool is overdrawn.                          *)
RewardsCovered ==
    token.stat.size < RecordSize =>
        /\ \A b \in DOMAIN token.recs : token.recs[b].pool >= 0
        /\ claimed + SumOver(LAMBDA o : token.accts[o].reward, Owner)
             + SumOver(LAMBDA b : token.recs[b].pool, DOMAIN token.recs) <= granted
=============================================================================
