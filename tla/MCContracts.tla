---------------------------- MODULE MCContracts ----------------------------
(***************************************************************************)
(* The contracts, in one state space of which a behaviour runs one: the    *)
(* relay contract (module Relay), the relayed tokens (RelayToken), the     *)
(* bridge (SysBridge), the exchange (SysMatch), the system contract's      *)
(* staking (ForceVoting), block production (ForceProducers) and punishment *)
(* (ForcePunish), and the chain's account resources (ResourceLimits).      *)
(***************************************************************************)
EXTENDS Relay

CONSTANTS b1, b2, send, other

VARIABLES
    which,                              \* the contract that runs
    v1, v2, v3, v4, v5, v6, v7, v8, v9  \* its variables, except for the relay's

(* force.relay: b1 and f1 are two blocks of one number, f1 with producer 0; *)
(* b2 is the next.                                                          *)
MCNum == [b \in Blocks |-> IF b = b2 THEN 2 ELSE 1]

MCId == [b \in Blocks |-> b]

MCActions == [b \in Blocks |-> IF b = b1 THEN <<send, other>> ELSE <<send>>]

slots == <<v1, v2, v3, v4, v5, v6, v7, v8, v9>>

Token == INSTANCE RelayToken WITH
    Owner <- {"i", "x"}, Issuer <- "i", MaxSupply <- 2, RecordSize <- 4, Base <- 2,
    CoinWeights <- {1, 2}, MinClaim <- 1, Pools <- {7}, MaxHeight <- 4,
    token <- v1, height <- v2, granted <- v3, claimed <- v4

BridgeFees ==
    {[kind |-> "fixed", fixed |-> ("a" :> 1) @@ ("b" :> 0), ratio |-> ("a" :> 0) @@ ("b" :> 0)],
     [kind |-> "proportion_mincost", fixed |-> ("a" :> 0) @@ ("b" :> 2),
      ratio |-> ("a" :> 0) @@ ("b" :> 5)]}

Bridge == INSTANCE SysBridge WITH
    Coin <- {"a", "b"}, Market <- {"m1", "m2"}, Ratios <- {("a" :> 1) @@ ("b" :> 3)},
    Fees <- BridgeFees, Card <- 10, Word <- 1024, Money <- 2, MaxFees <- 2,
    pairs <- v1, custody <- v2, transcon <- v3, dipped <- v4

Match == INSTANCE SysMatch WITH
    Trader <- {"x", "y"}, Exc <- {"e", "f"}, Started <- {"e"}, Staked <- {"e", "f"},
    Prices <- {2, 3, 6}, Amounts <- {1, 2, 6}, Unit <- 2, PriceWord <- 4, Rates <- {0, 4},
    MaxRate <- 10, MinQties <- {1}, RegStake <- 2, MaxOrders <- 3, MaxOps <- 3,
    book <- v1, exchanges <- v2, staked <- v3, next_id <- v4, paused <- v5, admin <- v6,
    drawn <- v7

Voting == INSTANCE ForceVoting WITH
    Voter <- {"v", "w"}, Bp <- {"p"}, Coins <- 2, FrozenDelay <- 1, RecordSize <- 3, Pool <- 5,
    MinClaim <- 0, Frozen0 <- 1, MaxBlocks <- 4, MaxVotes <- 3,
    balance <- v1, pledged <- v2, freezed <- v3, votes <- v4, ram <- v5, bps <- v6, now <- v7,
    moves <- v8, feed <- v9

Makers == INSTANCE ForceProducers WITH
    NumBp <- 3, Top <- 2, Genesis <- {1}, GenesisStake <- 1, GenesisMortgage <- 6, Cycle <- 2,
    Weight <- 3, Unit <- 1, Mortgage <- 4, LackFreeze <- 2, Word <- 1024, Stakes <- {0, 2},
    Deposits <- {3}, MinClaim <- 0, MaxBlocks <- 7, MaxOps <- 2,
    bps <- v1, sch <- v2, chain <- v3, reward <- v4, now <- v5, oper <- v6

Punish == INSTANCE ForcePunish WITH
    Producers <- {"p", "q", "r"}, Initiator <- {"i"}, NumTop <- 2, Day <- 2, Modulus <- 1024,
    Drains <- {5}, PunishFee <- 2, BailFee <- 1, Held <- 5, Starts <- {1, 3}, MaxHeight <- 8, MaxActs <- 5,
    bp <- v1, super <- v2, drained <- v3, motion <- v4, approved <- v5, account <- v6,
    height <- v7, acts <- v8

Limits == INSTANCE ResourceLimits WITH
    Resource <- {"cpu"}, Account <- {"x", "y"}, Weights <- {-1, 0, 1},
    Gmrs <- {[cpu |-> 1, net |-> 2]},
    Params <- {[target |-> 1, max |-> 2, multiplier |-> 3],
               [target |-> 1, max |-> 3, multiplier |-> 2]},
    Periods <- 2, Contract <- [num |-> 2, den |-> 3], Expand <- [num |-> 3, den |-> 2],
    Precision <- 10, Window <- 3, MaxBlock <- 2, MaxOps <- 2,
    limits <- v1, pending <- v2, usage <- v3, rstate <- v4, rconfig <- v5, gmr <- v6,
    block <- v7, ops <- v8

-----------------------------------------------------------------------------
MCInit ==
    /\ Init
    /\ \/ /\ which = "relay" /\ v1 = 0 /\ v2 = 0 /\ v3 = 0 /\ v4 = 0
          /\ v5 = 0 /\ v6 = 0 /\ v7 = 0 /\ v8 = 0 /\ v9 = 0
       \/ /\ which = "token" /\ Token!TokenInit
          /\ v5 = 0 /\ v6 = 0 /\ v7 = 0 /\ v8 = 0 /\ v9 = 0
       \/ /\ which = "bridge" /\ Bridge!BridgeInit
          /\ v5 = 0 /\ v6 = 0 /\ v7 = 0 /\ v8 = 0 /\ v9 = 0
       \/ which = "match" /\ Match!MatchInit /\ v8 = 0 /\ v9 = 0
       \/ which = "voting" /\ Voting!VotingInit
       \/ which = "makers" /\ Makers!ProducersInit /\ v7 = 0 /\ v8 = 0 /\ v9 = 0
       \/ which = "punish" /\ Punish!PunishInit /\ v9 = 0
       \/ which = "limits" /\ Limits!LimitsInit /\ v9 = 0

MCNext ==
    /\ UNCHANGED which
    /\ \/ which = "relay" /\ Next /\ UNCHANGED slots
       \/ which = "token" /\ Token!TokenNext /\ UNCHANGED <<vars, v5, v6, v7, v8, v9>>
       \/ which = "bridge" /\ Bridge!BridgeNext /\ UNCHANGED <<vars, v5, v6, v7, v8, v9>>
       \/ which = "match" /\ Match!MatchNext /\ UNCHANGED <<vars, v8, v9>>
       \/ which = "voting" /\ Voting!VotingNext /\ UNCHANGED vars
       \/ which = "makers" /\ Makers!ProducersNext /\ UNCHANGED <<vars, v7, v8, v9>>
       \/ which = "punish" /\ Punish!PunishNext /\ UNCHANGED <<vars, v9>>
       \/ which = "limits" /\ Limits!LimitsNext /\ UNCHANGED <<vars, v9>>

MCSpec == MCInit /\ [][MCNext]_<<which, vars, slots>>
-----------------------------------------------------------------------------
(* The tables of every contract hold values of their types. *)
ContractsTypeOK ==
    CASE which = "relay" -> TypeOK
      [] which = "token" -> Token!TokenTypeOK
      [] which = "bridge" -> Bridge!BridgeTypeOK
      [] which = "match" -> Match!MatchTypeOK
      [] which = "voting" -> Voting!VotingTypeOK
      [] which = "makers" -> Makers!ProducersTypeOK
      [] which = "punish" -> Punish!PunishTypeOK
      [] which = "limits" -> Limits!LimitsTypeOK

(* What each contract keeps as a sum is the sum of the rows it is kept for:  *)
(* the deposit sum of force.relay, a token's supply and the mineage of its   *)
(* holders in relay.token, the stake and the block age of producers in       *)
(* force.system and the total weights of resource_limits (the properties of  *)
(* these names say it in full).                                              *)
SumsExact ==
    /\ which = "relay" => DepositSumExact
    /\ which = "token" => Token!SupplyExact /\ Token!MineageExact
    /\ which = "voting" => Voting!VotesCounted
    /\ which = "makers" => Makers!BlockAgeExact /\ Makers!CycleBounded
    /\ which = "limits" => Limits!TotalsExact

(* What a contract owes it holds: rewards of relay.token come out of what    *)
(* was granted, sys.bridge's books add up to its balances, sys.match holds   *)
(* what its tables say, can pay every order and records the stakes of open  *)
(* exchanges, the system account holds stakes, the deposits of motions and   *)
(* the voteage its voters can still claim; when a motion to punish is        *)
(* carried there is something to share, and approvals do not outlive it.     *)
OwedIsHeld ==
    /\ which = "token" => Token!RewardsCovered
    /\ which = "bridge" => Bridge!BooksExact
    /\ which = "match" => Match!EscrowExact /\ Match!OrdersBacked /\ Match!StakeHeld
    /\ which = "voting" => Voting!StakeBacked /\ Voting!VoteageCovered
    /\ which = "punish" => Punish!DepositsHeld /\ Punish!MotionPays /\ Punish!ApprovalsOfMotion

(* The book of sys.match is not crossed, and no order outlives its exchange. *)
NotCrossed == which = "match" => Match!NotCrossed /\ Match!OrdersHaveExchange

(* The producers elected by update_elected_bps have the most votes           *)
(* (ForceProducers!ElectedTop).                                              *)
ElectedTop == which = "makers" => Makers!ElectedTop

(* A transaction that passed its checks can be billed, and elastic limits    *)
(* stay between their bounds (ResourceLimits!NeverFails,                     *)
(* ResourceLimits!ElasticBounds).                                            *)
LimitsHold == which = "limits" => Limits!NeverFails /\ Limits!ElasticBounds
=============================================================================
