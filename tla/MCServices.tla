---------------------------- MODULE MCServices ---------------------------
(***************************************************************************)
(* The parts of a node that run beside the consensus of blocks, in one     *)
(* state space of which a behaviour runs one: modules ProducerPlugin,      *)
(* NotifyPlugin, WalletManager, BlockLog, StateHistory,                    *)
(* IncomingTransactions, MongoDb, MongoOrders, MongoAccounts.              *)
(***************************************************************************)
EXTENDS Integers, Sequences, FiniteSets, TLC

VARIABLES
    which,  \* the part that runs
    v1, v2, v3, v4, v5, v6, v7, v8, v9, v10, v11, v12  \* its variables

slots == <<v1, v2, v3, v4, v5, v6, v7, v8, v9, v10, v11, v12>>

(* The filters, actions and authorities of the instances. *)
filter(receiver, name, actor) == [receiver |-> receiver, action |-> name, actor |-> actor]
sent(receiver, name, actors) == [receiver |-> receiver, action |-> name, actors |-> actors]
authority(keys, accounts) == [keys |-> keys, accounts |-> accounts]

Producer == INSTANCE ProducerPlugin WITH
    Schedule <- <<"b", "a", "c">>, Repetitions <- 1, Local <- {"a"}, Keys <- {"a"}, Stale <- TRUE,
    Offset <- 0, LastOffset <- -1, HeadAge <- 6, Future <- 3, LibAges <- {-1, 4}, Start <- 1,
    MaxBlocks <- 3, MaxNow <- 4, MaxAsk <- 2, MaxFail <- 1, MaxOps <- 1,
    node <- v1, snaps <- v2, files <- v3, answers <- v4, signed <- v5, fails <- v6,
    ops <- v7

Forking == INSTANCE ProducerPlugin WITH
    Schedule <- <<"b", "a", "c">>, Repetitions <- 3, Local <- {"a"}, Keys <- {"a"}, Stale <- TRUE,
    Offset <- 0, LastOffset <- -1, HeadAge <- 6, Future <- 1, LibAges <- {-1}, Start <- 3,
    MaxBlocks <- 6, MaxNow <- 8, MaxAsk <- 0, MaxFail <- 0, MaxOps <- 0,
    node <- v1, snaps <- v2, files <- v3, answers <- v4, signed <- v5, fails <- v6,
    ops <- v7

Notify == INSTANCE NotifyPlugin WITH
    Trx <- {"t1", "t2"}, Acts <- 2, Undecodable <- {"t2"}, MaxHeight <- 3, MaxCopies <- 2, MaxApply <- 2,
    action_queue <- v1, irreversible_action_queue <- v2, chain <- v3, lib <- v4,
    pending <- v5, applies <- v6, thrown <- v7, posted <- v8, seen <- v9

Wallet == INSTANCE WalletManager WITH
    Wallet <- {"w"}, Key <- {"k", "l"}, MaxPw <- 2, Timeouts <- {1, 2}, MaxIdle <- 2,
    file <- v1, mem <- v2, timeout <- v3, left <- v4, pws <- v5, idle <- v6,
    acked <- v7, signed <- v8

Log == INSTANCE BlockLog WITH
    MaxNum <- 4, MaxFaults <- 3,
    disk <- v1, index <- v2, backup <- v3, log <- v4, acked <- v5, faults <- v6

History == INSTANCE StateHistory WITH
    Tag <- {1, 2}, Flight <- {0, 1}, MaxHeight <- 3, MaxStops <- 1, MaxForks <- 1,
    chain <- v1, final <- v2, log <- v3, running <- v4, session <- v5, client <- v6,
    stops <- v7, forks <- v8

Incoming == INSTANCE IncomingTransactions WITH
    Trx <- {"a", "b"}, Expiration <- [a |-> 1, b |-> 2], Ratio <- 1, MaxDue <- 2, MaxRequests <- 2, MaxTime <- 2,
    producers <- v1, requests <- v2, pool <- v3, queue <- v4, answers <- v5,
    persistent <- v6, unapplied <- v7, failed <- v8, chain <- v9, block <- v10,
    step <- v11, weight <- v12

Mongo == INSTANCE MongoDb WITH
    Trx <- <<<<"x">>, <<"x">>, <<"y">>>>, max_queue_size <- 1, MaxHeight <- 2, MaxSwitches <- 1,
    filter_on <- {filter(1, 0, 2), filter(2, 0, 0)}, filter_out <- {filter(0, 0, 3)},
    Actions <- [x |-> {sent(1, 1, {2})}, y |-> {sent(2, 1, {3})}],
    Tag <- {1, 2, 3}, start_block_num <- 2, update_blocks_via_block_num <- TRUE,
    chain <- v1, lib <- v2, switches <- v3, main <- v4, queues <- v5, batch <- v6,
    consumer <- v7, done <- v8, reached <- v9, failed <- v10, blocks <- v11,
    trans <- v12

MongoIds == INSTANCE MongoDb WITH
    Trx <- <<<<"x">>, <<"x">>, <<"y">>>>, max_queue_size <- 1, MaxHeight <- 2, MaxSwitches <- 1,
    filter_on <- {filter(1, 0, 2), filter(2, 0, 0)}, filter_out <- {filter(0, 0, 3)},
    Actions <- [x |-> {sent(1, 1, {2})}, y |-> {sent(2, 1, {3})}],
    Tag <- {1, 2}, start_block_num <- 0, update_blocks_via_block_num <- FALSE,
    chain <- v1, lib <- v2, switches <- v3, main <- v4, queues <- v5, batch <- v6,
    consumer <- v7, done <- v8, reached <- v9, failed <- v10, blocks <- v11,
    trans <- v12

Orders == INSTANCE MongoOrders WITH
    Maker <- {"a", "b"}, Pair <- {1}, Exchange <- {"x"}, Quantity <- {1, 2}, First <- 1, MaxTraces <- 3,
    book <- v1, traces <- v2, orders <- v3, deals <- v4, drops <- v5, before <- v6

Missed == INSTANCE MongoOrders WITH
    Maker <- {"a"}, Pair <- {1}, Exchange <- {"x"}, Quantity <- {1, 2}, First <- 2, MaxTraces <- 4,
    book <- v1, traces <- v2, orders <- v3, deals <- v4, drops <- v5, before <- v6

Keys == INSTANCE MongoAccounts WITH
    Account <- {"a"}, Permission <- {"owner", "active", "p"}, Abi <- {}, abi_cache_size <- 1, MaxActions <- 4,
    Auth <- {authority({1}, {}), authority({2}, {<<"a", "active">>, <<"a", "owner">>})},
    perms <- v1, acts <- v2, queue <- v3, accounts <- v4, pub_keys <- v5,
    account_controls <- v6, abi_cache <- v7, drops <- v8, stale <- v9

Abis == INSTANCE MongoAccounts WITH
    Account <- {"a", "b"}, Permission <- {"owner", "active"}, Abi <- {"x", "y"}, abi_cache_size <- 1, MaxActions <- 4,
    Auth <- {authority({1}, {})},
    perms <- v1, acts <- v2, queue <- v3, accounts <- v4, pub_keys <- v5,
    account_controls <- v6, abi_cache <- v7, drops <- v8, stale <- v9

-----------------------------------------------------------------------------
MCInit ==
    \/ which = "producer" /\ Producer!ProducerInit /\ v8 = 0 /\ v9 = 0 /\ v10 = 0 /\ v11 = 0 /\ v12 = 0
    \/ which = "forking" /\ Forking!ProducerInit /\ v8 = 0 /\ v9 = 0 /\ v10 = 0 /\ v11 = 0 /\ v12 = 0
    \/ which = "notify" /\ Notify!NotifyInit /\ v10 = 0 /\ v11 = 0 /\ v12 = 0
    \/ which = "wallet" /\ Wallet!WalletInit /\ v9 = 0 /\ v10 = 0 /\ v11 = 0 /\ v12 = 0
    \/ which = "log" /\ Log!LogInit /\ v7 = 0 /\ v8 = 0 /\ v9 = 0 /\ v10 = 0 /\ v11 = 0 /\ v12 = 0
    \/ which = "history" /\ History!HistoryInit /\ v9 = 0 /\ v10 = 0 /\ v11 = 0 /\ v12 = 0
    \/ which = "incoming" /\ Incoming!IncomingInit
    \/ which = "mongo" /\ Mongo!MongoInit
    \/ which = "mongoids" /\ MongoIds!MongoInit
    \/ which = "orders" /\ Orders!OrdersInit /\ v7 = 0 /\ v8 = 0 /\ v9 = 0 /\ v10 = 0 /\ v11 = 0 /\ v12 = 0
    \/ which = "missed" /\ Missed!OrdersInit /\ v7 = 0 /\ v8 = 0 /\ v9 = 0 /\ v10 = 0 /\ v11 = 0 /\ v12 = 0
    \/ which = "keys" /\ Keys!AccountsInit /\ v10 = 0 /\ v11 = 0 /\ v12 = 0
    \/ which = "abis" /\ Abis!AccountsInit /\ v10 = 0 /\ v11 = 0 /\ v12 = 0

MCNext ==
    /\ UNCHANGED which
    /\ \/ which = "producer" /\ Producer!ProducerNext /\ UNCHANGED <<v8, v9, v10, v11, v12>>
       \/ which = "forking" /\ Forking!ProducerNext /\ UNCHANGED <<v8, v9, v10, v11, v12>>
       \/ which = "notify" /\ Notify!NotifyNext /\ UNCHANGED <<v10, v11, v12>>
       \/ which = "wallet" /\ Wallet!WalletNext /\ UNCHANGED <<v9, v10, v11, v12>>
       \/ which = "log" /\ Log!LogNext /\ UNCHANGED <<v7, v8, v9, v10, v11, v12>>
       \/ which = "history" /\ History!HistoryNext /\ UNCHANGED <<v9, v10, v11, v12>>
       \/ which = "incoming" /\ Incoming!IncomingNext
       \/ which = "mongo" /\ Mongo!MongoNext
       \/ which = "mongoids" /\ MongoIds!MongoNext
       \/ which = "orders" /\ Orders!OrdersNext /\ UNCHANGED <<v7, v8, v9, v10, v11, v12>>
       \/ which = "missed" /\ Missed!OrdersNext /\ UNCHANGED <<v7, v8, v9, v10, v11, v12>>
       \/ which = "keys" /\ Keys!AccountsNext /\ UNCHANGED <<v10, v11, v12>>
       \/ which = "abis" /\ Abis!AccountsNext /\ UNCHANGED <<v10, v11, v12>>

MCSpec == MCInit /\ [][MCNext]_<<which, slots>>
-----------------------------------------------------------------------------
(* The state of every part holds values of its types. *)
ServicesTypeOK ==
    CASE which = "producer" -> Producer!TypeOK
      [] which = "forking" -> Forking!TypeOK
      [] which = "notify" -> Notify!TypeOK
      [] which = "wallet" -> Wallet!TypeOK
      [] which = "log" -> Log!TypeOK
      [] which = "history" -> History!HistoryTypeOK
      [] which = "incoming" -> Incoming!IncomingTypeOK
      [] which = "mongo" -> Mongo!MongoTypeOK
      [] which = "mongoids" -> MongoIds!MongoTypeOK
      [] which = "orders" -> Orders!OrdersTypeOK
      [] which = "missed" -> Missed!OrdersTypeOK
      [] which = "keys" -> Keys!AccountsTypeOK
      [] which = "abis" -> Abis!AccountsTypeOK

(* What has begun goes on: the production loop waits for a timer or a      *)
(* block, a timer to produce finds a block to produce, a local producer is *)
(* woken before its slot, a client of the state history that may be sent   *)
(* more is sent the chain, and the thread that writes to MongoDB does not  *)
(* sleep over a queued entry. (The properties of these names say it in     *)
(* full.)                                                                  *)
KeepsGoing ==
    /\ which = "producer" => Producer!LoopAlive /\ Producer!ProduceReady /\ Producer!WakesInTime
    /\ which = "history" => History!ClientUpToDate
    /\ which = "mongo" => Mongo!NoLostWakeup
    /\ which = "mongoids" => MongoIds!NoLostWakeup

(* What may happen once happens once: the answer to a snapshot request, a  *)
(* producer's block of a number, the notification of an action per         *)
(* accepted block, the answer to a submitted transaction and its execution *)
(* on the chain. (The properties of these names say it in full.)           *)
DoneOnce ==
    /\ which = "producer" => Producer!AnsweredOnce
    /\ which = "forking" => Forking!SignsUpwards
    /\ which = "notify" => Notify!AcceptedOnce
    /\ which = "incoming" => Incoming!AnsweredOnce /\ Incoming!NotTwice

(* What was acknowledged is found again: an imported key after failing     *)
(* saves and restarts, an appended block after crashes, by its number, an  *)
(* accepted action until its block is irreversible, the state history of a *)
(* block after forks and crashes, a transaction that was promised until it *)
(* expires, and what MongoDB is to hold of blocks, orders and accounts.    *)
(* (The properties of these names say it in full.)                         *)
NothingLost ==
    /\ which = "wallet" => Wallet!ImportsSurvive
    /\ which = "log" => Log!FindsByNumber /\ Log!AppendedIsKept
    /\ which = "notify" => Notify!AwaitsFinality
    /\ which = "history" => History!LogWhole /\ History!LogFollowsChain /\ History!ClientCoherent /\ History!SendsFinal
    /\ which = "incoming" => Incoming!PersistedIsKept /\ Incoming!WaitsOnlyUnapplied
    /\ which = "mongo" => Mongo!AllStored /\ Mongo!OnlyFinalMarked /\ Mongo!EndsDrained
    /\ which = "mongoids" => MongoIds!AllStored /\ MongoIds!OnlyFinalMarked /\ MongoIds!EndsDrained
    /\ which = "orders" => Orders!MatchedIsDeals /\ Orders!OpenAgrees /\ Orders!CompleteIsMatched
    /\ which = "missed" => Missed!MatchedIsDeals /\ Missed!CompleteIsMatched
    /\ which = "keys" => Keys!KeysMirror
    /\ which = "abis" => Abis!KeysMirror /\ Abis!CacheFresh

(* Nothing is signed after the timeout.                                    *)
IdleLocks == [][which = "wallet" => Wallet!SignsInTime]_<<which, slots>>
=============================================================================
