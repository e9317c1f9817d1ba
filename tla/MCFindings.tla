----------------------------- MODULE MCFindings -----------------------------
(***************************************************************************)
(* Small systems in which the code does not do what its comments and       *)
(* assertions say, each with a specification of its own: a schedule that   *)
(* shrinks (module HeaderChain), two producers of which one restarts       *)
(* (Dpos), a snapshot on a fork (ProducerPlugin) and two accounts that     *)
(* share the bandwidth of the net resource (ResourceLimits).               *)
(***************************************************************************)
EXTENDS Integers, Sequences, FiniteSets

VARIABLES v1, v2, v3, v4, v5, v6, v7, v8

slots == <<v1, v2, v3, v4, v5, v6, v7, v8>>

Shrinking == INSTANCE HeaderChain WITH
    Producers <- {"p1", "p2", "p3", "p4"}, Repetitions <- 1, MaxTracked <- 1024,
    Initial <- <<"p1", "p2", "p3", "p4">>, Schedules <- {<<"p1", "p2", "p3">>},
    MaxNum <- 20, MaxMissed <- 1, Counts <- {}, Window <- 0, Lag <- 0,
    head <- v1, proposed <- v2, parent <- v3, streak <- v4

Restarting == INSTANCE Dpos WITH
    Producers <- {"p1", "p2"}, Repetitions <- 1, MaxTracked <- 1024, Initial <- <<"p1", "p2">>,
    MaxConfirm <- 65535, MaxSlot <- 14, Forks <- 1, Restarts <- 1,
    blocks <- v1, time <- v2, watermark <- v3, own <- v4, restarts <- v5

Snapshots == INSTANCE ProducerPlugin WITH
    Schedule <- <<"a", "b">>, Repetitions <- 2, Local <- {"a"}, Keys <- {"a"}, Stale <- TRUE,
    Offset <- 0, LastOffset <- -1, HeadAge <- 6, Future <- 3, LibAges <- {-1}, Start <- 1,
    MaxBlocks <- 4, MaxNow <- 5, MaxAsk <- 1, MaxFail <- 0, MaxOps <- 0,
    node <- v1, snaps <- v2, files <- v3, answers <- v4, signed <- v5, fails <- v6, ops <- v7

Charging == INSTANCE ResourceLimits WITH
    Resource <- {"net"}, Account <- {"x", "y"}, Weights <- {-1, 0, 1},
    Gmrs <- {[cpu |-> 1, net |-> 2]},
    Params <- {[target |-> 1, max |-> 2, multiplier |-> 3], [target |-> 1, max |-> 3, multiplier |-> 2]},
    Periods <- 2, Contract <- [num |-> 2, den |-> 3], Expand <- [num |-> 3, den |-> 2],
    Precision <- 10, Window <- 3, MaxBlock <- 2, MaxOps <- 2,
    limits <- v1, pending <- v2, usage <- v3, rstate <- v4, rconfig <- v5, gmr <- v6, block <- v7, ops <- v8

ShrinkingSpec ==
    /\ Shrinking!Init /\ v5 = 0 /\ v6 = 0 /\ v7 = 0 /\ v8 = 0
    /\ [][Shrinking!Next /\ UNCHANGED <<v5, v6, v7, v8>>]_slots

RestartingSpec ==
    /\ Restarting!Init /\ v6 = 0 /\ v7 = 0 /\ v8 = 0
    /\ [][Restarting!Next /\ UNCHANGED <<v6, v7, v8>>]_slots

SnapshotsSpec ==
    /\ Snapshots!ProducerInit /\ v8 = 0
    /\ [][Snapshots!ProducerNext /\ UNCHANGED v8]_slots

ChargingSpec == Charging!LimitsInit /\ [][Charging!LimitsNext]_slots
-----------------------------------------------------------------------------
(* A block is preferred to the one it builds on, as commit_block asserts    *)
(* (HeaderChain!CommittedBecomesHead).                                      *)
CommittedBecomesHead == Shrinking!CommittedBecomesHead

(* No producer confirms a height twice, after a restart either, as          *)
(* start_block's comment says (Dpos!NoDoubleConfirm).                       *)
NoDoubleConfirm == Restarting!NoDoubleConfirm

(* A snapshot that is finalized is of a block of the chain                  *)
(* (ProducerPlugin!SnapshotIsFinal).                                        *)
SnapshotIsFinal == Snapshots!SnapshotIsFinal

(* What an account may use by its limit, add_transaction_usage lets it use  *)
(* (ResourceLimits!NeverFails).                                             *)
NeverFails == Charging!NeverFails
=============================================================================
