---------------------------- MODULE MCConsensus ----------------------------
(***************************************************************************)
(* Consensus, four systems in one state space, of which a behaviour runs  *)
(* one:                                                                    *)
(*  - forks: four producers that fork and restart (module Dpos);           *)
(*  - changing: a chain of headers whose schedule changes, with a table of *)
(*    confirmations so small that it overflows (module HeaderChain);       *)
(*  - resizing: a chain of headers under four producers, of which one is   *)
(*    replaced or removed;                                                 *)
(*  - steady: a chain of headers under one schedule, long enough to see    *)
(*    the LIB keep up.                                                     *)
(***************************************************************************)
EXTENDS Dpos

Three == <<"p1", "p2", "p3">>
Four == <<"p1", "p2", "p3", "p4">>

VARIABLES which, head, proposed, parent, streak

header_vars == <<head, proposed, parent, streak>>

Changing == INSTANCE HeaderChain WITH
    Producers <- {"p1", "p2", "p3"}, MaxTracked <- 3, Initial <- <<"p1">>,
    Schedules <- {<<>>, <<"p1", "p2">>, <<"p2">>}, MaxNum <- 9, MaxMissed <- 1,
    Counts <- {0, 1, 2}, Window <- 0, Lag <- 5

Resizing == INSTANCE HeaderChain WITH
    Producers <- {"p1", "p2", "p3", "p4", "p5"}, Initial <- Four,
    Schedules <- {<<"p1", "p2", "p3">>, <<"p1", "p2", "p3", "p5">>}, MaxNum <- 15, MaxMissed <- 1,
    Counts <- {}, Window <- 0, Lag <- 0

Steady == INSTANCE HeaderChain WITH
    Producers <- {"p1", "p2", "p3"}, Initial <- Three, Schedules <- {}, MaxNum <- 13,
    MaxMissed <- 1, Counts <- {0}, Window <- 8, Lag <- 5

MCInit ==
    /\ Init
    /\ which \in {"forks", "changing", "resizing", "steady"}
    /\ CASE which = "changing" -> Changing!Init
         [] which = "resizing" -> Resizing!Init
         [] OTHER -> Steady!Init

MCNext ==
    \/ which = "forks" /\ Next /\ UNCHANGED <<which, header_vars>>
    \/ which = "changing" /\ Changing!Next /\ UNCHANGED <<which, vars>>
    \/ which = "resizing" /\ Resizing!Next /\ UNCHANGED <<which, vars>>
    \/ which = "steady" /\ Steady!Next /\ UNCHANGED <<which, vars>>

MCSpec == MCInit /\ [][MCNext]_<<which, vars, header_vars>>
-----------------------------------------------------------------------------
(* No chain of headers gets stuck on a schedule (HeaderChain!NeverWedged),  *)
(* and the LIB goes back at most behind a block that has made a smaller     *)
(* schedule active (HeaderChain!LibHolds).                                  *)
HeadersGoOn ==
    /\ which = "changing" => Changing!NeverWedged /\ Changing!LibHolds
    /\ which = "resizing" => Resizing!NeverWedged /\ Resizing!LibHolds

(* Without missed slots the LIB keeps up (HeaderChain!KeepsUp).             *)
KeepsUp == which = "steady" => Steady!KeepsUp
=============================================================================
