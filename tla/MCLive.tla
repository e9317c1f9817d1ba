------------------------------- MODULE MCLive -------------------------------
(***************************************************************************)
(* What must eventually happen: a behaviour runs either the relay contract *)
(* (module Relay), whose relayers get every block through, or nodes that   *)
(* synchronise their chains (module NetPlugin).                            *)
(***************************************************************************)
EXTENDS Relay

CONSTANTS b1, b2, send, other

VARIABLES
    which,          \* the system that runs
    v1, v2, v3, v4  \* the variables of NetPlugin

(* force.relay relays two blocks. *)
MCNum == [b \in Blocks |-> IF b = b2 THEN 2 ELSE 1]

MCId == [b \in Blocks |-> b]

MCActions == [b \in Blocks |-> IF b = b1 THEN <<send, other>> ELSE <<send>>]

slots == <<v1, v2, v3, v4>>

(* A chain b1..b5 that node "x" extends from b3 on, and a block f4 that     *)
(* node "y" may make on b3 when "x" makes b4.                               *)
NetBlock == {"b1", "b2", "b3", "b4", "f4", "b5"}
NetNum == [b \in NetBlock |-> CASE b = "b1" -> 1 [] b = "b2" -> 2 [] b = "b3" -> 3
                                [] b \in {"b4", "f4"} -> 4 [] b = "b5" -> 5]
NetParent == [b \in NetBlock |-> CASE b \in {"b1", "b2"} -> "b1" [] b = "b3" -> "b2"
                                   [] b \in {"b4", "f4"} -> "b3" [] b = "b5" -> "b4"]
NetLib == [b \in NetBlock |-> CASE b \in {"b1", "b2"} -> "b1" [] b \in {"b3", "f4"} -> "b2"
                                [] b \in {"b4", "b5"} -> "b3"]

(* "y" dials "x".  It is behind while "x" goes on producing and one thing   *)
(* goes wrong; or it comes back with a block of its own.  Or "y" is behind  *)
(* two peers, "u" and "v", that take turns as the source of its chunks.     *)
NetNode == {"u", "v", "x", "y"}
NetScenario ==
    LET Nodes(peers, hp, hy, budget) ==
            [head |-> [n \in NetNode |-> IF n = "y" THEN hy ELSE IF n \in peers THEN hp ELSE "b5"],
             trouble |-> budget,
             dials |-> [n \in NetNode |-> IF n = "y" THEN peers ELSE {}]]
    IN  {Nodes({"x"}, "b3", "b1", 1), Nodes({"x"}, "b4", "b1", 1),
         Nodes({"x"}, "b5", "f4", 1), Nodes({"u", "v"}, "b4", "b1", 0)}

Net == INSTANCE NetPlugin WITH
    Node <- NetNode, Order <- <<"u", "v", "x", "y">>, Block <- NetBlock, Genesis <- "b1",
    Num <- NetNum, Parent <- NetParent, Lib <- NetLib, Rank <- NetNum,
    Maker <- [b \in NetBlock |-> IF b = "f4" THEN "y" ELSE "x"], Rival <- {"f4"},
    Span <- 1, MaxBatch <- 2, Scenario <- NetScenario,
    node <- v1, wire <- v2, trouble <- v3, odd <- v4

-----------------------------------------------------------------------------
MCInit ==
    /\ Init
    /\ \/ which = "relay" /\ v1 = 0 /\ v2 = 0 /\ v3 = 0 /\ v4 = 0
       \/ which = "net" /\ Net!Init

MCNext ==
    /\ UNCHANGED which
    /\ \/ which = "relay" /\ Next /\ UNCHANGED slots
       \/ which = "net" /\ Net!Next /\ UNCHANGED vars

all == <<which, vars, slots>>

Of(w, A) == which = w /\ A /\ UNCHANGED which

(* The fairness of Relay!FairSpec and NetPlugin!FairSpec. *)
MCSpec ==
    /\ MCInit /\ [][MCNext]_all
    /\ []<>(which = "net" => \A n \in NetNode : ~Net!due(n)) \/ []<><<TRUE>>_all
    /\ WF_all(Of("relay", newchannel /\ UNCHANGED slots))
    /\ WF_all(Of("relay", (RunOnblock \/ RunOn \/ Undo) /\ UNCHANGED slots))
    /\ SF_all(Of("relay", (\E t \in Relayers, b \in Blocks : commit(t, b)) /\ UNCHANGED slots))

-----------------------------------------------------------------------------
(* A node that lacks irreversible blocks waits for an answer: a timer of    *)
(* sync_manager runs (NetPlugin!NeverStalls).                               *)
NeverStalls == which = "net" => Net!NeverStalls

(* What blk_state says a peer has, it has, and a connection that writes has *)
(* something to write (NetPlugin!SentIsKnown, NetPlugin!TypeOK).            *)
PeersTracked == which = "net" => Net!TypeOK /\ Net!SentIsKnown

(* A node and its peers end on heads the fork database prefers equally, if  *)
(* no timer comes late and no new block moves the LIB meanwhile             *)
(* (NetPlugin!Converges).                                                   *)
NodesConverge == <>[](which = "net" => Net!Agreed)
=============================================================================
