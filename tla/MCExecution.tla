---------------------------- MODULE MCExecution ---------------------------
(***************************************************************************)
(* What a node does with transactions and their actions, in one state      *)
(* space of which a behaviour runs one part: modules Deferred,             *)
(* Authorization, ProtocolFeatures, ContractTables, ActionExecution,       *)
(* TransactionLimits, Merkle.                                              *)
(***************************************************************************)
EXTENDS Integers, Sequences, FiniteSets, TLC

VARIABLES
    which,  \* the part that runs
    v1, v2, v3, v4, v5, v6, v7, v8, v9  \* its variables

slots == <<v1, v2, v3, v4, v5, v6, v7, v8, v9>>

(* The authorities, features and actions of the instances. *)
key(k, w) == [kind |-> "key", what |-> k, weight |-> w]
account(a, p, w) == [kind |-> "account", what |-> <<a, p>>, weight |-> w]
wait(d, w) == [kind |-> "wait", what |-> d, weight |-> w]
of(threshold, factors) == [threshold |-> threshold, factors |-> factors]
rule(enabled, earliest, needs, deps) ==
    [enabled |-> enabled, earliest |-> earliest, needs |-> needs, deps |-> deps]
action(code, auth) == [account |-> code, auth |-> auth]
Sent ==
    {[free |-> <<action("b", <<>>)>>, acts |-> <<action("a", <<"b", "b">>)>>],
     [free |-> <<>>, acts |-> <<action("a", <<"b">>), action("b", <<"a">>)>>]}

Generated == INSTANCE Deferred WITH
    Contract <- "c", Payer <- {"c", "u"}, SenderId <- {1}, Delays <- {0, 1}, Window <- 1,
    MaxTrx <- 3, MaxTime <- 2,
    db <- v1, head <- v2, now <- v3, phase <- v4, cursor <- v5, served <- v6,
    blacklist <- v7, made <- v8

Permissions == INSTANCE Authorization WITH
    Account <- {"a", "b", "c"}, Actor <- {"a"}, Linked <- {"b"}, Key <- {"k", "m"}, Extra <- {"p"},
    Type <- {"", "t"}, Code <- {"h"}, CodeSize <- [h |-> 1, i |-> 2], AbiSizes <- {4}, OnlyExisting <- TRUE,
    Authorities <- {of(2, <<wait(1, 1), key("m", 1), account("a", "p", 1)>>),
                    of(2, <<account("a", "p", 2), account("b", "active", 2)>>),
                    of(1, <<account("a", "active", 2), key("m", 1)>>)},
    NewAuthority <- {of(1, <<account("c", "active", 1), key("k", 1)>>)},
    Initial <- [a |-> [owner  |-> of(1, <<key("k", 1)>>),
                       active |-> of(1, <<account("b", "active", 2), key("k", 1)>>)],
                b |-> [owner  |-> of(1, <<key("m", 1)>>), active |-> of(1, <<key("k", 1)>>)]],
    MaxDepth <- 3, Delays <- {0, 1}, MaxDelay <- 5, MaxDelayed <- 1, MaxOps <- 3,
    perms <- v1, links <- v2, contract <- v3, refs <- v4, abi <- v5, ram <- v6,
    delayed <- v7, ops <- v8

Features == INSTANCE ProtocolFeatures WITH
    Feature <- {"p", "q", "r", "d"}, Unknown <- {"x"}, Preactivate <- "p",
    Rules <- [p |-> rule(TRUE, 1, FALSE, {}), q |-> rule(TRUE, 0, TRUE, {"p"}),
              r |-> rule(TRUE, 0, FALSE, {"p"}), d |-> rule(FALSE, 0, FALSE, {})],
    Lists <- {<<>>, <<"p">>, <<"r", "q">>, <<"r", "p">>, <<"q", "r">>, <<"p", "d">>},
    Transactions <- {<<>>, <<"q">>, <<"r">>}, Requests <- {<<"p">>, <<"r">>, <<"p", "r">>},
    Branches <- {1, 2}, MaxBlocks <- 4, MaxTime <- 3,
    chain <- v1, db <- v2, pending <- v3, manager <- v4, schedule <- v5, signaled <- v6

Tables == INSTANCE ContractTables WITH
    MayBill <- {<<"c", "d">>}, Scope <- {1}, Primary <- {1, 2}, MaxTables <- 2, MaxIters <- 2, MaxWrites <- 3,
    Code <- {"c", "d"}, Payer <- {}, Value <- {1}, MaxActions <- 2,
    tabs <- v1, nextid <- v2, rows <- v3, ram <- v4, cache <- v5, receiver <- v6,
    saved <- v7, actions <- v8, writes <- v9

Payers == INSTANCE ContractTables WITH
    MayBill <- {<<"c", "d">>}, Scope <- {1}, Primary <- {1, 2}, MaxTables <- 2, MaxIters <- 2, MaxWrites <- 3,
    Code <- {"c"}, Payer <- {"d"}, Value <- {1, 2}, MaxActions <- 1,
    tabs <- v1, nextid <- v2, rows <- v3, ram <- v4, cache <- v5, receiver <- v6,
    saved <- v7, actions <- v8, writes <- v9

Inline == INSTANCE ActionExecution WITH
    Account <- {"a", "b", "t"}, Actions <- {action("b", <<"a">>)}, FreeActions <- {action("a", <<>>)},
    Transactions <- Sent, Privileged <- {"b"}, Allowed <- {<<"a", "a">>}, Fee <- [a |-> 1, b |-> 3], Token <- "t",
    FeeModel <- TRUE, max_inline_action_depth <- 2, MaxTraces <- 6, MaxTrx <- 1,
    seqs <- v1, undo <- v2, trx <- v3, traces <- v4, contexts <- v5, executed <- v6,
    block <- v7

Sequence == INSTANCE ActionExecution WITH
    Account <- {"a", "b", "t"}, Actions <- {action("b", <<"a">>)}, FreeActions <- {action("a", <<>>)},
    Transactions <- Sent, Privileged <- {"b"}, Allowed <- {<<"a", "a">>}, Fee <- [a |-> 1, b |-> 3], Token <- "t",
    FeeModel <- FALSE, max_inline_action_depth <- 1, MaxTraces <- 3, MaxTrx <- 2,
    seqs <- v1, undo <- v2, trx <- v3, traces <- v4, contexts <- v5, executed <- v6,
    block <- v7

Signalled == INSTANCE TransactionLimits WITH
    BlockCpu <- {1, 3}, BlockNet <- {4}, MaxTrxCpu <- 3, MaxTrxNet <- 5, MinTrxCpu <- 1, HeaderCpu <- {0, 2},
    HeaderNet <- {0, 3}, AccountCpu <- {-1, 2}, AccountNet <- {-1, 3}, GreyCpu <- {-1, 0, 1}, GreyNet <- {-1, 2},
    Deadlines <- {2, 4}, FeeLimits <- {[cpu |-> 1, net |-> 2]}, MaxFees <- 2, Leeway <- 1, NetLeeway <- 1, Word <- 2, MaxTime <- 5, MaxNet <- 5, Polled <- FALSE,
    limits <- v1, ctx <- v2, now <- v3, ran <- v4

Polling == INSTANCE TransactionLimits WITH
    BlockCpu <- {1, 3}, BlockNet <- {4}, MaxTrxCpu <- 3, MaxTrxNet <- 5, MinTrxCpu <- 1, HeaderCpu <- {0, 2},
    HeaderNet <- {0, 3}, AccountCpu <- {-1, 2}, AccountNet <- {-1, 3}, GreyCpu <- {-1, 0, 1}, GreyNet <- {-1, 2},
    Deadlines <- {2, 4}, FeeLimits <- {[cpu |-> 1, net |-> 2]}, MaxFees <- 2, Leeway <- 1, NetLeeway <- 1, Word <- 2, MaxTime <- 5, MaxNet <- 5, Polled <- TRUE,
    limits <- v1, ctx <- v2, now <- v3, ran <- v4

Roots == INSTANCE Merkle WITH
    MaxLeaves <- 17,
    leaves <- v1, tree <- v2

-----------------------------------------------------------------------------
MCInit ==
    \/ which = "deferred" /\ Generated!DeferredInit /\ v9 = 0
    \/ which = "auth" /\ Permissions!AuthInit /\ v9 = 0
    \/ which = "features" /\ Features!FeaturesInit /\ v7 = 0 /\ v8 = 0 /\ v9 = 0
    \/ which = "tables" /\ Tables!TablesInit
    \/ which = "payers" /\ Payers!TablesInit
    \/ which = "actions" /\ Inline!ActionInit /\ v8 = 0 /\ v9 = 0
    \/ which = "undone" /\ Sequence!ActionInit /\ v8 = 0 /\ v9 = 0
    \/ which = "limits" /\ Signalled!LimitsInit /\ v5 = 0 /\ v6 = 0 /\ v7 = 0 /\ v8 = 0 /\ v9 = 0
    \/ which = "polled" /\ Polling!LimitsInit /\ v5 = 0 /\ v6 = 0 /\ v7 = 0 /\ v8 = 0 /\ v9 = 0
    \/ which = "merkle" /\ Roots!MerkleInit /\ v3 = 0 /\ v4 = 0 /\ v5 = 0 /\ v6 = 0 /\ v7 = 0 /\ v8 = 0 /\ v9 = 0

MCNext ==
    /\ UNCHANGED which
    /\ \/ which = "deferred" /\ Generated!DeferredNext /\ UNCHANGED <<v9>>
       \/ which = "auth" /\ Permissions!AuthNext /\ UNCHANGED <<v9>>
       \/ which = "features" /\ Features!FeaturesNext /\ UNCHANGED <<v7, v8, v9>>
       \/ which = "tables" /\ Tables!TablesNext
       \/ which = "payers" /\ Payers!TablesNext
       \/ which = "actions" /\ Inline!ActionNext /\ UNCHANGED <<v8, v9>>
       \/ which = "undone" /\ Sequence!ActionNext /\ UNCHANGED <<v8, v9>>
       \/ which = "limits" /\ Signalled!LimitsNext /\ UNCHANGED <<v5, v6, v7, v8, v9>>
       \/ which = "polled" /\ Polling!LimitsNext /\ UNCHANGED <<v5, v6, v7, v8, v9>>
       \/ which = "merkle" /\ Roots!MerkleNext /\ UNCHANGED <<v3, v4, v5, v6, v7, v8, v9>>

MCSpec == MCInit /\ [][MCNext]_<<which, slots>>
-----------------------------------------------------------------------------
(* The state of every part holds values of its types. *)
ExecutionTypeOK ==
    CASE which = "deferred" -> Generated!DeferredTypeOK
      [] which = "auth" -> Permissions!AuthTypeOK
      [] which = "features" -> Features!FeaturesTypeOK
      [] which = "tables" -> Tables!TablesTypeOK
      [] which = "payers" -> Payers!TablesTypeOK
      [] which = "actions" -> Inline!ActionTypeOK
      [] which = "undone" -> Sequence!ActionTypeOK
      [] which = "limits" -> Signalled!LimitsTypeOK
      [] which = "polled" -> Polling!LimitsTypeOK
      [] which = "merkle" -> Roots!MerkleTypeOK

(* A table is there while rows refer to it and no longer, an iterator      *)
(* leads to a row that exists, and never leaves its table. (The properties *)
(* of these names say it in full.)                                         *)
TablesHold ==
    /\ which = "tables" => Tables!TablesCounted /\ Tables!IteratorsLive /\ Tables!StaysInTable
    /\ which = "payers" => Payers!TablesCounted /\ Payers!IteratorsLive /\ Payers!StaysInTable

(* What an account is charged is what it is charged for: RAM for the rows, *)
(* permissions, links, code and generated transactions stored at its       *)
(* expense, CPU for the time a transaction ran, the fee for the actions it *)
(* ran. (The properties of these names say it in full.)                    *)
ChargesExact ==
    /\ which = "deferred" => Generated!DeferredRamExact
    /\ which = "auth" => Permissions!AuthRamExact
    /\ which = "tables" => Tables!TablesRamExact
    /\ which = "payers" => Payers!TablesRamExact
    /\ which = "actions" => Inline!FeeIsSum
    /\ which = "limits" => Signalled!BilledIsRun
    /\ which = "polled" => Polling!BilledIsRun

(* A transaction passes when its keys satisfy the authorities it names,    *)
(* the keys reported as required satisfy them, and an account's owner is   *)
(* above all its permissions. (The properties of these names say it in     *)
(* full.)                                                                  *)
AuthorityHolds ==
    /\ which = "auth" => Permissions!OwnerReaches /\ Permissions!CheckExact /\ Permissions!RequiredKeysPass

(* The node's record of activated protocol features is that of the chain   *)
(* it is on, activations come in an order the features allow, and a        *)
(* restarted node can take up the chain; the incremental Merkle tree of    *)
(* its blocks has the root of their Merkle tree. (The properties of these  *)
(* names say it in full.)                                                  *)
RecordsAgree ==
    /\ which = "features" => Features!ManagerAgrees /\ Features!ActivationsInOrder /\ Features!CanStart /\ Features!DropsOnlyActivated
    /\ which = "merkle" => Roots!RootIsMerkle /\ Roots!NodesBounded

(* Every action and notification of a transaction runs once and in order,  *)
(* under sequence numbers without gaps that a throwing transaction gives   *)
(* back; a generated transaction runs once and in time, and a completed    *)
(* pass over them leaves none that is due. (The properties of these names  *)
(* say it in full.)                                                        *)
RunsExact ==
    /\ which = "deferred" => Generated!RetiredOnce /\ Generated!RetiredInTime /\ Generated!PassServesAll
    /\ which = "actions" => Inline!SequencesExact /\ Inline!RunsInOrder /\ Inline!AncestorsRight
    /\ which = "undone" => Sequence!SequencesExact /\ Sequence!RunsInOrder /\ Sequence!AncestorsRight

(* A transaction that its producer executes is within the limits a         *)
(* validating node enforces, and one that is stopped for good is stopped   *)
(* by a limit all nodes share. (The properties of these names say it in    *)
(* full.)                                                                  *)
LimitsAgree ==
    /\ which = "limits" => Signalled!ProducedIsValid /\ Signalled!BlameIsObjective
    /\ which = "polled" => Polling!ProducedIsValid /\ Polling!BlameIsObjective

=============================================================================
