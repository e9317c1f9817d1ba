---------------------------- MODULE NotifyPlugin ----------------------------
(***************************************************************************)
(* notify_plugin: actions that match the filter are queued when their       *)
(* transaction is applied and posted to a URL, a first time when a block    *)
(* with the transaction is accepted and a second time when it becomes       *)
(* irreversible.                                                            *)
(*                                                                         *)
(* A transaction has Acts filtered actions, in the order of its trace.      *)
(* The multimaps are functions from transactions and actions to the number  *)
(* of queued copies.  A failing application is signalled as well, with the  *)
(* actions traced before the failure.  The controller is modelled by the order in which it emits its signals:       *)
(* a received block emits applied_transaction for each transaction, then    *)
(* accepted_block, then irreversible_block; a produced one emits            *)
(* irreversible_block before its own accepted_block.                        *)
(***************************************************************************)
EXTENDS Integers, Sequences, FiniteSets, SequencesExt

CONSTANTS
    Trx,         \* the filtered transactions
    Acts,        \* the filtered actions of each
    Undecodable, \* those whose ABI lookup fails when a message is built
    MaxHeight,   \* bound on the height of the chain
    MaxCopies,   \* bound on the copies of an action in a queue
    MaxApply     \* bound on speculative applications

VARIABLES
    action_queue,              \* copies queued for accepted_block
    irreversible_action_queue, \* copies queued for irreversible_block
    chain,    \* blocks on the node's branch, each its set of transactions
    lib,      \* how many of them are irreversible
    pending,  \* transactions of the pending block
    applies,  \* speculative applications so far (bounded)
    thrown,   \* an ABI lookup threw inside a handler
    seen,     \* history: the transactions whose copies in action_queue a failed
              \* application left, the blocks accepted before the last message
              \* of on_irreversible_block
    posted    \* the last message of on_accepted_block: [trxs, young, copies,
              \* partial]

notify_vars == <<action_queue, irreversible_action_queue, chain, lib, pending,
                 applies, thrown, seen, posted>>

Queue == [Trx -> [1..Acts -> 0..MaxCopies]]
Empty == [t \in Trx |-> [a \in 1..Acts |-> 0]]
Queued(q) == {t \in Trx : q[t] # Empty[t]}
InChain == UNION {chain[i] : i \in DOMAIN chain}

TypeOK ==
    /\ action_queue \in Queue
    /\ irreversible_action_queue \in Queue
    /\ chain \in BoundedSeq(SUBSET Trx, MaxHeight)
    /\ lib \in 0..Len(chain)
    /\ pending \subseteq Trx \ InChain
    /\ applies \in 0..MaxApply
    /\ thrown \in BOOLEAN
    /\ seen \in [partial : SUBSET Trx, swept : 0..Len(chain)]
    /\ posted \in [trxs : SUBSET Trx, young : BOOLEAN, copies : Queue, partial : SUBSET Trx]

NotifyInit ==
    /\ action_queue = Empty
    /\ irreversible_action_queue = Empty
    /\ chain = <<>>
    /\ lib = 0
    /\ pending = {}
    /\ applies = 0
    /\ thrown = FALSE
    /\ seen = [partial |-> {}, swept |-> 0]
    /\ posted = [trxs |-> {}, young |-> TRUE, copies |-> Empty, partial |-> {}]

-----------------------------------------------------------------------------
(* Handlers, as functions on the pair of queues [acc, irr].                *)

Queues == [acc |-> action_queue, irr |-> irreversible_action_queue]

(* on_action_trace: a copy of each of the first n actions into each        *)
(* multimap.                                                               *)
on_action_trace(q, t, n) ==
    LET More(copies) == [a \in 1..Acts |-> IF a <= n THEN copies[a] + 1 ELSE copies[a]]
    IN  [acc |-> [q.acc EXCEPT ![t] = More(@)], irr |-> [q.irr EXCEPT ![t] = More(@)]]

(* Mutation: an action is queued without looking for it in the queues. *)
MutAlwaysQueue(q, t, n) == on_action_trace(q, t, n)

(* on_applied_tx for a trace with n filtered actions. *)
on_applied_tx(q, t, n) ==
    IF t \notin Queued(q.acc) \/ t \notin Queued(q.irr) THEN on_action_trace(q, t, n) ELSE q

(* The transactions of a block, applied one by one. *)
ApplyAll(q, T) == FoldSet(LAMBDA t, r : on_applied_tx(r, t, Acts), q, T)

(* build_message throws at the first queued action that does not decode. *)
Throws(queue, T) == T \cap Queued(queue) \cap Undecodable # {}
build_message(queue, T) == [t \in Trx |-> IF t \in T THEN queue[t] ELSE Empty[t]]

(* Mutation: an accepted block empties both queues. *)
MutClearBoth(q, T, young) ==
    IF young /\ Throws(q.acc, T) THEN q ELSE [acc |-> Empty, irr |-> Empty]

(* on_accepted_block: the whole queue is cleared, whether or not the block *)
(* is young enough for a message; an exception skips the clearing.         *)
on_accepted_block(q, T, young) ==
    IF young /\ Throws(q.acc, T) THEN q ELSE [q EXCEPT !.acc = Empty]

(* on_irreversible_block: the whole queue is cleared after a message. *)
on_irreversible_block(q, T, young) ==
    IF young /\ ~Throws(q.irr, T) /\ T \cap Queued(q.irr) # {}
    THEN [q EXCEPT !.irr = Empty] ELSE q

(* irreversible_block for the blocks lib+1..n of a chain, in order. *)
Irreversible(q, c, n, young) ==
    FoldLeft(LAMBDA r, T : on_irreversible_block(r, T, young), q,
             SubSeq(c, lib + 1, n))

Bounded(q) == q.acc \in Queue /\ q.irr \in Queue

(* A push of the block T on the first k blocks; q are the queues at its    *)
(* on_accepted_block, q2 after the whole push, swept says that a message   *)
(* of on_irreversible_block emptied its queue.                             *)
Commit(q, q2, T, young, k, swept) ==
    /\ Bounded(q2)
    /\ action_queue' = q2.acc
    /\ irreversible_action_queue' = q2.irr
    /\ thrown' = (thrown \/ (young /\ (Throws(q.acc, T) \/ Throws(q.irr, InChain))))
    /\ seen' = [partial |-> IF q2.acc = Empty THEN {} ELSE seen.partial,
                swept |-> IF swept THEN k + 1 ELSE IF seen.swept < k THEN seen.swept ELSE k]
    /\ posted' = [trxs |-> T, young |-> young /\ ~Throws(q.acc, T),
                  copies |-> build_message(q.acc, T), partial |-> seen.partial]
-----------------------------------------------------------------------------
(* The node. *)

(* A transaction is applied to the pending block, with n filtered actions  *)
(* in its trace: all of them if it succeeds, those scheduled before the    *)
(* failure, which are signalled all the same, if not.                      *)
push_transaction(t, n, ok) ==
    /\ applies < MaxApply
    /\ t \notin InChain \cup pending
    /\ ok => n = Acts
    /\ LET q == on_applied_tx(Queues, t, n) IN
        /\ Bounded(q)
        /\ action_queue' = q.acc
        /\ irreversible_action_queue' = q.irr
        /\ seen' = IF q # Queues /\ n < Acts THEN [seen EXCEPT !.partial = @ \cup {t}] ELSE seen
    /\ pending' = IF ok THEN pending \cup {t} ELSE pending
    /\ applies' = applies + 1
    /\ UNCHANGED <<chain, lib, thrown, posted>>

(* abort_block: the pending block goes, the queues stay. *)
abort_block ==
    /\ pending # {}
    /\ pending' = {}
    /\ UNCHANGED <<action_queue, irreversible_action_queue, chain, lib, applies,
                   thrown, seen, posted>>

(* commit_block of the node's own block: irreversible_block first. *)
produce_block(n, young) ==
    /\ Len(chain) < MaxHeight
    /\ n \in lib..Len(chain)
    /\ LET q == Irreversible(Queues, chain, n, young)
       IN  Commit(q, on_accepted_block(q, pending, young), pending, young, Len(chain),
                  q # Queues)
    /\ chain' = Append(chain, pending)
    /\ lib' = n
    /\ pending' = {}
    /\ UNCHANGED applies

(* push_block of a received block on top of the first k blocks, popping    *)
(* the others: accepted_block first.                                       *)
push_block(k, T, n, young) ==
    /\ k \in lib..Len(chain)
    /\ k < MaxHeight
    /\ T \cap UNION {chain[i] : i \in 1..k} = {}
    /\ n \in lib..k
    /\ LET q == ApplyAll(Queues, T)
           c == Append(SubSeq(chain, 1, k), T)
           a == on_accepted_block(q, T, young)
           i == Irreversible(a, c, n, young)
       IN  /\ Bounded(q)
           /\ Commit(q, i, T, young, k, i # a)
           /\ chain' = c
    /\ lib' = n
    /\ pending' = {}
    /\ UNCHANGED applies

NotifyNext ==
    \/ \E t \in Trx, n \in 0..Acts, ok \in BOOLEAN : push_transaction(t, n, ok)
    \/ abort_block
    \/ \E n \in 0..MaxHeight, young \in BOOLEAN : produce_block(n, young)
    \/ \E k, n \in 0..MaxHeight, T \in SUBSET Trx, young \in BOOLEAN :
            push_block(k, T, n, young)

NotifySpec == NotifyInit /\ [][NotifyNext]_notify_vars

-----------------------------------------------------------------------------
(* The message on_accepted_block posts for a young block holds each        *)
(* filtered action of the block exactly once and no other, whatever was    *)
(* applied to pending blocks, dropped, or replayed on another fork before, *)
(* as long as no ABI lookup threw: on_applied_tx tests both queues and     *)
(* irreversible_block may empty one of them, so this rests on the order of *)
(* the controller's signals.  A transaction that failed since the last     *)
(* accepted block, after some of its actions were traced, is the           *)
(* exception: the trace of its later success is skipped, and the message   *)
(* lacks the other actions, but holds none twice.                          *)
AcceptedOnce ==
    posted.young /\ ~thrown =>
        \A t \in Trx, a \in 1..Acts :
            LET copies == posted.copies[t][a]
            IN  /\ t \notin posted.trxs => copies = 0
                /\ t \in posted.trxs \ posted.partial => copies = 1
                /\ copies <= 1

(* A reversible transaction has actions queued for its irreversible        *)
(* notification if its block was accepted after the last message of        *)
(* on_irreversible_block: that message empties the queue for the blocks    *)
(* that are still reversible too, but nothing applied, dropped or popped   *)
(* since takes an entry away, and a transaction that comes back on another *)
(* branch is queued again.                                                 *)
AwaitsFinality ==
    ~thrown => \A i \in seen.swept + 1..Len(chain) :
                    i > lib => chain[i] \subseteq Queued(irreversible_action_queue)
=============================================================================
