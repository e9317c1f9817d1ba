------------------------ MODULE IncomingTransactions ------------------------
(***************************************************************************)
(* The way of a submitted transaction through the producer plugin: its keys *)
(* are recovered on a thread pool, it is pushed into the pending block or   *)
(* queued until there is room, and when the pending block is given up it    *)
(* waits among the controller's unapplied transactions to be applied again. *)
(* Block times and expirations are numbers on one clock.  start_block's     *)
(* loops take several steps here, in which nothing else runs.               *)
(***************************************************************************)
EXTENDS Integers, Sequences, FiniteSets, SequencesExt

CONSTANTS
    Trx,          \* the transactions
    Expiration,   \* [Trx -> Nat]: the last block time they may run at
    Ratio,        \* _incoming_defer_ratio: submissions per scheduled transaction
    MaxDue,       \* bound on the scheduled transactions due in a block
    MaxRequests,  \* bound on the submissions
    MaxTime       \* bound on the block time

VARIABLES
    producers,   \* ~_producers.empty(): this node may produce
    requests,    \* the submissions made so far: [trx, persist]
    pool,        \* the submissions whose keys are still being recovered
    queue,       \* _pending_incoming_transactions
    answers,     \* how often next() was called for each submission
    persistent,  \* _persistent_transactions
    unapplied,   \* controller_impl::unapplied_transactions
    failed,      \* transactions that failed when they were applied
    chain,       \* the blocks from the last irreversible one to the head: [time, trxs]
    block,       \* the pending block: [mode, time, trxs]
    weight,      \* _incoming_trx_weight
    step         \* where start_block is: [at, todo, due, left, exhausted]

ivars == <<producers, requests, pool, queue, answers, persistent, unapplied,
           failed, chain, block, weight, step>>

NoBlock == [mode |-> "none", time |-> 0, trxs |-> <<>>]
Idle == [at |-> "idle", todo |-> {}, due |-> 0, left |-> 0, exhausted |-> FALSE]

HeadTime == Last(chain).time
Trxs(blocks) == UNION {Range(blocks[i].trxs) : i \in DOMAIN blocks}

(* transaction_object: kept from the push until a block later than the
   expiration is started (clear_expired_input_transactions). *)
MutClearEarly(t, blocks, at) == t \in Trxs(blocks) /\ Expiration[t] > at

Recorded(t, blocks, at) == t \in Trxs(blocks) /\ Expiration[t] >= at

Known(t) == Recorded(t, Append(chain, block), block.time)
-----------------------------------------------------------------------------
(* controller_impl::push_transaction into the pending block: a transaction that
   has expired or is recorded already fails; any other one may succeed, fail for
   all nodes, or not fit into this block. *)
Outcomes(t) ==
    IF Expiration[t] < block.time \/ Known(t) THEN {"fails"} ELSE {"ok", "fails", "full"}

Pushed(t, result) ==
    /\ block' = IF result = "ok" THEN [block EXCEPT !.trxs = Append(@, t)] ELSE block
    /\ unapplied' = IF result = "full" THEN unapplied ELSE unapplied \ {t}
    /\ failed' = IF result = "fails" THEN failed \cup {t} ELSE failed

Answered(r) == answers' = [answers EXCEPT ![r] = @ + 1]

(* A submission that does not fit is queued again, behind the others. *)
MutForgetFull(q, r) == q

Requeued(q, r) == Append(q, r)

(* process_incoming_transaction_async for the submission r, with q the queue
   it was taken from. *)
process_incoming(r, q) ==
    LET t == requests[r].trx IN
    IF block = NoBlock
    THEN queue' = Append(q, r) /\ UNCHANGED <<answers, persistent, unapplied, failed, block>>
    ELSE IF Expiration[t] < block.time \/ Known(t)
    THEN queue' = q /\ Answered(r) /\ UNCHANGED <<persistent, unapplied, failed, block>>
    ELSE \E result \in Outcomes(t) :
           /\ Pushed(t, result)
           /\ IF result = "full" THEN queue' = Requeued(q, r) /\ UNCHANGED answers
              ELSE queue' = q /\ Answered(r)
           /\ persistent' = IF result = "ok" /\ requests[r].persist
                            THEN persistent \cup {t} ELSE persistent
-----------------------------------------------------------------------------
IncomingInit ==
    /\ producers \in BOOLEAN
    /\ requests = <<>> /\ pool = {} /\ queue = <<>> /\ answers = <<>>
    /\ persistent = {} /\ unapplied = {} /\ failed = {}
    /\ chain = <<[time |-> 0, trxs |-> <<>>]>> /\ block = NoBlock /\ weight = 0 /\ step = Idle

(* on_incoming_transaction_async: key recovery starts on the thread pool. *)
submit(t, persist) ==
    /\ Len(requests) < MaxRequests
    /\ requests' = Append(requests, [trx |-> t, persist |-> persist])
    /\ pool' = pool \cup {Len(requests)'}
    /\ answers' = Append(answers, 0)
    /\ UNCHANGED <<producers, queue, persistent, unapplied, failed, chain, block, weight, step>>

(* The pool posts a submission to the main thread, in whatever order. *)
recovered(r) ==
    /\ step = Idle /\ r \in pool
    /\ pool' = pool \ {r}
    /\ process_incoming(r, queue)
    /\ UNCHANGED <<producers, requests, chain, weight, step>>

(* controller_impl::abort_block *)
AfterAbort == unapplied \cup Range(block.trxs)

(* The persisted transactions that start_block drops: those that expire by the
   block's time, and no more than an exhausted deadline leaves time for. *)
Expirable(at) == {t \in persistent : Expiration[t] <= at}

MutClearAll(kept) == ~producers

ClearsUnapplied(kept) == ~producers /\ kept = {}

(* start_block up to its loops: the pending block is given up, a new one is
   started, and a node that needs no unapplied transactions drops them.  Past its
   deadline none of the loops does anything. *)
start_block(at, mode) ==
    /\ step = Idle /\ at \in (HeadTime + 1)..MaxTime
    /\ mode = "producing" => producers
    /\ \E expired \in SUBSET Expirable(at), late \in BOOLEAN :
         /\ ~late => expired = Expirable(at)
         /\ expired # Expirable(at) => late
         /\ persistent' = persistent \ expired
         /\ unapplied' = IF ClearsUnapplied(persistent \ expired) THEN {} ELSE AfterAbort
         /\ step' = IF late THEN Idle
                    ELSE [Idle EXCEPT !.at = "unapplied", !.todo = unapplied', !.left = Len(queue)]
    /\ block' = [mode |-> mode, time |-> at, trxs |-> <<>>]
    /\ UNCHANGED <<producers, requests, pool, queue, answers, failed, chain, weight>>

(* chain.start_block or produce_block throws: the pending block is given up and
   no new one is there. *)
start_fails ==
    /\ step = Idle /\ block # NoBlock
    /\ unapplied' = AfterAbort /\ block' = NoBlock
    /\ UNCHANGED <<producers, requests, pool, queue, answers, persistent, failed, chain, weight, step>>

Droppable(t) ==
    \/ Expiration[t] < block.time
    \/ t \notin persistent /\ ~producers

Appliable(t) ==
    ~Droppable(t) /\ (t \in persistent \/ block.mode = "producing")

(* One round of the loop over the unapplied transactions. *)
apply_unapplied(t) ==
    /\ step.at = "unapplied" /\ ~step.exhausted /\ t \in step.todo
    /\ \/ /\ Droppable(t)
          /\ unapplied' = unapplied \ {t}
          /\ step' = [step EXCEPT !.todo = @ \ {t}]
          /\ UNCHANGED <<block, failed>>
       \/ /\ Appliable(t)
          /\ \E result \in Outcomes(t) :
               /\ Pushed(t, result)
               /\ step' = [step EXCEPT !.todo = @ \ {t}, !.exhausted = result = "full"]
       \/ /\ ~Droppable(t) /\ ~Appliable(t)
          /\ step' = [step EXCEPT !.todo = @ \ {t}]
          /\ UNCHANGED <<block, unapplied, failed>>
    /\ UNCHANGED <<producers, requests, pool, queue, answers, persistent, chain, weight>>

(* The loop ends; also when a transaction did not fit, a producer goes on with the
   scheduled transactions that are due. *)
end_unapplied(due) ==
    /\ step.at = "unapplied" /\ (step.todo = {} \/ step.exhausted)
    /\ step' = [step EXCEPT !.at = "scheduled", !.due = IF block.mode = "producing" THEN due ELSE 0]
    /\ UNCHANGED <<producers, requests, pool, queue, answers, persistent, unapplied,
                   failed, chain, block, weight>>

(* As many are taken as were queued when start_block began: among the scheduled
   transactions by their weight, and after them. *)
Takes ==
    /\ step.left > 0 /\ queue # <<>>
    /\ step.at = "queue" \/ (step.at = "scheduled" /\ step.due > 0 /\ weight >= 1)

take_incoming ==
    /\ Takes
    /\ process_incoming(Head(queue), Tail(queue))
    /\ step' = [step EXCEPT !.left = @ - 1]
    /\ weight' = IF step.at = "scheduled" THEN weight - 1 ELSE weight
    /\ UNCHANGED <<producers, requests, pool, chain>>

(* push_scheduled_transaction; one that does not fit ends the loop. *)
push_scheduled(fits) ==
    /\ step.at = "scheduled" /\ step.due > 0 /\ ~Takes
    /\ step' = IF fits THEN [step EXCEPT !.due = @ - 1]
               ELSE [step EXCEPT !.due = 0, !.exhausted = TRUE]
    /\ weight' = IF ~fits THEN weight ELSE IF step.left = 0 THEN 0 ELSE weight + Ratio
    /\ UNCHANGED <<producers, requests, pool, queue, answers, persistent, unapplied,
                   failed, chain, block>>

end_scheduled ==
    /\ step.at = "scheduled" /\ step.due = 0
    /\ IF step.exhausted THEN step' = Idle /\ UNCHANGED weight
       ELSE step' = [step EXCEPT !.at = "queue"] /\ weight' = 0
    /\ UNCHANGED <<producers, requests, pool, queue, answers, persistent, unapplied,
                   failed, chain, block>>

(* start_block ends with the queue, or at the block's deadline in any loop: what is
   queued waits on. *)
end_start ==
    /\ step # Idle /\ step' = Idle
    /\ UNCHANGED <<producers, requests, pool, queue, answers, persistent, unapplied,
                   failed, chain, block, weight>>

(* maybe_produce_block: the block becomes the head. *)
produce_block ==
    /\ step = Idle /\ block.mode = "producing"
    /\ chain' = Append(chain, [time |-> block.time, trxs |-> block.trxs])
    /\ block' = NoBlock
    /\ UNCHANGED <<producers, requests, pool, queue, answers, persistent, unapplied, failed, weight, step>>

(* on_incoming_block: the pending block is given up; blocks that are not on the
   received one's branch are popped, and its transactions are pushed. *)
MutKeepApplied(after, trxs) == after

LeftUnapplied(after, trxs) == after \ Range(trxs)

on_incoming_block(base, at, trxs) ==
    /\ step = Idle
    /\ base \in DOMAIN chain /\ at \in (chain[base].time + 1)..MaxTime
    /\ \A t \in Range(trxs) :
         Expiration[t] >= at /\ ~Recorded(t, SubSeq(chain, 1, base), at)
    /\ unapplied' = LeftUnapplied(AfterAbort \cup Trxs(SubSeq(chain, base + 1, Len(chain))), trxs)
    /\ chain' = Append(SubSeq(chain, 1, base), [time |-> at, trxs |-> trxs])
    /\ block' = NoBlock
    /\ UNCHANGED <<producers, requests, pool, queue, answers, persistent, failed, weight, step>>

IncomingNext ==
    \/ \E t \in Trx, persist \in BOOLEAN : submit(t, persist)
    \/ \E r \in 1..MaxRequests : recovered(r)
    \/ \E at \in 1..MaxTime, mode \in {"producing", "speculating"} : start_block(at, mode)
    \/ start_fails
    \/ \E t \in Trx : apply_unapplied(t)
    \/ \E due \in 0..MaxDue : end_unapplied(due)
    \/ take_incoming
    \/ \E fits \in BOOLEAN : push_scheduled(fits)
    \/ end_scheduled
    \/ end_start
    \/ produce_block
    \/ \E base \in 1..(MaxTime + 1), at \in 1..MaxTime, trxs \in {<<>>} \cup {<<t>> : t \in Trx} :
         on_incoming_block(base, at, trxs)

IncomingSpec == IncomingInit /\ [][IncomingNext]_ivars
-----------------------------------------------------------------------------
IncomingTypeOK ==
    /\ producers \in BOOLEAN
    /\ requests \in Seq([trx : Trx, persist : BOOLEAN]) /\ Len(requests) <= MaxRequests
    /\ pool \subseteq DOMAIN requests /\ Range(queue) \subseteq DOMAIN requests
    /\ DOMAIN answers = DOMAIN requests
    /\ persistent \subseteq Trx /\ unapplied \subseteq Trx /\ failed \subseteq Trx
    /\ weight \in 0..(1 + Ratio)
    /\ step.at \in {"idle", "unapplied", "scheduled", "queue"}

(* Whoever submits a transaction is answered once: while the keys are recovered
   or the submission is queued not yet, after that never again, and none is
   lost by blocks that are full, late or given up
   (process_incoming_transaction_async, start_block). *)
AnsweredOnce ==
    /\ IsInjective(queue) /\ pool \cap Range(queue) = {}
    /\ \A r \in DOMAIN requests :
         answers[r] = IF r \in pool \cup Range(queue) THEN 0 ELSE 1

(* No transaction is in two blocks of the chain, although its record is dropped
   once it has expired (clear_expired_input_transactions, validate_expiration). *)
NotTwice ==
    LET all == Append(chain, block)
        applied == FlattenSeq([i \in DOMAIN all |-> all[i].trxs])
    IN  IsInjective(applied)

(* A transaction accepted with the promise to be kept until it expires is in a
   block or waits to be applied again, unless it failed since
   (_persistent_transactions, abort_block, pop_block). *)
PersistedIsKept ==
    \A t \in persistent :
        t \in unapplied \cup failed \cup Trxs(Append(chain, block))

(* What waits to be applied again is in no block of the chain
   (push_transaction, unapplied_transactions.erase). *)
WaitsOnlyUnapplied == unapplied \cap Trxs(Append(chain, block)) = {}
=============================================================================
