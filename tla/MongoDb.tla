------------------------------- MODULE MongoDb -------------------------------
(***************************************************************************)
(* mongo_db_plugin: the chain's signals put entries into four queues, which *)
(* a thread of the plugin takes over in batches and writes into collections.*)
(* The two threads share a mutex and a condition variable; the flag done is *)
(* set without the mutex.  Blocks are <<number, tag>>, two tags at a number *)
(* being two forks.  The collections blocks and block_states are written    *)
(* alike and are one here.                                                  *)
(***************************************************************************)
EXTENDS Integers, Sequences

CONSTANTS
    Tag,            \* tells the blocks of one number apart
    Trx,            \* [tag -> the transactions in a block of that tag, in order]
    filter_on, filter_out,  \* sets of [receiver, action, actor], 0 for any
    Actions,        \* [transaction -> set of [receiver, action, actors]]
    start_block_num,
    update_blocks_via_block_num,
    max_queue_size,
    MaxHeight,      \* bound on the chain's height
    MaxSwitches     \* bound on the blocks that are popped

VARIABLES
    chain,     \* the tags of the applied blocks
    lib,       \* the last irreversible block's number
    switches,  \* the blocks popped so far
    main,      \* the main thread: [todo, at], the signals it is about to emit
    queues,    \* the four queues, filled by the main thread
    batch,     \* the four queues the consumer works on, and whether it took any
    consumer,  \* where consume_blocks is
    done,      \* set by the destructor
    reached,   \* start_block_reached
    failed,    \* a write failed: app().quit() was called
    blocks,    \* the documents of the collection: [num, id, final]
    trans      \* the documents of transactions: [trx, final, id]

mvars == <<chain, lib, switches, main, queues, batch, consumer, done, reached,
           failed, blocks, trans>>

Kinds == {"trace", "trx", "block", "final"}
Empty == [k \in Kinds |-> <<>>]
Signal(kind, what) == [kind |-> kind, what |-> what]
Ids == (1..MaxHeight) \X Tag
IdAt(n) == <<n, chain[n]>>
Elems(seq) == {seq[i] : i \in DOMAIN seq}
-----------------------------------------------------------------------------
(* filter_entry::match *)
match(f, receiver, action, actor) ==
    f.receiver \in {0, receiver} /\ f.action \in {0, action} /\ f.actor \in {0, actor}

(* filter_include for an action, and for a transaction. *)
Matches(filters, a) ==
    \E f \in filters, actor \in {0} \cup a.actors : match(f, a.receiver, a.action, actor)

filter_include(t) ==
    \E a \in Actions[t] : Matches(filter_on, a) /\ ~Matches(filter_out, a)
-----------------------------------------------------------------------------
MongoInit ==
    /\ chain = <<>> /\ lib = 0 /\ switches = 0
    /\ main = [todo |-> <<>>, at |-> "run"]
    /\ queues = Empty /\ batch = [work |-> Empty, took |-> FALSE]
    /\ consumer = "lock" /\ done = FALSE
    /\ reached = (start_block_num = 0) /\ failed = FALSE
    /\ blocks = {} /\ trans = {}

Emit(signals) == main' = [main EXCEPT !.todo = signals]
MainIdle == main.todo = <<>> /\ main.at = "run" /\ ~done
Kept == <<queues, batch, consumer, done, reached, failed, blocks, trans>>

(* A block is applied: each of its transactions, which no block before it has,
   is accepted and leaves a trace, then the block is accepted. *)
Signals(trxs, id) ==
    [i \in 1..(2 * Len(trxs) + 1) |->
        IF i > 2 * Len(trxs) THEN Signal("block", id)
        ELSE IF i % 2 = 1 THEN Signal("trx", trxs[(i + 1) \div 2])
        ELSE Signal("trace", <<trxs[i \div 2], id>>)]

apply_block(tag) ==
    /\ MainIdle /\ Len(chain) < MaxHeight
    /\ \A n \in DOMAIN chain : Elems(Trx[chain[n]]) \cap Elems(Trx[tag]) = {}
    /\ chain' = Append(chain, tag)
    /\ Emit(Signals(Trx[tag], <<Len(chain) + 1, tag>>))
    /\ UNCHANGED <<lib, switches, Kept>>

pop_block ==
    /\ MainIdle /\ Len(chain) > lib /\ switches < MaxSwitches
    /\ chain' = SubSeq(chain, 1, Len(chain) - 1) /\ switches' = switches + 1
    /\ UNCHANGED <<lib, main, Kept>>

irreversible_block ==
    /\ MainIdle /\ lib < Len(chain)
    /\ lib' = lib + 1
    /\ Emit(<<Signal("final", IdAt(lib + 1))>>)
    /\ UNCHANGED <<chain, switches, Kept>>
-----------------------------------------------------------------------------
Next1 == Head(main.todo)

(* accepted_block: the flag is set before the block is queued. *)
MutReachLate(s) == s.kind = "block" /\ s.what[1] > start_block_num

Reaches(s) == s.kind = "block" /\ s.what[1] >= start_block_num

(* The mutex is free: the consumer holds it only from its look at the queues
   until it waits or takes them. *)
Free == consumer # "checked"

Push(s) == queues' = [queues EXCEPT ![s.kind] = Append(@, s.what)]

(* notify_one wakes the consumer if it waits by now, and is lost if not. *)
MutNoNotify == consumer

Notified == IF consumer = "waiting" THEN "lock" ELSE consumer

(* queue, with room: the entry is added under the mutex. *)
queue ==
    /\ main.at = "run" /\ main.todo # <<>> /\ Free
    /\ Len(queues[Next1.kind]) <= max_queue_size
    /\ reached' = (reached \/ Reaches(Next1))
    /\ Push(Next1)
    /\ main' = [todo |-> Tail(main.todo), at |-> "notify"]
    /\ UNCHANGED <<chain, lib, switches, batch, consumer, done, failed, blocks, trans>>

(* queue, without: the consumer is notified and the thread sleeps once. *)
queue_full ==
    /\ main.at = "run" /\ main.todo # <<>> /\ Free
    /\ Len(queues[Next1.kind]) > max_queue_size
    /\ reached' = (reached \/ Reaches(Next1))
    /\ consumer' = Notified
    /\ main' = [main EXCEPT !.at = "sleep"]
    /\ UNCHANGED <<chain, lib, switches, queues, batch, done, failed, blocks, trans>>

queue_slept ==
    /\ main.at = "sleep" /\ Free
    /\ Push(Next1)
    /\ main' = [todo |-> Tail(main.todo), at |-> "notify"]
    /\ UNCHANGED <<chain, lib, switches, batch, consumer, done, reached, failed, blocks, trans>>

notify_one ==
    /\ main.at = "notify"
    /\ consumer' = Notified
    /\ main' = [main EXCEPT !.at = IF done THEN "join" ELSE "run"]
    /\ UNCHANGED <<chain, lib, switches, queues, batch, done, reached, failed, blocks, trans>>

(* ~mongo_db_plugin_impl, after the signals are disconnected. *)
plugin_shutdown ==
    /\ MainIdle
    /\ done' = TRUE
    /\ main' = [main EXCEPT !.at = "notify"]
    /\ UNCHANGED <<chain, lib, switches, queues, batch, consumer, reached, failed, blocks, trans>>
-----------------------------------------------------------------------------
(* consume_blocks, under the mutex: wait if there is nothing to do, *)
check ==
    /\ consumer = "lock" /\ queues = Empty /\ ~done
    /\ consumer' = "checked"
    /\ UNCHANGED <<chain, lib, switches, main, queues, batch, done, reached, failed, blocks, trans>>

wait ==
    /\ consumer = "checked" /\ consumer' = "waiting"
    /\ UNCHANGED <<chain, lib, switches, main, queues, batch, done, reached, failed, blocks, trans>>

(* or take over the queues. *)
capture ==
    /\ consumer = "lock" /\ (queues # Empty \/ done)
    /\ batch' = [work |-> queues, took |-> queues # Empty]
    /\ queues' = Empty
    /\ consumer' = "work"
    /\ UNCHANGED <<chain, lib, switches, main, done, reached, failed, blocks, trans>>

(* The order in which a batch is worked on. *)
MutFinalFirst == <<"trace", "trx", "final", "block">>

Order == <<"trace", "trx", "block", "final">>

Turn == CHOOSE i \in 1..4 : batch.work[Order[i]] # <<>> /\
                     \A j \in 1..(i - 1) : batch.work[Order[j]] = <<>>

(* update_one with upsert: the document of this key is changed or made. *)
Same(doc, id) ==
    IF update_blocks_via_block_num THEN doc.num = id[1] ELSE doc.id = id

MutNewDocument(docs, id) ==
    docs \cup {[num |-> id[1], id |-> id, final |-> FALSE]}

Stored(docs, id) ==
    IF \E d \in docs : Same(d, id)
    THEN {IF Same(d, id) THEN [d EXCEPT !.id = id] ELSE d : d \in docs}
    ELSE docs \cup {[num |-> id[1], id |-> id, final |-> FALSE]}

(* _process_irreversible_block: a block that is not there is stored first. *)
Finalized(docs, id) ==
    LET there == IF \E d \in docs : d.id = id THEN docs ELSE Stored(docs, id)
    IN  {IF d.id = id THEN [d EXCEPT !.final = TRUE] ELSE d : d \in there}

Accepted(t) ==
    IF filter_include(t) /\ \A d \in trans : d.trx # t
    THEN trans \cup {[trx |-> t, final |-> FALSE, id |-> <<>>]}
    ELSE trans

(* Its transactions are updated without upsert. *)
MarkedIn(id) ==
    {IF d.trx \in Elems(Trx[id[2]]) THEN [d EXCEPT !.final = TRUE, !.id = id] ELSE d : d \in trans}

Process(kind, what) ==
    /\ blocks' = CASE kind = "block" /\ reached -> Stored(blocks, what)
                   [] kind = "final" /\ reached -> Finalized(blocks, what)
                   [] OTHER -> blocks
    /\ trans' = CASE kind = "trx" /\ reached -> Accepted(what)
                  [] kind = "final" /\ reached -> MarkedIn(what)
                  [] OTHER -> trans

(* process_applied_transaction and its three siblings, for the next entry. *)
process ==
    /\ consumer = "work" /\ batch.work # Empty
    /\ LET kind == Order[Turn] IN
       /\ Process(kind, Head(batch.work[kind]))
       /\ batch' = [batch EXCEPT !.work[kind] = Tail(@)]
    /\ UNCHANGED <<chain, lib, switches, main, queues, consumer, done, reached, failed>>

(* A write throws: handle_mongo_exception asks for the end of the program. *)
process_fails ==
    /\ consumer = "work" /\ batch.work # Empty /\ ~failed
    /\ batch' = [batch EXCEPT !.work[Order[Turn]] = Tail(@)]
    /\ failed' = TRUE
    /\ UNCHANGED <<chain, lib, switches, main, queues, consumer, done, reached, blocks, trans>>

MutEndWithWork == done

Ends == done /\ ~batch.took

batch_end ==
    /\ consumer = "work" /\ batch.work = Empty
    /\ consumer' = IF Ends THEN "ended" ELSE "lock"
    /\ UNCHANGED <<chain, lib, switches, main, queues, batch, done, reached, failed, blocks, trans>>

MongoNext ==
    \/ \E tag \in Tag : apply_block(tag)
    \/ pop_block \/ irreversible_block
    \/ queue \/ queue_full \/ queue_slept \/ notify_one \/ plugin_shutdown
    \/ check \/ wait \/ capture
    \/ process \/ process_fails \/ batch_end

MongoSpec == MongoInit /\ [][MongoNext]_mvars
-----------------------------------------------------------------------------
MongoTypeOK ==
    /\ chain \in Seq(Tag) /\ lib <= Len(chain)
    /\ main.at \in {"run", "sleep", "notify", "join"}
    /\ consumer \in {"lock", "checked", "waiting", "work", "ended"}
    /\ \A d \in blocks : d.num = d.id[1]
    /\ \A d, e \in blocks : (IF update_blocks_via_block_num THEN d.num = e.num ELSE d.id = e.id) => d = e

(* The consumer never sleeps over an entry: when it waits, the queues are empty
   or the thread that filled them is about to notify it (queue,
   consume_blocks).  It may sleep over done, which is set without the mutex. *)
NoLostWakeup ==
    consumer = "waiting" /\ main.at # "notify" => queues = Empty

(* Once all entries are processed, every block of the chain from the first one
   that is asked for is stored, the final ones are marked and so are their
   transactions, but those of the first block, which may come before the block
   that sets the flag (accepted_block, _process_irreversible_block). *)
Settled == main.todo = <<>> /\ queues = Empty /\ batch.work = Empty /\ ~failed

AllStored ==
    Settled =>
    /\ \A n \in DOMAIN chain : n >= start_block_num =>
         \E d \in blocks : d.id = IdAt(n) /\ (d.final \/ n > lib)
    /\ \A n \in 1..lib : n > start_block_num =>
         \A t \in Elems(Trx[chain[n]]) : filter_include(t) =>
             \E d \in trans : d.trx = t /\ d.final /\ chain[d.id[1]] = d.id[2]

(* What is marked irreversible is: no document that a fork's block has taken
   over keeps the mark (consume_blocks, _process_accepted_block). *)
OnlyFinalMarked ==
    \A d \in blocks : d.final => d.num <= lib /\ d.id = IdAt(d.num)

(* The thread that is joined has written all that was queued (consume_blocks,
   ~mongo_db_plugin_impl). *)
EndsDrained == consumer = "ended" => queues = Empty /\ batch.work = Empty /\ main.todo = <<>>
=============================================================================
