----------------------------- MODULE MongoProofs -----------------------------
(***************************************************************************)
(* Proofs about MongoDb, for any chain, forks, filters and sizes of the    *)
(* queues: the two threads never lose an entry between them, and what is   *)
(* marked irreversible is.                                                 *)
(***************************************************************************)
EXTENDS MongoDb, TLAPS

\* The transactions of a block are a sequence.
Constants == \A tag \in Tag : Trx[tag] \in Seq(Elems(Trx[tag]))
-----------------------------------------------------------------------------
(* The handshake of the threads. *)

\* The consumer waits only over empty queues, but for the entry whose
\* notification is on its way; once done is set the main thread queues nothing
\* more; and a batch that took nothing was taken when there was nothing left.
HandshakeInv ==
    /\ consumer = "checked" => queues = Empty
    /\ NoLostWakeup
    /\ done \in BOOLEAN
    /\ done => main.todo = <<>> /\ main.at \in {"notify", "join"}
    /\ consumer \in {"lock", "checked", "waiting", "work", "ended"}
    /\ consumer = "work" /\ ~batch.took => done /\ queues = Empty /\ batch.work = Empty
    /\ consumer = "ended" => done /\ queues = Empty /\ batch.work = Empty
    /\ main = [todo |-> main.todo, at |-> main.at]
    /\ main.at \in {"run", "sleep", "notify", "join"}
    /\ batch = [work |-> batch.work, took |-> batch.took]

LEMMA HandshakeStart == ASSUME MongoInit PROVE HandshakeInv
    BY ZenonT(60) DEF MongoInit, HandshakeInv, NoLostWakeup

LEMMA HandshakeStep == ASSUME HandshakeInv, [MongoNext]_mvars PROVE HandshakeInv'
<1> USE DEF HandshakeInv, NoLostWakeup
<1>1. ASSUME NEW tag \in Tag, apply_block(tag)
      PROVE  HandshakeInv'
    <2> DEFINE todo == Signals(Trx[tag], <<Len(chain) + 1, tag>>)
    <2>1. /\ ~done /\ main' = [main EXCEPT !.todo = todo]
          /\ UNCHANGED <<queues, batch, consumer, done>>
        BY <1>1 DEF apply_block, MainIdle, Emit, Kept
    <2> HIDE DEF todo
    <2> QED
        BY <2>1
<1>2. CASE pop_block
    BY <1>2 DEF pop_block, Kept
<1>3. CASE irreversible_block
    <2>1. /\ ~done /\ main' = [main EXCEPT !.todo = <<Signal("final", IdAt(lib + 1))>>]
          /\ UNCHANGED <<queues, batch, consumer, done>>
        BY <1>3 DEF irreversible_block, MainIdle, Emit, Kept
    <2> QED
        BY <2>1
<1>4. CASE queue \/ queue_slept
    <2>1. /\ main' = [todo |-> Tail(main.todo), at |-> "notify"]
          /\ consumer # "checked" /\ main.at \in {"run", "sleep"}
          /\ UNCHANGED <<batch, consumer, done>>
        BY <1>4 DEF queue, queue_slept, Free
    <2>2. ~done
        BY <2>1
    <2> QED
        BY <2>1, <2>2
<1>5. CASE queue_full
    BY <1>5 DEF queue_full, Notified, Free
<1>6. CASE notify_one
    BY <1>6 DEF notify_one, Notified
<1>7. CASE plugin_shutdown
    BY <1>7 DEF plugin_shutdown, MainIdle
<1>8. CASE check
    BY <1>8 DEF check
<1>9. CASE wait
    BY <1>9 DEF wait
<1>10. CASE capture
    BY <1>10, ZenonT(60) DEF capture
<1>11. CASE process \/ process_fails
    <2>1. /\ consumer = "work" /\ batch.work # Empty
          /\ UNCHANGED <<main, queues, consumer, done>>
        BY <1>11, Zenon DEF process, process_fails
    <2>2. batch.took
        BY <2>1
    <2>3. batch'.took = batch.took /\ batch' = [work |-> batch'.work, took |-> batch'.took]
        BY <1>11 DEF process, process_fails
    <2> QED
        BY <2>1, <2>2, <2>3
<1>12. CASE batch_end
    BY <1>12 DEF batch_end, Ends
<1>13. CASE UNCHANGED mvars
    BY <1>13 DEF mvars
<1> QED
    BY <1>1, <1>2, <1>3, <1>4, <1>5, <1>6, <1>7, <1>8, <1>9, <1>10, <1>11, <1>12, <1>13,
       Zenon DEF MongoNext

\* consume_blocks never sleeps over an entry of the queues: it looks at them and
\* begins to wait under one lock, and every push is followed by notify_one.
THEOREM ConsumerIsWoken == MongoSpec => []NoLostWakeup
<1>1. HandshakeInv => NoLostWakeup
    BY DEF HandshakeInv
<1> QED
    BY <1>1, HandshakeStart, HandshakeStep, PTL DEF MongoSpec

\* When consume_blocks returns, the queues and its last batch are empty and no
\* signal is left: nothing that was queued before the shutdown is dropped.
THEOREM ConsumerDrains == MongoSpec => []EndsDrained
<1>1. HandshakeInv => EndsDrained
    BY DEF HandshakeInv, EndsDrained
<1> QED
    BY <1>1, HandshakeStart, HandshakeStep, PTL DEF MongoSpec
-----------------------------------------------------------------------------
(* Sequences, by the sets of their elements. *)

LEMMA TailElements ==
    ASSUME NEW S, NEW s \in Seq(S), s # <<>>
    PROVE  /\ Head(s) \in S /\ Head(s) \in Elems(s)
           /\ Tail(s) \in Seq(S) /\ Elems(Tail(s)) \subseteq Elems(s)
<1>1. 1 \in DOMAIN s /\ Head(s) = s[1]
    OBVIOUS
<1>2. \A i \in DOMAIN Tail(s) : i + 1 \in DOMAIN s /\ Tail(s)[i] = s[i + 1]
    OBVIOUS
<1> QED
    BY <1>1, <1>2 DEF Elems

LEMMA AppendElements ==
    ASSUME NEW S, NEW s \in Seq(S), NEW e \in S
    PROVE  Append(s, e) \in Seq(S) /\ Elems(Append(s, e)) = Elems(s) \cup {e}
<1>1. /\ DOMAIN Append(s, e) = 1..(Len(s) + 1) /\ DOMAIN s = 1..Len(s) /\ Len(s) \in Nat
      /\ \A i \in 1..Len(s) : Append(s, e)[i] = s[i]
      /\ Append(s, e)[Len(s) + 1] = e
    OBVIOUS
<1> DEFINE t == Append(s, e)
<1>2. ASSUME NEW x \in Elems(t) PROVE x \in Elems(s) \cup {e}
    <2> PICK i \in DOMAIN t : x = t[i]
        BY <1>2 DEF Elems
    <2>1. CASE i = Len(s) + 1
        BY <1>1, <2>1
    <2>2. CASE i # Len(s) + 1
        <3>1. i \in 1..Len(s)
            BY <1>1, <2>2
        <3> QED
            BY <1>1, <3>1 DEF Elems
    <2> QED
        BY <2>1, <2>2
<1>3. ASSUME NEW x \in Elems(s) PROVE x \in Elems(t)
    <2> PICK i \in DOMAIN s : x = s[i]
        BY <1>3 DEF Elems
    <2>1. i \in DOMAIN t /\ t[i] = x
        BY <1>1
    <2> QED
        BY <2>1 DEF Elems
<1>4. e \in Elems(t)
    <2>1. Len(s) + 1 \in DOMAIN t
        BY <1>1
    <2> QED
        BY <1>1, <2>1 DEF Elems
<1> QED
    BY <1>2, <1>3, <1>4

LEMMA EmptyElements == Elems(<<>>) = {} /\ \A S : <<>> \in Seq(S)
    BY DEF Elems

-----------------------------------------------------------------------------
(* The marks. *)

TrxId == UNION {Elems(Trx[tag]) : tag \in Tag}
BlockId == Nat \X Tag
What == TrxId \cup (TrxId \X BlockId) \cup BlockId

QueueType(qs) == qs \in [Kinds -> Seq(What)]
TodoType(todo) == todo \in Seq([kind : Kinds, what : What])

\* The numbers of the accepted blocks that are still to be written.
InQueue(qs) == {id[1] : id \in Elems(qs["block"])}
InTodo(todo) == {s.what[1] : s \in {x \in Elems(todo) : x.kind = "block"}}

IsFinal(id) == id[1] \in 1..lib /\ id = IdAt(id[1])
Document(d) == d = [num |-> d.id[1], id |-> d.id, final |-> d.final] /\ d.final \in BOOLEAN

MarkType ==
    /\ chain \in Seq(Tag) /\ lib \in 0..Len(chain)
    /\ main = [todo |-> main.todo, at |-> main.at] /\ TodoType(main.todo)
    /\ main.at = "sleep" => main.todo # <<>>
    /\ QueueType(queues)
    /\ batch = [work |-> batch.work, took |-> batch.took] /\ QueueType(batch.work)

\* Behind an entry or a document that makes a block final, no accepted block of
\* its number is left to be written: none is applied at that number any more.
MarkInv ==
    /\ MarkType
    /\ \A d \in blocks : Document(d)
    /\ \A d \in blocks : d.final =>
         /\ IsFinal(d.id)
         /\ d.id[1] \notin InQueue(batch.work) \cup InQueue(queues) \cup InTodo(main.todo)
    /\ \A id \in Elems(batch.work["final"]) :
         IsFinal(id) /\ id[1] \notin InQueue(queues) \cup InTodo(main.todo)
    /\ \A id \in Elems(queues["final"]) : IsFinal(id) /\ id[1] \notin InTodo(main.todo)
    /\ \A s \in Elems(main.todo) : s.kind = "final" => IsFinal(s.what) /\ Tail(main.todo) = <<>>

LEMMA EmptyQueues ==
    /\ QueueType(Empty) /\ InQueue(Empty) = {} /\ Elems(Empty["final"]) = {}
    /\ InTodo(<<>>) = {} /\ TodoType(<<>>)
    BY EmptyElements DEF Empty, QueueType, InQueue, InTodo, TodoType, Kinds

LEMMA MarkStart == ASSUME MongoInit PROVE MarkInv
<1> USE EmptyQueues, EmptyElements DEF MongoInit
<1>1. MarkType
    BY DEF MarkType
<1> QED
    BY <1>1 DEF MarkInv

\* What is final stays so while the blocks up to the irreversible one stay.
LEMMA FinalStays ==
    ASSUME NEW id, IsFinal(id), chain \in Seq(Tag), lib \in 0..Len(chain),
           lib' \in Nat, lib' >= lib, \A n \in 1..lib : chain'[n] = chain[n]
    PROVE  IsFinal(id)'
    BY DEF IsFinal, IdAt

\* A step of the chain that leaves the queues and the documents alone, and whose
\* signals tell of no block up to the irreversible one but a final one, alone.
LEMMA ChainStep ==
    ASSUME MarkInv, MarkType', \A n \in 1..lib : chain'[n] = chain[n], lib' >= lib,
           UNCHANGED <<queues, batch, blocks>>,
           \A n \in InTodo(main'.todo) : n \notin 1..lib,
           \A s \in Elems(main'.todo) :
              s.kind = "final" => IsFinal(s.what)' /\ Tail(main'.todo) = <<>>
    PROVE  MarkInv'
<1>1. /\ chain \in Seq(Tag) /\ lib \in 0..Len(chain) /\ lib' \in Nat
    BY DEF MarkInv, MarkType
<1>2. \A id : IsFinal(id) => IsFinal(id)' /\ id[1] \notin InTodo(main'.todo)
    BY <1>1, FinalStays DEF IsFinal
<1>3. \A d \in blocks' : d.final =>
         /\ IsFinal(d.id)'
         /\ d.id[1] \notin InQueue(batch'.work) \cup InQueue(queues') \cup InTodo(main'.todo)
    BY <1>2 DEF MarkInv
<1>4. /\ \A id \in Elems(batch'.work["final"]) :
           IsFinal(id)' /\ id[1] \notin InQueue(queues') \cup InTodo(main'.todo)
      /\ \A id \in Elems(queues'["final"]) : IsFinal(id)' /\ id[1] \notin InTodo(main'.todo)
    BY <1>2 DEF MarkInv
<1>5. (\A d \in blocks : Document(d))'
    BY DEF MarkInv, Document
<1> QED
    BY <1>3, <1>4, <1>5, ZenonT(60) DEF MarkInv, InQueue, InTodo

\* The signals of a block's application.
LEMMA SignalsOfBlock ==
    ASSUME NEW tag \in Tag, NEW trxs \in Seq(Elems(Trx[tag])), NEW id \in BlockId
    PROVE  /\ TodoType(Signals(trxs, id))
           /\ InTodo(Signals(trxs, id)) \subseteq {id[1]}
           /\ \A s \in Elems(Signals(trxs, id)) : s.kind # "final"
<1> DEFINE sig == Signals(trxs, id)
           n == 2 * Len(trxs) + 1
<1>1. n \in Nat /\ DOMAIN sig = 1..n
    BY DEF Signals
<1>2. ASSUME NEW i \in 1..n
      PROVE  \/ sig[i] = Signal("block", id)
             \/ \E j \in 1..Len(trxs) : sig[i] = Signal("trx", trxs[j])
             \/ \E j \in 1..Len(trxs) : sig[i] = Signal("trace", <<trxs[j], id>>)
    <2>1. CASE i > 2 * Len(trxs)
        BY <2>1 DEF Signals
    <2>2. CASE i <= 2 * Len(trxs) /\ i % 2 = 1
        <3>1. (i + 1) \div 2 \in 1..Len(trxs)
            BY <2>2
        <3>2. sig[i] = Signal("trx", trxs[(i + 1) \div 2])
            BY <2>2 DEF Signals
        <3> QED
            BY <3>1, <3>2
    <2>3. CASE i <= 2 * Len(trxs) /\ i % 2 # 1
        <3>1. i \div 2 \in 1..Len(trxs)
            BY <2>3
        <3>2. sig[i] = Signal("trace", <<trxs[i \div 2], id>>)
            BY <2>3 DEF Signals
        <3> QED
            BY <3>1, <3>2, ZenonT(60)
    <2> QED
        BY <2>1, <2>2, <2>3
<1>3. \A j \in 1..Len(trxs) : trxs[j] \in TrxId
    BY DEF TrxId
<1>4. \A i \in 1..n : /\ sig[i] \in [kind : Kinds, what : What]
                      /\ sig[i].kind # "final"
                      /\ sig[i].kind = "block" => sig[i].what = id
    <2> SUFFICES ASSUME NEW i \in 1..n
                 PROVE  /\ sig[i] \in [kind : Kinds, what : What]
                        /\ sig[i].kind # "final"
                        /\ sig[i].kind = "block" => sig[i].what = id
        OBVIOUS
    <2> HIDE DEF sig
    <2>1. CASE sig[i] = Signal("block", id)
        BY <2>1 DEF Signal, Kinds, What
    <2>2. ASSUME NEW j \in 1..Len(trxs), sig[i] = Signal("trx", trxs[j])
          PROVE  sig[i] \in [kind : Kinds, what : What] /\ sig[i].kind = "trx"
        BY <1>3, <2>2 DEF Signal, Kinds, What
    <2>3. ASSUME NEW j \in 1..Len(trxs), sig[i] = Signal("trace", <<trxs[j], id>>)
          PROVE  sig[i] \in [kind : Kinds, what : What] /\ sig[i].kind = "trace"
        <3>1. <<trxs[j], id>> \in What
            BY <1>3 DEF What
        <3> QED
            BY <2>3, <3>1 DEF Signal, Kinds
    <2> QED
        BY <1>2, <2>1, <2>2, <2>3, ZenonT(60)
<1>5. sig \in Seq([kind : Kinds, what : What])
    <2>1. sig = [i \in 1..n |-> sig[i]]
        BY DEF Signals
    <2> HIDE DEF sig
    <2> QED
        BY <1>1, <1>4, <2>1
<1> HIDE DEF sig
<1>6. TodoType(sig)
    BY <1>5 DEF TodoType
<1>7. InTodo(sig) \subseteq {id[1]} /\ \A s \in Elems(sig) : s.kind # "final"
    BY <1>1, <1>4 DEF InTodo, Elems
<1> QED
    BY <1>6, <1>7 DEF sig

LEMMA MarkApply ==
    ASSUME Constants, MarkInv, NEW tag \in Tag, apply_block(tag)
    PROVE  MarkInv'
<1> DEFINE id == <<Len(chain) + 1, tag>>
           todo == Signals(Trx[tag], id)
<1>1. /\ chain \in Seq(Tag) /\ lib \in 0..Len(chain) /\ id \in BlockId
    BY DEF MarkInv, MarkType, BlockId
<1>2. /\ chain' = Append(chain, tag) /\ lib' = lib /\ main.at = "run"
      /\ main' = [main EXCEPT !.todo = todo]
      /\ UNCHANGED <<queues, batch, blocks>>
    BY DEF apply_block, Emit, Kept, MainIdle
<1>3. /\ TodoType(todo) /\ InTodo(todo) \subseteq {id[1]}
      /\ \A s \in Elems(todo) : s.kind # "final"
    BY <1>1, SignalsOfBlock, ZenonT(60) DEF Constants
<1> HIDE DEF todo
<1>4. MarkType'
    BY <1>1, <1>2, <1>3 DEF MarkInv, MarkType
<1>5. /\ main'.todo = todo /\ \A n \in 1..lib : chain'[n] = chain[n]
    BY <1>1, <1>2 DEF MarkInv, MarkType
<1> QED
    BY <1>1, <1>2, <1>3, <1>4, <1>5, ChainStep

LEMMA MarkPop == ASSUME MarkInv, pop_block PROVE MarkInv'
<1>1. /\ chain \in Seq(Tag) /\ lib \in 0..Len(chain) /\ Len(chain) > lib
      /\ chain' = SubSeq(chain, 1, Len(chain) - 1) /\ main.todo = <<>>
      /\ UNCHANGED <<lib, main, queues, batch, blocks>>
    BY DEF MarkInv, MarkType, pop_block, Kept, MainIdle
<1>2. chain' \in Seq(Tag) /\ Len(chain') = Len(chain) - 1 /\ \A n \in 1..lib : chain'[n] = chain[n]
    <2> DEFINE m == Len(chain) - 1
    <2>1. m \in Nat /\ m >= lib /\ \A i \in 1..m : chain[i] \in Tag
        BY <1>1
    <2>2. chain' = SubSeq(chain, 1, m)
        BY <1>1
    <2> HIDE DEF m
    <2>3. /\ SubSeq(chain, 1, m) \in Seq(Tag)
          /\ Len(SubSeq(chain, 1, m)) = IF 1 <= m THEN m - 1 + 1 ELSE 0
          /\ \A i \in 1..(m - 1 + 1) : SubSeq(chain, 1, m)[i] = chain[1 + i - 1]
        BY <2>1
    <2>4. Len(chain') = m
        BY <2>1, <2>2, <2>3
    <2>5. \A n \in 1..lib : chain'[n] = chain[n]
        BY <1>1, <2>1, <2>2, <2>3
    <2> QED
        BY <2>2, <2>3, <2>4, <2>5, ZenonT(60) DEF m
<1>3. MarkType'
    BY <1>1, <1>2 DEF MarkInv, MarkType, QueueType
<1> QED
    BY <1>1, <1>2, <1>3, ChainStep, EmptyQueues, EmptyElements

LEMMA MarkFinal == ASSUME MarkInv, irreversible_block PROVE MarkInv'
<1> PICK id : id = IdAt(lib + 1)
    OBVIOUS
<1> DEFINE todo == <<Signal("final", id)>>
<1>1. /\ chain \in Seq(Tag) /\ lib \in 0..Len(chain) /\ lib < Len(chain) /\ lib' = lib + 1
      /\ main' = [main EXCEPT !.todo = todo] /\ main.at = "run"
      /\ UNCHANGED <<chain, queues, batch, blocks>>
    BY DEF MarkInv, MarkType, irreversible_block, Kept, MainIdle, Emit
<1>2. id \in BlockId /\ IsFinal(id)'
    BY <1>1 DEF BlockId, IdAt, IsFinal
<1>3. Signal("final", id) \in [kind : Kinds, what : What]
    BY <1>2 DEF Signal, Kinds, What
<1>4. TodoType(todo) /\ Elems(todo) = {Signal("final", id)} /\ Tail(todo) = <<>>
    BY <1>3 DEF TodoType, Elems
<1> HIDE DEF todo
<1>5. InTodo(todo) = {}
    BY <1>4 DEF InTodo, Signal
<1>6. MarkType' /\ main'.todo = todo
    BY <1>1, <1>4 DEF MarkInv, MarkType, QueueType
<1>7. \A s \in Elems(main'.todo) : IsFinal(s.what)'
    BY <1>2, <1>4, <1>6 DEF Signal
<1> QED
    BY <1>1, <1>4, <1>5, <1>6, <1>7, ChainStep

\* An entry goes from the signals to its queue.
LEMMA MarkQueue == ASSUME MarkInv, queue \/ queue_slept PROVE MarkInv'
<1> PICK s : s = Head(main.todo)
    OBVIOUS
<1>1. /\ main.todo # <<>> /\ main' = [todo |-> Tail(main.todo), at |-> "notify"]
      /\ queues' = [queues EXCEPT ![s.kind] = Append(@, s.what)]
      /\ UNCHANGED <<chain, lib, batch, blocks>>
    BY ZenonT(60) DEF MarkInv, MarkType, queue, queue_slept, Push, Next1
<1>2. /\ s \in [kind : Kinds, what : What] /\ s \in Elems(main.todo)
      /\ TodoType(Tail(main.todo)) /\ Elems(Tail(main.todo)) \subseteq Elems(main.todo)
    BY <1>1, TailElements, ZenonT(60) DEF MarkInv, MarkType, TodoType
<1>3. InTodo(main'.todo) \subseteq InTodo(main.todo)
    BY <1>1, <1>2, ZenonT(60) DEF InTodo
<1>4. /\ queues[s.kind] \in Seq(What) /\ Append(queues[s.kind], s.what) \in Seq(What)
      /\ Elems(Append(queues[s.kind], s.what)) = Elems(queues[s.kind]) \cup {s.what}
    BY <1>2, AppendElements DEF MarkInv, MarkType, QueueType
<1>5. /\ QueueType(queues')
      /\ \A k \in Kinds : Elems(queues'[k]) =
             IF k = s.kind THEN Elems(queues[k]) \cup {s.what} ELSE Elems(queues[k])
    BY <1>1, <1>2, <1>4, ZenonT(60) DEF MarkInv, MarkType, QueueType
<1>6. InQueue(queues') \subseteq InQueue(queues) \cup InTodo(main.todo)
    BY <1>2, <1>5 DEF InQueue, InTodo, Kinds
<1>7. MarkType'
    BY <1>1, <1>2, <1>5, ZenonT(60) DEF MarkInv, MarkType
<1>8. \A id : IsFinal(id)' <=> IsFinal(id)
    BY <1>1, ZenonT(60) DEF IsFinal, IdAt
<1>9. \A d \in blocks' : d.final =>
         /\ IsFinal(d.id)'
         /\ d.id[1] \notin InQueue(batch'.work) \cup InQueue(queues') \cup InTodo(main'.todo)
    BY <1>1, <1>3, <1>6, <1>8, ZenonT(60) DEF MarkInv
<1>10. \A id \in Elems(batch'.work["final"]) :
           IsFinal(id)' /\ id[1] \notin InQueue(queues') \cup InTodo(main'.todo)
    BY <1>1, <1>3, <1>6, <1>8, ZenonT(60) DEF MarkInv
<1>11. \A id \in Elems(queues'["final"]) : IsFinal(id)' /\ id[1] \notin InTodo(main'.todo)
    <2>1. CASE s.kind = "final"
        <3>1. IsFinal(s.what) /\ InTodo(main'.todo) = {}
            BY <1>1, <1>2, <2>1, EmptyQueues, ZenonT(60) DEF MarkInv
        <3> QED
            BY <1>5, <1>8, <2>1, <3>1, ZenonT(60) DEF MarkInv, Kinds
    <2>2. CASE s.kind # "final"
        BY <1>3, <1>5, <1>8, <2>2, ZenonT(60) DEF MarkInv, Kinds
    <2> QED
        BY <2>1, <2>2
<1>12. \A x \in Elems(main'.todo) :
           x.kind = "final" => IsFinal(x.what)' /\ Tail(main'.todo) = <<>>
    BY <1>1, <1>2, <1>8, EmptyElements, ZenonT(60) DEF MarkInv
<1>13. (\A d \in blocks : Document(d))'
    BY <1>1, ZenonT(60) DEF MarkInv, Document
<1> QED
    BY <1>7, <1>9, <1>10, <1>11, <1>12, <1>13, ZenonT(60) DEF MarkInv, InQueue, InTodo

\* The consumer takes the queues over.
LEMMA MarkCapture ==
    ASSUME MarkInv, capture
    PROVE  MarkInv'
<1>1. /\ batch' = [work |-> queues, took |-> queues # Empty] /\ queues' = Empty
      /\ UNCHANGED <<chain, lib, main, blocks>>
    BY DEF capture
<1>2. MarkType'
    BY <1>1, EmptyQueues DEF MarkInv, MarkType
<1>3. \A id : IsFinal(id)' <=> IsFinal(id)
    BY <1>1 DEF IsFinal, IdAt
<1>4. \A d \in blocks' : d.final =>
         /\ IsFinal(d.id)'
         /\ d.id[1] \notin InQueue(batch'.work) \cup InQueue(queues') \cup InTodo(main'.todo)
    BY <1>1, <1>3, EmptyQueues, ZenonT(60) DEF MarkInv
<1>5. \A id \in Elems(batch'.work["final"]) :
           IsFinal(id)' /\ id[1] \notin InQueue(queues') \cup InTodo(main'.todo)
    BY <1>1, <1>3, EmptyQueues, ZenonT(60) DEF MarkInv
<1>6. \A id \in Elems(queues'["final"]) : IsFinal(id)' /\ id[1] \notin InTodo(main'.todo)
    BY <1>1, EmptyQueues, ZenonT(60)
<1>7. \A x \in Elems(main'.todo) :
           x.kind = "final" => IsFinal(x.what)' /\ Tail(main'.todo) = <<>>
    BY <1>1, <1>3, ZenonT(60) DEF MarkInv
<1>8. (\A d \in blocks : Document(d))'
    BY <1>1, ZenonT(60) DEF MarkInv, Document
<1> QED
    BY <1>2, <1>4, <1>5, <1>6, <1>7, <1>8, ZenonT(60) DEF MarkInv, InQueue, InTodo

\* The kind whose turn it is has an entry, and the accepted blocks of a batch
\* come before its irreversible ones.
LEMMA TurnOf ==
    ASSUME QueueType(batch.work), batch.work # Empty
    PROVE  /\ Order[Turn] \in Kinds /\ batch.work[Order[Turn]] # <<>>
           /\ Order[Turn] = "final" => batch.work["block"] = <<>>
<1> DEFINE some(i) == /\ batch.work[Order[i]] # <<>>
                      /\ \A j \in 1..(i - 1) : batch.work[Order[j]] = <<>>
<1>1. /\ Order[1] = "trace" /\ Order[2] = "trx" /\ Order[3] = "block" /\ Order[4] = "final"
    BY DEF Order
<1>2. \E k \in Kinds : batch.work[k] # <<>>
    BY DEF QueueType, Empty
<1>3. \E i \in 1..4 : some(i)
    <2>1. \E i \in 1..4 : batch.work[Order[i]] # <<>>
        BY <1>1, <1>2 DEF Kinds
    <2>2. CASE batch.work[Order[1]] # <<>>
        BY <2>2
    <2>3. CASE batch.work[Order[1]] = <<>> /\ batch.work[Order[2]] # <<>>
        <3>1. some(2)
            BY <2>3
        <3> QED
            BY <3>1
    <2>4. CASE /\ batch.work[Order[1]] = <<>> /\ batch.work[Order[2]] = <<>>
               /\ batch.work[Order[3]] # <<>>
        <3>1. some(3)
            BY <2>4
        <3> QED
            BY <3>1
    <2>5. CASE /\ batch.work[Order[1]] = <<>> /\ batch.work[Order[2]] = <<>>
               /\ batch.work[Order[3]] = <<>> /\ batch.work[Order[4]] # <<>>
        <3>1. some(4)
            BY <2>5
        <3> QED
            BY <3>1
    <2> QED
        BY <2>1, <2>2, <2>3, <2>4, <2>5
<1>4. Turn \in 1..4 /\ some(Turn)
    <2>1. Turn = CHOOSE i \in 1..4 : some(i)
        BY DEF Turn
    <2> HIDE DEF some
    <2> QED
        BY <1>3, <2>1, Zenon
<1> QED
    BY <1>1, <1>4 DEF Kinds

\* The batch without the entry that is worked on.
LEMMA WorkShrinks ==
    ASSUME MarkType, NEW kind \in Kinds, batch.work[kind] # <<>>,
           batch' = [batch EXCEPT !.work[kind] = Tail(@)]
    PROVE  /\ batch' = [work |-> batch'.work, took |-> batch'.took]
           /\ QueueType(batch'.work)
           /\ \A k \in Kinds : Elems(batch'.work[k]) \subseteq Elems(batch.work[k])
           /\ InQueue(batch'.work) \subseteq InQueue(batch.work)
           /\ Head(batch.work[kind]) \in Elems(batch.work[kind])
<1>1. /\ batch.work \in [Kinds -> Seq(What)]
      /\ batch = [work |-> batch.work, took |-> batch.took]
    BY DEF MarkType, QueueType
<1>2. /\ Head(batch.work[kind]) \in Elems(batch.work[kind])
      /\ Tail(batch.work[kind]) \in Seq(What)
      /\ Elems(Tail(batch.work[kind])) \subseteq Elems(batch.work[kind])
    BY <1>1, TailElements
<1>3. /\ batch'.work = [batch.work EXCEPT ![kind] = Tail(@)]
      /\ batch' = [work |-> batch'.work, took |-> batch'.took]
    BY <1>1, ZenonT(60)
<1>4. /\ QueueType(batch'.work)
      /\ \A k \in Kinds : Elems(batch'.work[k]) \subseteq Elems(batch.work[k])
    BY <1>1, <1>2, <1>3 DEF QueueType
<1>5. InQueue(batch'.work) \subseteq InQueue(batch.work)
    BY <1>4 DEF InQueue, Kinds
<1> QED
    BY <1>2, <1>3, <1>4, <1>5, ZenonT(60)

\* A step of the consumer: the documents it makes or marks are as they must be.
LEMMA WorkStep ==
    ASSUME MarkInv, UNCHANGED <<chain, lib, main, queues>>,
           NEW kind \in Kinds, batch.work[kind] # <<>>,
           batch' = [batch EXCEPT !.work[kind] = Tail(@)],
           \A d \in blocks' : Document(d),
           \A d \in blocks' : d.final =>
              /\ IsFinal(d.id)
              /\ d.id[1] \notin InQueue(batch.work) \cup InQueue(queues) \cup InTodo(main.todo)
    PROVE  MarkInv'
<1>1. /\ batch' = [work |-> batch'.work, took |-> batch'.took]
      /\ QueueType(batch'.work)
      /\ \A k \in Kinds : Elems(batch'.work[k]) \subseteq Elems(batch.work[k])
      /\ InQueue(batch'.work) \subseteq InQueue(batch.work)
    BY WorkShrinks, ZenonT(60) DEF MarkInv
<1>2. MarkType'
    BY <1>1, ZenonT(60) DEF MarkInv, MarkType
<1>3. \A id : IsFinal(id)' <=> IsFinal(id)
    BY DEF IsFinal, IdAt
<1>4. \A d \in blocks' : d.final =>
         /\ IsFinal(d.id)'
         /\ d.id[1] \notin InQueue(batch'.work) \cup InQueue(queues') \cup InTodo(main'.todo)
    BY <1>1, <1>3, ZenonT(60)
<1>5. \A id \in Elems(batch'.work["final"]) :
           IsFinal(id)' /\ id[1] \notin InQueue(queues') \cup InTodo(main'.todo)
    BY <1>1, <1>3, ZenonT(60) DEF MarkInv, Kinds
<1>6. /\ \A id \in Elems(queues'["final"]) : IsFinal(id)' /\ id[1] \notin InTodo(main'.todo)
      /\ \A x \in Elems(main'.todo) :
           x.kind = "final" => IsFinal(x.what)' /\ Tail(main'.todo) = <<>>
    BY <1>3 DEF MarkInv
<1>7. (\A d \in blocks : Document(d))'
    BY DEF Document
<1> QED
    BY <1>2, <1>4, <1>5, <1>6, <1>7, ZenonT(60) DEF MarkInv, InQueue, InTodo

\* An upsert leaves the final documents alone: it makes or takes over others.
LEMMA StoredDocuments ==
    ASSUME NEW docs, \A d \in docs : Document(d), NEW id,
           \A d \in docs : d.final /\ d.id[1] = id[1] => d.id = id
    PROVE  \A e \in Stored(docs, id) : Document(e) /\ (e.final => e \in docs)
<1> SUFFICES ASSUME NEW e \in Stored(docs, id)
             PROVE  Document(e) /\ (e.final => e \in docs)
    OBVIOUS
<1>1. CASE e = [num |-> id[1], id |-> id, final |-> FALSE]
    BY <1>1 DEF Document
<1>2. CASE e \in docs
    BY <1>2
<1>3. ASSUME NEW d \in docs, Same(d, id), e = [d EXCEPT !.id = id]
      PROVE  Document(e) /\ (e.final => e \in docs)
    <2>1. d = [num |-> d.id[1], id |-> d.id, final |-> d.final] /\ d.final \in BOOLEAN
        BY DEF Document
    <2>2. d.id[1] = id[1]
        BY <1>3, <2>1 DEF Same
    <2>3. e = [num |-> id[1], id |-> id, final |-> d.final]
        BY <1>3, <2>1, <2>2
    <2>4. d.final => e = d
        BY <2>1, <2>2, <2>3
    <2> QED
        BY <2>1, <2>3, <2>4 DEF Document
<1>4. \/ e = [num |-> id[1], id |-> id, final |-> FALSE] \/ e \in docs
      \/ \E d \in docs : Same(d, id) /\ e = [d EXCEPT !.id = id]
    BY Zenon DEF Stored
<1> QED
    BY <1>1, <1>2, <1>3, <1>4

\* Only the documents of the irreversible block are marked.
LEMMA FinalizedDocuments ==
    ASSUME NEW docs, \A d \in docs : Document(d), NEW id,
           \A d \in docs : d.final /\ d.id[1] = id[1] => d.id = id
    PROVE  \A e \in Finalized(docs, id) : Document(e) /\ (e.final => e \in docs \/ e.id = id)
<1> DEFINE there == IF \E d \in docs : d.id = id THEN docs ELSE Stored(docs, id)
<1> SUFFICES ASSUME NEW e \in Finalized(docs, id)
             PROVE  Document(e) /\ (e.final => e \in docs \/ e.id = id)
    BY ZenonT(60)
<1>1. \A d \in there : Document(d) /\ (d.final => d \in docs)
    BY StoredDocuments, ZenonT(60)
<1> HIDE DEF there
<1>2. CASE e \in there
    BY <1>1, <1>2
<1>3. ASSUME NEW d \in there, d.id = id, e = [d EXCEPT !.final = TRUE]
      PROVE  Document(e) /\ e.id = id
    <2>1. \E n, f : n = id[1] /\ d = [num |-> n, id |-> id, final |-> f]
        BY <1>1, <1>3 DEF Document
    <2> PICK n, f : n = id[1] /\ d = [num |-> n, id |-> id, final |-> f]
        BY <2>1, ZenonT(60)
    <2>2. e = [num |-> n, id |-> id, final |-> TRUE]
        BY <1>3, ZenonT(60)
    <2> QED
        BY <2>2 DEF Document
<1>4. e \in there \/ \E d \in there : d.id = id /\ e = [d EXCEPT !.final = TRUE]
    BY Zenon DEF Finalized, there
<1> QED
    BY <1>2, <1>3, <1>4

LEMMA MarkProcess == ASSUME MarkInv, process PROVE MarkInv'
<1> PICK kind : kind = Order[Turn]
    OBVIOUS
<1> PICK id : id = Head(batch.work[kind])
    OBVIOUS
<1>1. /\ batch.work # Empty /\ batch' = [batch EXCEPT !.work[kind] = Tail(@)]
      /\ Process(kind, id) /\ UNCHANGED <<chain, lib, main, queues>>
    BY Zenon DEF process
<1>2. /\ kind \in Kinds /\ batch.work[kind] # <<>>
      /\ kind = "final" => batch.work["block"] = <<>>
    BY <1>1, TurnOf DEF MarkInv, MarkType
<1>3. id \in Elems(batch.work[kind])
    BY <1>1, <1>2, WorkShrinks, ZenonT(60) DEF MarkInv
<1> DEFINE Left == InQueue(batch.work) \cup InQueue(queues) \cup InTodo(main.todo)
<1>4. /\ \A d \in blocks : Document(d)
      /\ \A d \in blocks : d.final => IsFinal(d.id) /\ d.id[1] \notin Left
    BY ZenonT(60) DEF MarkInv
<1>5. /\ \A d \in blocks' : Document(d)
      /\ \A d \in blocks' : d.final => IsFinal(d.id) /\ d.id[1] \notin Left
    <2>1. CASE blocks' = blocks
        BY <1>4, <2>1, ZenonT(60)
    <2>2. CASE kind = "block" /\ blocks' = Stored(blocks, id)
        <3>1. id[1] \in Left
            BY <1>3, <2>2, ZenonT(60) DEF InQueue
        <3> HIDE DEF Left
        <3>2. \A d \in blocks : d.final /\ d.id[1] = id[1] => d.id = id
            BY <1>4, <3>1, ZenonT(60)
        <3>3. \A e \in Stored(blocks, id) : Document(e) /\ (e.final => e \in blocks)
            BY <1>4, <3>2, StoredDocuments, ZenonT(60)
        <3> QED
            BY <1>4, <2>2, <3>3, ZenonT(60)
    <2>3. CASE kind = "final" /\ blocks' = Finalized(blocks, id)
        <3>1. IsFinal(id) /\ id[1] \notin InQueue(queues) \cup InTodo(main.todo)
            BY <1>3, <2>3, ZenonT(60) DEF MarkInv
        <3>2. InQueue(batch.work) = {}
            BY <1>2, <2>3, EmptyElements DEF InQueue
        <3>3. id[1] \notin Left
            BY <3>1, <3>2, ZenonT(60)
        <3> HIDE DEF Left
        <3>4. \A d \in blocks : d.final /\ d.id[1] = id[1] => d.id = id
            BY <1>4, <3>1, ZenonT(60) DEF IsFinal
        <3>5. \A e \in Finalized(blocks, id) :
                 Document(e) /\ (e.final => e \in blocks \/ e.id = id)
            BY <1>4, <3>4, FinalizedDocuments, ZenonT(60)
        <3> QED
            BY <1>4, <2>3, <3>1, <3>3, <3>5, ZenonT(60)
    <2>4. \/ blocks' = blocks
          \/ kind = "block" /\ blocks' = Stored(blocks, id)
          \/ kind = "final" /\ blocks' = Finalized(blocks, id)
        BY <1>1, ZenonT(60) DEF Process
    <2> QED
        BY <2>1, <2>2, <2>3, <2>4, ZenonT(60)
<1> QED
    BY <1>1, <1>2, <1>5, WorkStep, ZenonT(60)

LEMMA MarkFails == ASSUME MarkInv, process_fails PROVE MarkInv'
<1> PICK kind : kind = Order[Turn]
    OBVIOUS
<1>1. /\ batch.work # Empty /\ batch' = [batch EXCEPT !.work[kind] = Tail(@)]
      /\ UNCHANGED <<chain, lib, main, queues, blocks>>
    BY Zenon DEF process_fails
<1>2. kind \in Kinds /\ batch.work[kind] # <<>>
    BY <1>1, TurnOf DEF MarkInv, MarkType
<1>3. /\ \A d \in blocks' : Document(d)
      /\ \A d \in blocks' : d.final =>
           /\ IsFinal(d.id)
           /\ d.id[1] \notin InQueue(batch.work) \cup InQueue(queues) \cup InTodo(main.todo)
    BY <1>1 DEF MarkInv
<1> QED
    BY <1>1, <1>2, <1>3, WorkStep, ZenonT(60)

\* A step of the handshake touches neither the entries nor the documents.
LEMMA MarkKept ==
    ASSUME MarkInv, UNCHANGED <<chain, lib, queues, batch, blocks>>,
           main' = [todo |-> main.todo, at |-> main'.at],
           main'.at = "sleep" => main.todo # <<>>
    PROVE  MarkInv'
<1>1. MarkType' /\ main'.todo = main.todo
    BY DEF MarkInv, MarkType
<1>2. \A id : IsFinal(id)' <=> IsFinal(id)
    BY DEF IsFinal, IdAt
<1>3. (\A d \in blocks : Document(d))'
    BY ZenonT(60) DEF MarkInv, Document
<1> QED
    BY <1>1, <1>2, <1>3, ZenonT(60) DEF MarkInv, InQueue, InTodo

LEMMA MarkStep == ASSUME Constants, MarkInv, [MongoNext]_mvars PROVE MarkInv'
<1>0. main = [todo |-> main.todo, at |-> main.at] /\ (main.at = "sleep" => main.todo # <<>>)
    BY ZenonT(60) DEF MarkInv, MarkType
<1>1. ASSUME NEW tag \in Tag, apply_block(tag)
      PROVE  MarkInv'
    BY <1>1, MarkApply
<1>2. CASE queue_full
    BY <1>0, <1>2, MarkKept DEF queue_full
<1>3. CASE notify_one
    BY <1>0, <1>3, MarkKept DEF notify_one
<1>4. CASE plugin_shutdown
    BY <1>0, <1>4, MarkKept DEF plugin_shutdown
<1>5. CASE check \/ wait \/ batch_end
    BY <1>0, <1>5, MarkKept, ZenonT(60) DEF check, wait, batch_end
<1>6. CASE UNCHANGED mvars
    BY <1>0, <1>6, MarkKept DEF mvars
<1> QED
    BY <1>1, <1>2, <1>3, <1>4, <1>5, <1>6, MarkPop, MarkFinal, MarkQueue, MarkCapture,
       MarkProcess, MarkFails DEF MongoNext

\* A document that is marked irreversible names the block of the chain at its
\* number, at or below the irreversible one: consume_blocks works on a batch's
\* accepted blocks before its irreversible ones, so that no fork's block takes a
\* marked document over, whichever key the documents are found by.
THEOREM MarkedIsIrreversible == ASSUME Constants PROVE MongoSpec => []OnlyFinalMarked
<1>1. MarkInv => OnlyFinalMarked
    <2> SUFFICES ASSUME MarkInv, NEW d \in blocks, d.final
                 PROVE  d.num <= lib /\ d.id = IdAt(d.num)
        BY DEF OnlyFinalMarked
    <2>1. IsFinal(d.id) /\ d.num = d.id[1]
        BY DEF MarkInv, Document
    <2> QED
        BY <2>1 DEF IsFinal
<1> QED
    BY <1>1, MarkStart, MarkStep, PTL DEF MongoSpec
=============================================================================
