----------------------------- MODULE DposProofs -----------------------------
(***************************************************************************)
(* Proofs about Dpos, for any producers, schedule, forks and delays: the   *)
(* types; that while no node has been restarted producers never confirm a  *)
(* height twice, at most one block of a height is proposed as irreversible *)
(* and no block is refused that a producer has decided to make.            *)
(***************************************************************************)
EXTENDS Dpos, BlockHeaderStateProofs

-----------------------------------------------------------------------------
(* The nodes and their blocks. *)

\* A function that is a sequence, whatever its elements are.
IsSeq(b) == b \in Seq({b[i] : i \in 1 .. Len(b)})

\* Appending to a sequence keeps what was there.
LEMMA AppendFacts ==
    ASSUME NEW b, IsSeq(b), NEW e
    PROVE  /\ IsSeq(Append(b, e))
           /\ Len(b) \in Nat
           /\ Len(Append(b, e)) = Len(b) + 1
           /\ \A i \in 1 .. Len(b) : Append(b, e)[i] = b[i]
           /\ Append(b, e)[Len(b) + 1] = e
<1> DEFINE S == {b[i] : i \in 1 .. Len(b)} \cup {e}
           a == Append(b, e)
<1>1. b \in Seq(S)
    BY DEF IsSeq
<1>2. e \in S
    OBVIOUS
<1> HIDE DEF S
<1>3. /\ a \in Seq(S)
      /\ Len(b) \in Nat
      /\ Len(a) = Len(b) + 1
      /\ \A i \in 1 .. Len(b) : a[i] = b[i]
      /\ a[Len(b) + 1] = e
    BY <1>1, <1>2
<1>4. a \in Seq({a[i] : i \in 1 .. Len(a)})
    BY <1>3
<1> QED
    BY <1>3, <1>4, ZenonT(60) DEF IsSeq

\* The inductive invariant behind TypeOK: the numbers in the header states are
\* in order, without which `confirmed` need not be a number.
TypeInv ==
    /\ TypeOK
    /\ IsSeq(blocks)
    /\ \A i \in 1 .. Len(blocks) : Bounded(blocks[i].st)

\* The types of a block's fields.
LEMMA BlockTypes ==
    ASSUME TypeInv, NEW i \in 1 .. Len(blocks)
    PROVE  /\ blocks[i].confirmed \in Nat /\ blocks[i].producer \in Producers
           /\ blocks[i].anc \subseteq 1 .. Len(blocks)
           /\ blocks[i].st.num \in Nat /\ blocks[i].st.slot \in Nat
           /\ blocks[i].st.proposed \in Nat /\ blocks[i].st.lib \in Nat
           /\ blocks[i].st.pending \in [producers : Seq(Producers), version : Nat, lib_num : Nat]
           /\ IsMap(blocks[i].st.last_produced)
<1>1. blocks[i].confirmed \in 0 .. MaxConfirm /\ IsHeaderState(blocks[i].st)
    BY DEF TypeInv, TypeOK, IsBlock
<1>2. blocks[i].producer \in Producers /\ blocks[i].anc \subseteq 1 .. Len(blocks)
    BY DEF TypeInv, TypeOK, IsBlock
<1> QED
    BY <1>1, <1>2, DposAssumption DEF IsHeaderState

\* blocks_to_confirm fits into 16 bits and stays above the watermark.
LEMMA ConfirmCount ==
    ASSUME TypeInv, NEW p \in Producers, NEW i \in 1 .. Len(blocks),
           watermark[p] < Num(i) + 1
    PROVE  /\ blocks_to_confirm(p, blocks[i].st) \in 0 .. MaxConfirm
           /\ Num(i) + 1 - blocks_to_confirm(p, blocks[i].st) > watermark[p]
<1> DEFINE s == blocks[i].st
           w == watermark[p]
           unseen == IF w > 0 /\ w < s.num THEN Lower(MaxConfirm, s.num - w) ELSE 0
<1>1. s.num \in Nat /\ s.lib \in Nat /\ s.lib <= s.num /\ s.num - s.lib \in Nat
    BY BlockTypes DEF TypeInv, Bounded
<1>2. w \in Nat /\ w < s.num + 1 /\ MaxConfirm \in Nat
    BY DposAssumption DEF TypeInv, TypeOK, Num
<1>3. unseen \in 0 .. MaxConfirm /\ s.num + 1 - unseen > w
    <2>1. CASE w > 0 /\ w < s.num
        <3>1. s.num - w \in Nat
            BY <1>1, <1>2, <2>1
        <3> QED
            BY <1>1, <1>2, <2>1, <3>1 DEF Lower
    <2>2. CASE ~ (w > 0 /\ w < s.num)
        BY <1>1, <1>2, <2>2
    <2> QED
        BY <2>1, <2>2
<1>4. blocks_to_confirm(p, s) = Lower(unseen, s.num - s.lib)
    BY DEF blocks_to_confirm
<1> HIDE DEF unseen
<1>5. /\ blocks_to_confirm(p, s) \in Nat
      /\ blocks_to_confirm(p, s) <= unseen
    BY <1>1, <1>2, <1>3, <1>4 DEF Lower
<1>6. \A k, u, n, m, v \in Nat :
         k <= u /\ u \in 0 .. m /\ n + 1 - u > v => k \in 0 .. m /\ n + 1 - k > v
    OBVIOUS
<1>7. unseen \in Nat
    BY <1>2, <1>3
<1> HIDE DEF s, w
<1>8. blocks_to_confirm(p, s) \in 0 .. MaxConfirm /\ s.num + 1 - blocks_to_confirm(p, s) > w
    BY <1>1, <1>2, <1>3, <1>5, <1>6, <1>7, ZenonT(60)
<1> QED
    BY <1>8, ZenonT(60) DEF Num, s, w

\* Init establishes the types.
LEMMA TypeInit == Init => TypeInv
<1> SUFFICES ASSUME Init
             PROVE  TypeInv
    OBVIOUS
<1>1. Initial \in Seq(Producers) /\ Initial # <<>> /\ Initial[1] \in Producers
    BY DposAssumption
<1>2. /\ blocks = << [prev |-> 0, anc |-> {1}, producer |-> Initial[1],
                      confirmed |-> 0, st |-> GenesisState(Initial)] >>
      /\ Len(blocks) = 1
    BY DEF Init
<1>3. blocks[1].st = GenesisState(Initial) /\ IsBlock(blocks[1])
    <2>1. IsHeaderState(GenesisState(Initial))
        BY <1>1, GenesisType
    <2> QED
        BY <1>1, <1>2, <2>1, DposAssumption DEF IsBlock
<1>4. Bounded(blocks[1].st)
    BY <1>1, <1>3, GenesisType
<1>5. IsSeq(blocks)
    BY <1>2 DEF IsSeq
<1>6. TypeOK
    <2>1. time \in 0 .. MaxSlot /\ restarts \in 0 .. Restarts
        BY DposAssumption DEF Init
    <2>2. watermark \in [Producers -> Nat] /\ own \in [Producers -> 1 .. Len(blocks)]
        BY <1>2 DEF Init
    <2>3. \A i \in 1 .. Len(blocks) : IsBlock(blocks[i])
        BY <1>2, <1>3
    <2> QED
        BY <2>1, <2>2, <2>3 DEF TypeOK
<1> QED
    BY <1>2, <1>4, <1>5, <1>6 DEF TypeInv

\* The block that produce_block appends has the types of a block.
LEMMA ProducedBlock ==
    ASSUME TypeInv, NEW p \in Producers, NEW i \in 1 .. Len(blocks), produce_block(p, i)
    PROVE  LET c == blocks_to_confirm(p, blocks[i].st)
               t == next(blocks[i].st, time, c, {})
           IN  /\ c \in 0 .. MaxConfirm
               /\ Num(i) + 1 - c > watermark[p]
               /\ IsHeaderState(t) /\ Bounded(t)
               /\ t.num = Num(i) + 1
<1> DEFINE s == blocks[i].st
           c == blocks_to_confirm(p, s)
           t == next(s, time, c, {})
<1>1. c \in 0 .. MaxConfirm /\ Num(i) + 1 - c > watermark[p]
    BY ConfirmCount DEF produce_block, producing
<1>2. c \in Nat /\ time \in Nat
    BY <1>1, DposAssumption DEF TypeInv, TypeOK
<1>3. IsHeaderState(s) /\ Bounded(s)
    BY DEF TypeInv, TypeOK, IsBlock
<1>4. get_scheduled_producer(s, time) \in Producers
    BY DEF produce_block, producing
<1>5. \A n \in {} : n.producers \in Seq(Producers) /\ n.version \in Nat
    OBVIOUS
<1> HIDE DEF s, c
<1>6. IsHeaderState(t) /\ Bounded(t)
    BY <1>2, <1>3, <1>4, <1>5, NextType
<1>7. t.num = s.num + 1
    BY DEF next
<1> QED
    BY <1>1, <1>6, <1>7 DEF Num, s, c

\* Every step keeps the types.
LEMMA TypeStep == TypeInv /\ [Next]_vars => TypeInv'
<1> SUFFICES ASSUME TypeInv, [Next]_vars
             PROVE  TypeInv'
    OBVIOUS
<1>1. CASE Tick
    <2>1. blocks' = blocks /\ watermark' = watermark /\ own' = own /\ restarts' = restarts
        BY <1>1 DEF Tick
    <2>2. time' \in 0 .. MaxSlot
        BY <1>1, DposAssumption DEF Tick, TypeInv, TypeOK
    <2> QED
        BY <2>1, <2>2 DEF TypeInv, TypeOK, IsBlock
<1>2. ASSUME NEW p \in Producers, Restart(p)
      PROVE  TypeInv'
    <2>1. blocks' = blocks /\ time' = time /\ own' = own
        BY <1>2 DEF Restart
    <2>2. watermark' \in [Producers -> Nat] /\ restarts' \in 0 .. Restarts
        BY <1>2, DposAssumption DEF Restart, TypeInv, TypeOK
    <2> QED
        BY <2>1, <2>2 DEF TypeInv, TypeOK, IsBlock
<1>3. ASSUME NEW p \in Producers, NEW i \in 1 .. Len(blocks), produce_block(p, i)
      PROVE  TypeInv'
    <2> DEFINE c == blocks_to_confirm(p, blocks[i].st)
               b == [prev |-> i, anc |-> blocks[i].anc \cup {Len(blocks) + 1}, producer |-> p,
                     confirmed |-> c, st |-> next(blocks[i].st, time, c, {})]
    <2>1. /\ blocks' = Append(blocks, b)
          /\ watermark' = [watermark EXCEPT ![p] = blocks[i].st.num + 1]
          /\ own' = [own EXCEPT ![p] = Len(blocks) + 1]
          /\ time' = time /\ restarts' = restarts
        BY <1>3 DEF produce_block
    <2>2. c \in 0 .. MaxConfirm /\ IsHeaderState(b.st) /\ Bounded(b.st)
        BY <1>3, ProducedBlock
    <2>3. b.anc \subseteq 1 .. Len(blocks) + 1 /\ b.prev \in Nat
        <3>1. blocks[i].anc \subseteq 1 .. Len(blocks)
            BY DEF TypeInv, TypeOK, IsBlock
        <3>2. Len(blocks) \in Nat
            BY AppendFacts DEF TypeInv
        <3> QED
            BY <3>1, <3>2
    <2>4. b.producer = p /\ b.confirmed = c
        OBVIOUS
    <2> HIDE DEF b, c
    <2>5. /\ IsSeq(blocks')
          /\ Len(blocks) \in Nat
          /\ Len(blocks') = Len(blocks) + 1
          /\ \A j \in 1 .. Len(blocks) : blocks'[j] = blocks[j]
          /\ blocks'[Len(blocks) + 1] = b
        BY <2>1, AppendFacts DEF TypeInv
    <2>6. ASSUME NEW j \in 1 .. Len(blocks')
          PROVE  IsBlock(blocks[j])' /\ Bounded(blocks[j].st)'
        <3>1. CASE j \in 1 .. Len(blocks)
            <4>1. IsBlock(blocks[j]) /\ Bounded(blocks[j].st)
                BY <3>1 DEF TypeInv, TypeOK
            <4>2. 1 .. Len(blocks) \subseteq 1 .. Len(blocks')
                BY <2>5
            <4> QED
                BY <3>1, <4>1, <4>2, <2>5 DEF IsBlock
        <3>2. CASE j = Len(blocks) + 1
            BY <3>2, <2>2, <2>3, <2>4, <2>5 DEF IsBlock
        <3> QED
            BY <3>1, <3>2, <2>5
    <2>7. watermark' \in [Producers -> Nat]
        <3>1. blocks[i].st.num \in Nat /\ watermark \in [Producers -> Nat]
            BY DEF TypeInv, TypeOK, IsBlock, IsHeaderState
        <3> QED
            BY <3>1, <2>1
    <2>8. own' \in [Producers -> 1 .. Len(blocks')]
        <3>1. own \in [Producers -> 1 .. Len(blocks)]
            BY DEF TypeInv, TypeOK
        <3> QED
            BY <3>1, <2>1, <2>5
    <2> QED
        BY <2>1, <2>5, <2>6, <2>7, <2>8, ZenonT(60) DEF TypeInv, TypeOK
<1>4. CASE UNCHANGED vars
    BY <1>4 DEF vars, TypeInv, TypeOK, IsBlock
<1> QED
    BY <1>1, <1>2, <1>3, <1>4 DEF Next

\* Whatever forks, delays and restarts there are, header states stay header
\* states: the loop and the lists of next(), nth_element and the 16-bit count
\* of confirmed blocks never leave their types.
THEOREM DposTypeCorrect == Spec => []TypeOK
<1>1. TypeInv => TypeOK
    BY DEF TypeInv
<1> QED
    BY TypeInit, TypeStep, <1>1, PTL DEF Spec
-----------------------------------------------------------------------------
\* The inductive invariant behind NoDoubleConfirm: no producer has signed a
\* block above its watermark.
Signed ==
    /\ \A i \in 2 .. Len(blocks) : Num(i) <= watermark[blocks[i].producer]
    /\ NoDoubleConfirm

SignedInv == TypeInv /\ (restarts = Restarts => Signed)

\* A new block confirms only heights above everything its producer signed.
LEMMA ProduceSigned ==
    ASSUME TypeInv, Signed, NEW p \in Producers, NEW i \in 1 .. Len(blocks),
           produce_block(p, i)
    PROVE  Signed'
<1> DEFINE c == blocks_to_confirm(p, blocks[i].st)
           b == [prev |-> i, anc |-> blocks[i].anc \cup {Len(blocks) + 1}, producer |-> p,
                 confirmed |-> c, st |-> next(blocks[i].st, time, c, {})]
<1>0. PICK n \in Nat : n = Len(blocks) + 1
    BY AppendFacts DEF TypeInv
<1>1. /\ blocks' = Append(blocks, b)
      /\ watermark' = [watermark EXCEPT ![p] = Num(i) + 1]
    BY DEF produce_block, Num
<1>2. /\ b.producer = p /\ b.confirmed = c
      /\ c \in Nat /\ Num(i) + 1 - c > watermark[p]
      /\ b.st.num = Num(i) + 1
    <2>1. c \in 0 .. MaxConfirm /\ Num(i) + 1 - c > watermark[p] /\ b.st.num = Num(i) + 1
        BY ProducedBlock
    <2> QED
        BY <2>1, DposAssumption
<1> HIDE DEF b, c
<1>3. /\ Len(blocks) \in Nat
      /\ Len(blocks') = n
      /\ \A j \in 1 .. Len(blocks) : blocks'[j] = blocks[j]
      /\ blocks'[n] = b
    BY <1>0, <1>1, AppendFacts DEF TypeInv
<1>4. \A j \in 1 .. Len(blocks) : /\ Num(j) \in Nat
                                   /\ blocks[j].confirmed \in Nat
                                   /\ blocks[j].producer \in Producers
    BY BlockTypes DEF Num
<1>5. watermark \in [Producers -> Nat] /\ watermark[p] < Num(i) + 1
    BY DEF TypeInv, TypeOK, produce_block, producing
<1>6. \A j \in 2 .. Len(blocks) : Num(j)' = Num(j) /\ Heights(j)' = Heights(j)
    BY <1>3 DEF Num, Heights
<1>7. Num(n)' = Num(i) + 1 /\ \A h \in Heights(n)' : h >= Num(i) + 1 - c
    <2>1. blocks'[n].st.num = Num(i) + 1 /\ blocks'[n].confirmed = c
        BY <1>2, <1>3
    <2>2. Num(n)' = Num(i) + 1
        BY <2>1 DEF Num
    <2>3. ASSUME NEW h \in Heights(n)'
          PROVE  h >= Num(i) + 1 - c
        <3>1. h \in blocks'[n].st.num - blocks'[n].confirmed .. blocks'[n].st.num
            BY <2>3 DEF Heights, Num
        <3>2. Num(i) \in Nat
            BY <1>4
        <3> QED
            BY <3>1, <3>2, <2>1, <1>2
    <2> QED
        BY <2>2, <2>3
<1>8. \A j \in 2 .. Len(blocks) : blocks[j].producer = p => Heights(j) \cap Heights(n)' = {}
    <2> SUFFICES ASSUME NEW j \in 2 .. Len(blocks), blocks[j].producer = p,
                        NEW h \in Heights(j), h \in Heights(n)'
                 PROVE  FALSE
        OBVIOUS
    <2>1. Num(j) \in Nat /\ Num(j) <= watermark[p] /\ blocks[j].confirmed \in Nat
        BY <1>3, <1>4 DEF Signed
    <2>2. h \in Int /\ h <= Num(j)
        BY <2>1 DEF Heights
    <2>3. h >= Num(i) + 1 - c
        BY <1>7
    <2> QED
        BY <2>1, <2>2, <2>3, <1>2, <1>4, <1>5
<1>9. \A j \in 2 .. Len(blocks') : Num(j)' <= watermark'[blocks'[j].producer]
    <2> SUFFICES ASSUME NEW j \in 2 .. Len(blocks')
                 PROVE  Num(j)' <= watermark'[blocks'[j].producer]
        OBVIOUS
    <2>1. CASE j = n
        BY <2>1, <1>1, <1>2, <1>3, <1>4, <1>5, <1>7
    <2>2. CASE j # n
        <3>1. j \in 2 .. Len(blocks) /\ j \in 1 .. Len(blocks)
            BY <2>2, <1>0, <1>3
        <3>2. Num(j) <= watermark[blocks[j].producer]
            BY <3>1 DEF Signed
        <3>3. blocks'[j].producer = blocks[j].producer /\ Num(j)' = Num(j)
            BY <3>1, <1>3, <1>6
        <3>4. blocks[j].producer \in Producers /\ Num(j) \in Nat /\ Num(i) \in Nat
            BY <3>1, <1>4
        <3>5. watermark'[blocks[j].producer] >= watermark[blocks[j].producer]
            BY <3>4, <1>1, <1>5
        <3>6. watermark'[blocks[j].producer] \in Nat /\ watermark[blocks[j].producer] \in Nat
            BY <3>4, <1>1, <1>5
        <3> QED
            BY <3>2, <3>3, <3>4, <3>5, <3>6
    <2> QED
        BY <2>1, <2>2
<1>10. NoDoubleConfirm'
    <2> SUFFICES ASSUME NEW j \in 2 .. Len(blocks'), NEW k \in 2 .. Len(blocks'),
                        j # k, blocks'[j].producer = blocks'[k].producer
                 PROVE  Heights(j)' \cap Heights(k)' = {}
        BY DEF NoDoubleConfirm
    <2>1. CASE j = n
        <3>1. k \in 2 .. Len(blocks) /\ blocks[k].producer = p
            BY <2>1, <1>0, <1>2, <1>3
        <3> QED
            BY <2>1, <3>1, <1>6, <1>8
    <2>2. CASE k = n
        <3>1. j \in 2 .. Len(blocks) /\ blocks[j].producer = p
            BY <2>2, <1>0, <1>2, <1>3
        <3> QED
            BY <2>2, <3>1, <1>6, <1>8
    <2>3. CASE j # n /\ k # n
        <3>1. j \in 2 .. Len(blocks) /\ k \in 2 .. Len(blocks)
            BY <2>3, <1>0, <1>3
        <3>2. blocks[j].producer = blocks[k].producer
            BY <3>1, <1>3
        <3> QED
            BY <3>1, <3>2, <1>6 DEF Signed, NoDoubleConfirm
    <2> QED
        BY <2>1, <2>2, <2>3
<1> QED
    BY <1>9, <1>10 DEF Signed

LEMMA SignedStep == SignedInv /\ [Next]_vars => SignedInv'
<1> SUFFICES ASSUME SignedInv, [Next]_vars, restarts' = Restarts
             PROVE  Signed'
    BY TypeStep DEF SignedInv
<1>1. TypeInv
    BY DEF SignedInv
<1>2. CASE Tick \/ UNCHANGED vars
    <2>1. blocks' = blocks /\ watermark' = watermark /\ restarts' = restarts
        BY <1>2 DEF Tick, vars
    <2>2. Signed
        BY <2>1 DEF SignedInv
    <2> QED
        BY <2>1, <2>2 DEF Signed, NoDoubleConfirm, Heights, Num
<1>3. ASSUME NEW p \in Producers, Restart(p)
      PROVE  FALSE
    BY <1>1, <1>3, DposAssumption DEF Restart, TypeInv, TypeOK
<1>4. ASSUME NEW p \in Producers, NEW i \in 1 .. Len(blocks), produce_block(p, i)
      PROVE  Signed'
    <2>1. restarts = Restarts
        BY <1>4 DEF produce_block
    <2> QED
        BY <2>1, <1>1, <1>4, ProduceSigned DEF SignedInv
<1> QED
    BY <1>2, <1>3, <1>4 DEF Next

LEMMA SignedInit == Init => SignedInv
<1> SUFFICES ASSUME Init
             PROVE  Signed
    BY TypeInit DEF SignedInv
<1>1. Len(blocks) = 1
    BY DEF Init
<1> QED
    BY <1>1 DEF Signed, NoDoubleConfirm

\* Until a node is restarted, which loses the watermarks of start_block, no
\* producer confirms two blocks of one height, for any number of producers,
\* any schedule and any forks.
THEOREM NoProducerConfirmsTwice == Spec => []ConfirmsOnce
<1>1. SignedInv => ConfirmsOnce
    BY DEF SignedInv, Signed, ConfirmsOnce, Unbroken
<1> QED
    BY <1>1, SignedInit, SignedStep, PTL DEF Spec
-----------------------------------------------------------------------------
\* The blocks of the chain of block i that confirm height h.
Confirmers(i, h) == {k \in blocks[i].anc \ {1} : h \in Heights(k)}

CountAt(i) == [h \in Nat |-> Cardinality(Confirmers(i, h))]

\* The confirmations that a block needs under the initial schedule.
Quorum == (Len(Initial) * 2) \div 3 + 1

\* The ancestors of a block are a chain, and its ancestors' are those up to it.
Chained ==
    \A i \in 1 .. Len(blocks) :
       /\ i \in blocks[i].anc
       /\ Num(i) >= 1
       /\ \A k \in blocks[i].anc : blocks[k].anc = {m \in blocks[i].anc : Num(m) <= Num(k)}

InitialProducers == {Initial[j] : j \in 1 .. Len(Initial)}

\* All blocks are made under the initial schedule, by one of its producers; it
\* is pending in the genesis block only.
Scheduled ==
    \A i \in 1 .. Len(blocks) :
       /\ blocks[i].st.active = Initial
       /\ blocks[i].st.pending.producers = <<>> \/ blocks[i].st = GenesisState(Initial)
       /\ blocks[i].producer \in InitialProducers

\* confirm_count counts the confirmations on the chain of the block, and what
\* is proposed has got a quorum of them.
Counted ==
    \A i \in 1 .. Len(blocks) :
       /\ Makes(Quorum, blocks[i].st.confirm_count, CountAt(i), Num(i))
       /\ blocks[i].st.proposed = 0 \/ Quorum <= CountAt(i)[blocks[i].st.proposed]

\* What produce_block does to the blocks.
LEMMA ProducedShape ==
    ASSUME TypeInv, NEW p \in Producers, NEW i \in 1 .. Len(blocks), produce_block(p, i)
    PROVE  LET n == Len(blocks) + 1
               c == blocks_to_confirm(p, blocks[i].st)
           IN  /\ n \in Nat /\ n # 1 /\ Len(blocks') = n
               /\ \A j \in 1 .. Len(blocks) : blocks'[j] = blocks[j]
               /\ blocks'[n].anc = blocks[i].anc \cup {n}
               /\ blocks'[n].producer = p
               /\ blocks'[n].confirmed = c
               /\ blocks'[n].st = next(blocks[i].st, time, c, {})
               /\ blocks'[n].st.num = Num(i) + 1
               /\ c \in Nat
               /\ \A j \in 1 .. n : j \in 1 .. Len(blocks) \/ j = n
<1> DEFINE c == blocks_to_confirm(p, blocks[i].st)
           b == [prev |-> i, anc |-> blocks[i].anc \cup {Len(blocks) + 1}, producer |-> p,
                 confirmed |-> c, st |-> next(blocks[i].st, time, c, {})]
           n == Len(blocks) + 1
<1>1. blocks' = Append(blocks, b)
    BY DEF produce_block
<1>2. c \in 0 .. MaxConfirm /\ b.st.num = Num(i) + 1
    BY ProducedBlock
<1>3. c \in Nat
    BY <1>2, DposAssumption
<1>4. /\ b.anc = blocks[i].anc \cup {n} /\ b.producer = p /\ b.confirmed = c
      /\ b.st = next(blocks[i].st, time, c, {})
    OBVIOUS
<1> HIDE DEF b, c
<1>5. /\ Len(blocks) \in Nat
      /\ Len(blocks') = n
      /\ \A j \in 1 .. Len(blocks) : blocks'[j] = blocks[j]
      /\ blocks'[n] = b
    BY <1>1, AppendFacts, ZenonT(60) DEF TypeInv
<1>6. n \in Nat /\ n # 1 /\ \A j \in 1 .. n : j \in 1 .. Len(blocks) \/ j = n
    BY <1>5
<1>7. blocks'[n].st.num = Num(i) + 1
    BY <1>2, <1>5, ZenonT(60)
<1> HIDE DEF n
<1> QED
    BY <1>3, <1>4, <1>5, <1>6, <1>7, ZenonT(60) DEF n, c

\* The confirmations of a block once made do not change.
LEMMA OldConfirmers ==
    ASSUME TypeInv, \A j \in 1 .. Len(blocks) : blocks'[j] = blocks[j],
           NEW i \in 1 .. Len(blocks)
    PROVE  /\ Num(i)' = Num(i) /\ Heights(i)' = Heights(i)
           /\ blocks[i].anc \subseteq 1 .. Len(blocks)
           /\ \A h : Confirmers(i, h)' = Confirmers(i, h)
           /\ CountAt(i)' = CountAt(i)
<1>1. \A j \in 1 .. Len(blocks) : Num(j)' = Num(j) /\ Heights(j)' = Heights(j)
    BY DEF Num, Heights
<1>2. blocks[i].anc \subseteq 1 .. Len(blocks) /\ blocks'[i].anc = blocks[i].anc
    BY DEF TypeInv, TypeOK, IsBlock
<1>3. ASSUME NEW h
      PROVE  Confirmers(i, h)' = Confirmers(i, h)
    <2>1. \A k \in blocks[i].anc : Heights(k)' = Heights(k)
        BY <1>1, <1>2
    <2> QED
        BY <1>2, <2>1 DEF Confirmers
<1>4. CountAt(i)' = CountAt(i)
    BY <1>3 DEF CountAt
<1> QED
    BY <1>1, <1>2, <1>3, <1>4

LEMMA ProduceChained ==
    ASSUME TypeInv, Chained, NEW p \in Producers, NEW i \in 1 .. Len(blocks),
           produce_block(p, i)
    PROVE  Chained'
<1>1. PICK n : n = Len(blocks) + 1
    OBVIOUS
<1>2. /\ n \in Nat /\ Len(blocks') = n /\ n \notin 1 .. Len(blocks)
      /\ \A j \in 1 .. Len(blocks) : blocks'[j] = blocks[j]
      /\ blocks'[n].anc = blocks[i].anc \cup {n}
      /\ Num(n)' = Num(i) + 1
      /\ \A j \in 1 .. n : j \in 1 .. Len(blocks) \/ j = n
    <2>1. Len(blocks) \in Nat
        BY AppendFacts DEF TypeInv
    <2>2. n \notin 1 .. Len(blocks)
        BY <1>1, <2>1
    <2> QED
        BY <1>1, <2>2, ProducedShape, ZenonT(60) DEF Num
<1>3. \A j \in 1 .. Len(blocks) : /\ Num(j)' = Num(j) /\ Num(j) \in Nat
                                   /\ blocks[j].anc \subseteq 1 .. Len(blocks)
    <2>1. \A j \in 1 .. Len(blocks) : Num(j) \in Nat
        BY DEF TypeInv, TypeOK, IsBlock, IsHeaderState, Num
    <2> QED
        BY <2>1, <1>2, OldConfirmers, ZenonT(60)
<1>4. ASSUME NEW j \in 1 .. Len(blocks)
      PROVE  /\ j \in blocks[j].anc
             /\ Num(j) >= 1
             /\ \A k \in blocks[j].anc : /\ k \in 1 .. Len(blocks)
                                         /\ blocks[k].anc = {m \in blocks[j].anc : Num(m) <= Num(k)}
    BY <1>3 DEF Chained
<1>5. \A m \in blocks[i].anc : m \in 1 .. Len(blocks) /\ Num(m) <= Num(i)
    BY <1>4
<1>6. ASSUME NEW j \in 1 .. Len(blocks)
      PROVE  /\ j \in blocks'[j].anc
             /\ Num(j)' >= 1
             /\ \A k \in blocks'[j].anc :
                   blocks'[k].anc = {m \in blocks'[j].anc : Num(m)' <= Num(k)'}
    <2>1. j \in blocks'[j].anc /\ Num(j)' >= 1
        BY <1>2, <1>3, <1>4, ZenonT(60)
    <2>2. ASSUME NEW k \in blocks[j].anc
          PROVE  blocks'[k].anc = {m \in blocks'[j].anc : Num(m)' <= Num(k)'}
        <3>1. k \in 1 .. Len(blocks) /\ blocks[k].anc = {m \in blocks[j].anc : Num(m) <= Num(k)}
            BY <1>4, <2>2
        <3>2. blocks'[k].anc = blocks[k].anc /\ blocks'[j].anc = blocks[j].anc /\ Num(k)' = Num(k)
            BY <3>1, <1>2, <1>3, ZenonT(60)
        <3>3. \A m \in blocks[j].anc : Num(m)' = Num(m)
            BY <1>3
        <3> QED
            BY <3>1, <3>2, <3>3
    <2> QED
        BY <2>1, <2>2, <1>2
<1>7. n \in blocks'[n].anc /\ Num(n)' >= 1
    BY <1>2, <1>3
<1>8. ASSUME NEW k \in blocks'[n].anc
      PROVE  blocks'[k].anc = {m \in blocks'[n].anc : Num(m)' <= Num(k)'}
    <2>1. CASE k = n
        <3>1. \A m \in blocks[i].anc : Num(m)' <= Num(n)'
            BY <1>2, <1>3, <1>5
        <3>2. Num(n)' <= Num(n)'
            BY <1>2, <1>3
        <3> QED
            BY <2>1, <3>1, <3>2, <1>2
    <2>2. CASE k \in blocks[i].anc
        <3>1. k \in 1 .. Len(blocks) /\ blocks[k].anc = {m \in blocks[i].anc : Num(m) <= Num(k)}
            BY <1>4, <2>2
        <3>2. blocks'[k].anc = blocks[k].anc /\ Num(k)' = Num(k)
            BY <3>1, <1>2, <1>3
        <3>3. \A m \in blocks[i].anc : Num(m)' = Num(m)
            BY <1>3
        <3>4. ~ (Num(n)' <= Num(k)')
            BY <1>2, <1>3, <1>5, <2>2, <3>1, <3>2
        <3> QED
            BY <3>1, <3>2, <3>3, <3>4, <1>2
    <2> QED
        BY <2>1, <2>2, <1>2
<1> QED
    BY <1>2, <1>6, <1>7, <1>8, ZenonT(60) DEF Chained

\* The producer of a slot is one of the schedule.
LEMMA SlotInRange ==
    ASSUME NEW t \in Nat, NEW n \in Nat \ {0}, NEW r \in Nat \ {0}
    PROVE  ((t % (n * r)) \div r) + 1 \in 1 .. n
<1>1. PICK m \in Nat \ {0} : m = n * r
    OBVIOUS
<1>2. PICK x \in Nat : x = t % m /\ x < m
    OBVIOUS
<1>3. PICK y \in Nat : y = x \div r /\ r * y <= x
    OBVIOUS
<1>4. y < n
    <2> SUFFICES ASSUME y >= n
                 PROVE  FALSE
        OBVIOUS
    <2>1. r * y >= r * n
        OBVIOUS
    <2> QED
        BY <2>1, <1>1, <1>2, <1>3
<1> QED
    BY <1>1, <1>2, <1>3, <1>4

LEMMA ProduceScheduled ==
    ASSUME TypeInv, Scheduled, NEW p \in Producers, NEW i \in 1 .. Len(blocks),
           produce_block(p, i)
    PROVE  Scheduled'
<1> DEFINE s == blocks[i].st
           t == next(s, time, blocks_to_confirm(p, s), {})
<1>1. PICK n : n = Len(blocks) + 1
    OBVIOUS
<1>2. /\ Len(blocks') = n
      /\ \A j \in 1 .. Len(blocks) : blocks'[j] = blocks[j]
      /\ blocks'[n].producer = p
      /\ blocks'[n].st = t
      /\ \A j \in 1 .. n : j \in 1 .. Len(blocks) \/ j = n
    BY <1>1, ProducedShape, ZenonT(60)
<1> DEFINE q == get_scheduled_producer(s, time)
           up == Promotes(s, q)
<1>3. s.active = Initial /\ (s.pending.producers = <<>> \/ s = GenesisState(Initial))
    BY DEF Scheduled
<1>4. /\ s.pending.producers = <<>> => ~up
      /\ s = GenesisState(Initial) => up /\ s.pending.producers = Initial
    <2>1. s.pending.producers = <<>> => ~up
        BY DEF Promotes
    <2>2. ASSUME s = GenesisState(Initial)
          PROVE  up /\ s.pending.producers = Initial
        BY <2>2, DposAssumption DEF Promotes, GenesisState, calc_dpos_last_irreversible
    <2> QED
        BY <2>1, <2>2
<1>5. t.active = Initial
    <2>1. t.active = IF up THEN s.pending.producers ELSE s.active
        <3> HIDE DEF s
        <3> QED
            BY NextFields
    <2> HIDE DEF t, s, up
    <2> QED
        BY <2>1, <1>3, <1>4
<1>6. t.pending.producers = <<>>
    <2>1. t.pending = [s.pending EXCEPT !.producers = IF up THEN <<>> ELSE @]
        <3> HIDE DEF s
        <3>1. t.pending = finish_next(s, up, {})
            BY NextFields
        <3>2. finish_next(s, up, {}) = [s.pending EXCEPT !.producers = IF up THEN <<>> ELSE @]
            BY ZenonT(60) DEF finish_next
        <3> QED
            BY <3>1, <3>2, ZenonT(60)
    <2>2. s.pending \in [producers : Seq(Producers), version : Nat, lib_num : Nat]
        BY BlockTypes
    <2> HIDE DEF up, t, s
    <2>3. t.pending.producers = IF up THEN <<>> ELSE s.pending.producers
        BY <2>1, <2>2
    <2> QED
        BY <2>3, <1>3, <1>4
<1>7. p \in InitialProducers
    <2>1. p = Initial[((time % (Len(Initial) * Repetitions)) \div Repetitions) + 1]
        BY <1>3 DEF produce_block, producing, get_scheduled_producer
    <2>2. time \in Nat
        BY DposAssumption DEF TypeInv, TypeOK
    <2>3. Len(Initial) \in Nat \ {0} /\ Repetitions \in Nat \ {0}
        BY DposAssumption, HeaderAssumption
    <2>4. ((time % (Len(Initial) * Repetitions)) \div Repetitions) + 1 \in 1 .. Len(Initial)
        BY <2>2, <2>3, SlotInRange
    <2> QED
        BY <2>1, <2>4, ZenonT(60) DEF InitialProducers
<1> HIDE DEF t, s
<1>8. ASSUME NEW j \in 1 .. Len(blocks')
      PROVE  /\ blocks'[j].st.active = Initial
             /\ blocks'[j].st.pending.producers = <<>> \/ blocks'[j].st = GenesisState(Initial)
             /\ blocks'[j].producer \in InitialProducers
    <2>1. CASE j \in 1 .. Len(blocks)
        BY <2>1, <1>2 DEF Scheduled
    <2>2. CASE j = n
        BY <2>2, <1>2, <1>5, <1>6, <1>7
    <2> QED
        BY <2>1, <2>2, <1>2
<1> QED
    BY <1>8, ZenonT(60) DEF Scheduled, InitialProducers

\* Positions are finitely many.
LEMMA UpToFinite ==
    ASSUME NEW n \in Nat
    PROVE  /\ IsFiniteSet(1 .. n) /\ Cardinality(1 .. n) = n
           /\ \A S : S \subseteq 1 .. n => IsFiniteSet(S)
<1>1. 1 \in Int /\ n \in Int
    OBVIOUS
<1>2. /\ IsFiniteSet(1 .. n)
      /\ Cardinality(1 .. n) = IF 1 > n THEN 0 ELSE n - 1 + 1
    BY <1>1, FS_Interval, ZenonT(60)
<1>3. Cardinality(1 .. n) = n
    BY <1>2
<1>4. \A S : S \subseteq 1 .. n => IsFiniteSet(S)
    BY <1>2, FS_Subset, ZenonT(60)
<1> QED
    BY <1>2, <1>3, <1>4

\* The counts grow by the heights that the new block confirms.
LEMMA ProduceRaised ==
    ASSUME TypeInv, NEW p \in Producers, NEW i \in 1 .. Len(blocks),
           produce_block(p, i), NEW n, n = Len(blocks) + 1
    PROVE  /\ IsCount(CountAt(i)) /\ IsCount(CountAt(n)')
           /\ Raised(CountAt(i), CountAt(n)', Num(i) + 1 - blocks_to_confirm(p, blocks[i].st),
                     Num(i) + 1)
<1> DEFINE c == blocks_to_confirm(p, blocks[i].st)
<1>1. /\ n \in Nat /\ n # 1
      /\ \A j \in 1 .. Len(blocks) : blocks'[j] = blocks[j]
      /\ blocks'[n].anc = blocks[i].anc \cup {n}
      /\ blocks'[n].confirmed = c
      /\ blocks'[n].st.num = Num(i) + 1
      /\ c \in Nat
    BY ProducedShape, ZenonT(60)
<1>2. /\ Num(i) \in Nat /\ blocks[i].anc \subseteq 1 .. Len(blocks)
      /\ Len(blocks) \in Nat
    BY AppendFacts DEF TypeInv, TypeOK, IsBlock, IsHeaderState, Num
<1>3. \A h \in Nat : Num(i) + 1 - c <= h /\ h <= Num(i) + 1 => h \in Heights(n)'
    <2>1. Heights(n)' = blocks'[n].st.num - blocks'[n].confirmed .. blocks'[n].st.num
        BY DEF Heights, Num
    <2>2. PICK a \in Nat : a = Num(i) + 1
        BY <1>2
    <2>3. blocks'[n].st.num = a /\ blocks'[n].confirmed = c
        BY <2>2, <1>1, ZenonT(60)
    <2> HIDE DEF c
    <2>4. Heights(n)' = a - c .. a
        BY <2>1, <2>3, ZenonT(60)
    <2> QED
        BY <2>2, <2>4, <1>1, <1>2
<1> HIDE DEF c
<1>4. \A k \in blocks[i].anc : Heights(k)' = Heights(k)
    BY <1>1, <1>2, OldConfirmers, ZenonT(60)
<1>5. n \notin 1 .. Len(blocks)
    BY <1>2
<1>6. ASSUME NEW h \in Nat
      PROVE  /\ Cardinality(Confirmers(i, h)) \in Nat
             /\ Cardinality(Confirmers(n, h)') \in Nat
             /\ Cardinality(Confirmers(n, h)') >= Cardinality(Confirmers(i, h))
             /\ h \in Heights(n)' =>
                   Cardinality(Confirmers(n, h)') >= Cardinality(Confirmers(i, h)) + 1
    <2> DEFINE A == Confirmers(i, h)
               B == Confirmers(n, h)'
    <2>1. B = IF h \in Heights(n)' THEN A \cup {n} ELSE A
        <3>1. B = {k \in (blocks[i].anc \cup {n}) \ {1} : h \in Heights(k)'}
            BY <1>1, ZenonT(60) DEF Confirmers
        <3> QED
            BY <3>1, <1>1, <1>4 DEF Confirmers
    <2>2. A \subseteq 1 .. Len(blocks)
        BY <1>2 DEF Confirmers
    <2>3. IsFiniteSet(A) /\ n \notin A
        BY <2>2, <1>2, <1>5, UpToFinite, ZenonT(60)
    <2> HIDE DEF A, B
    <2>4. /\ IsFiniteSet(A \cup {n}) /\ Cardinality(A \cup {n}) = Cardinality(A) + 1
        BY <2>3, FS_AddElement
    <2>5. Cardinality(A) \in Nat
        BY <2>3, FS_CardinalityType
    <2>6. /\ Cardinality(B) \in Nat
          /\ Cardinality(B) >= Cardinality(A)
          /\ h \in Heights(n)' => Cardinality(B) >= Cardinality(A) + 1
        BY <2>1, <2>4, <2>5
    <2> QED
        BY <2>5, <2>6, ZenonT(60) DEF A, B
<1>7. \A h \in Nat : /\ CountAt(i)[h] = Cardinality(Confirmers(i, h))
                     /\ CountAt(n)'[h] = Cardinality(Confirmers(n, h)')
    BY DEF CountAt
<1>8. IsCount(CountAt(i)) /\ IsCount(CountAt(n)')
    BY <1>6, <1>7, ZenonT(60) DEF IsCount
<1>9. ASSUME NEW h \in Nat
      PROVE  /\ CountAt(n)'[h] >= CountAt(i)[h]
             /\ Num(i) + 1 - c <= h /\ h <= Num(i) + 1 => CountAt(n)'[h] >= CountAt(i)[h] + 1
    BY <1>3, <1>6, <1>7, ZenonT(60)
<1> QED
    BY <1>8, <1>9, ZenonT(60) DEF Raised, c

LEMMA ProduceCounted ==
    ASSUME TypeInv, Scheduled, Counted, NEW p \in Producers, NEW i \in 1 .. Len(blocks),
           produce_block(p, i)
    PROVE  Counted'
<1> DEFINE s == blocks[i].st
           c == blocks_to_confirm(p, s)
           t == next(s, time, c, {})
<1>1. PICK n : n = Len(blocks) + 1
    OBVIOUS
<1>2. /\ Len(blocks') = n
      /\ \A j \in 1 .. Len(blocks) : blocks'[j] = blocks[j]
      /\ blocks'[n].st = t
      /\ c \in Nat
      /\ \A j \in 1 .. n : j \in 1 .. Len(blocks) \/ j = n
    BY <1>1, ProducedShape, ZenonT(60)
<1>3. IsHeaderState(s) /\ Bounded(s)
    BY DEF TypeInv, TypeOK, IsBlock
<1>4. Quorum \in Nat /\ Quorum <= required_confs(s)
    <2>1. Quorum = required_confs(s)
        BY ZenonT(60) DEF Scheduled, required_confs, Quorum
    <2>2. required_confs(s) \in Nat
        BY <1>3, RequiredType, ZenonT(60)
    <2> QED
        BY <2>1, <2>2
<1>5. /\ Makes(Quorum, s.confirm_count, CountAt(i), s.num)
      /\ s.proposed = 0 \/ Quorum <= CountAt(i)[s.proposed]
    BY ZenonT(60) DEF Counted, Num
<1>6. /\ IsCount(CountAt(i)) /\ IsCount(CountAt(n)')
      /\ Raised(CountAt(i), CountAt(n)', s.num + 1 - c, s.num + 1)
    BY <1>1, ProduceRaised, ZenonT(60) DEF Num
<1> HIDE DEF s, c
<1>7. /\ Makes(Quorum, t.confirm_count, CountAt(n)', t.num)
      /\ t.proposed = 0 \/ Quorum <= CountAt(n)'[t.proposed]
    <2>1. PICK f, g : f = CountAt(i) /\ g = CountAt(n)'
        OBVIOUS
    <2>2. /\ IsCount(f) /\ IsCount(g) /\ Makes(Quorum, s.confirm_count, f, s.num)
          /\ Raised(f, g, s.num + 1 - c, s.num + 1)
          /\ s.proposed = 0 \/ Quorum <= f[s.proposed]
        BY <2>1, <1>5, <1>6, ZenonT(60)
    <2>3. Makes(Quorum, t.confirm_count, g, t.num) /\ (t.proposed = 0 \/ Quorum <= g[t.proposed])
        BY <2>2, <1>2, <1>3, <1>4, NextCounts, ZenonT(60)
    <2> QED
        BY <2>1, <2>3, ZenonT(60)
<1> HIDE DEF t
<1>8. ASSUME NEW j \in 1 .. Len(blocks')
      PROVE  /\ Makes(Quorum, blocks'[j].st.confirm_count, CountAt(j)', blocks'[j].st.num)
             /\ blocks'[j].st.proposed = 0 \/ Quorum <= CountAt(j)'[blocks'[j].st.proposed]
    <2>1. CASE j \in 1 .. Len(blocks)
        <3>1. blocks'[j] = blocks[j] /\ CountAt(j)' = CountAt(j)
            BY <2>1, <1>2, OldConfirmers, ZenonT(60)
        <3>2. /\ Makes(Quorum, blocks[j].st.confirm_count, CountAt(j), blocks[j].st.num)
              /\ blocks[j].st.proposed = 0 \/ Quorum <= CountAt(j)[blocks[j].st.proposed]
            BY <2>1, ZenonT(60) DEF Counted, Num
        <3> QED
            BY <3>1, <3>2, ZenonT(60)
    <2>2. CASE j = n
        BY <2>2, <1>2, <1>7, ZenonT(60)
    <2> QED
        BY <2>1, <2>2, <1>2, ZenonT(60)
<1> QED
    BY <1>8, ZenonT(60) DEF Counted, Num, Quorum

\* Two sets of confirmers of one height that are each a quorum share a block,
\* if no producer confirms the height twice.
LEMMA QuorumsMeet ==
    ASSUME TypeInv, Scheduled, NoDoubleConfirm, NEW i \in 1 .. Len(blocks),
           NEW j \in 1 .. Len(blocks), NEW h \in Nat,
           Quorum <= Cardinality(Confirmers(i, h)), Quorum <= Cardinality(Confirmers(j, h))
    PROVE  Confirmers(i, h) \cap Confirmers(j, h) # {}
<1> DEFINE A == Confirmers(i, h)
           B == Confirmers(j, h)
           C == A \cup B
           P == InitialProducers
           f == [k \in C |-> blocks[k].producer]
           N == Len(Initial)
<1>1. Len(blocks) \in Nat /\ N \in Nat
    BY AppendFacts, DposAssumption DEF TypeInv
<1>2. \A k \in C : k \in 2 .. Len(blocks) /\ h \in Heights(k)
    <2>1. blocks[i].anc \subseteq 1 .. Len(blocks) /\ blocks[j].anc \subseteq 1 .. Len(blocks)
        BY DEF TypeInv, TypeOK, IsBlock
    <2> QED
        BY <2>1, <1>1 DEF Confirmers
<1>3. IsFiniteSet(A) /\ IsFiniteSet(B)
    <2>1. A \subseteq 1 .. Len(blocks) /\ B \subseteq 1 .. Len(blocks)
        BY <1>1, <1>2
    <2> HIDE DEF A, B
    <2> QED
        BY <2>1, <1>1, UpToFinite, ZenonT(60)
<1>4. IsFiniteSet(P) /\ Cardinality(P) <= N
    <2> DEFINE e == [k \in 1 .. N |-> Initial[k]]
    <2>1. IsFiniteSet(1 .. N) /\ Cardinality(1 .. N) = N
        BY <1>1, UpToFinite, ZenonT(60)
    <2>2. e \in Surjection(1 .. N, P)
        BY DEF Surjection, InitialProducers
    <2> HIDE DEF e, N, P
    <2>3. IsFiniteSet(P) /\ Cardinality(P) <= Cardinality(1 .. N)
        BY <2>1, <2>2, FS_Surjection, ZenonT(60)
    <2> QED
        BY <2>1, <2>3, ZenonT(60)
<1>5. f \in Injection(C, P)
    <2>1. f \in [C -> P]
        BY <1>1, <1>2 DEF Scheduled
    <2>2. ASSUME NEW k \in C, NEW m \in C, f[k] = f[m]
          PROVE  k = m
        <3>1. blocks[k].producer = blocks[m].producer
            BY <2>2
        <3>2. /\ k \in 2 .. Len(blocks) /\ m \in 2 .. Len(blocks)
              /\ h \in Heights(k) /\ h \in Heights(m)
            BY <1>2
        <3> QED
            BY <3>1, <3>2, ZenonT(60) DEF NoDoubleConfirm
    <2> HIDE DEF f, C, P
    <2> QED
        BY <2>1, <2>2, ZenonT(60) DEF Injection, IsInjective
<1> HIDE DEF A, B, f, P, N
<1>6. Cardinality(C) <= N
    <2>1. IsFiniteSet(C) /\ Cardinality(C) <= Cardinality(P)
        BY <1>4, <1>5, FS_Injection, ZenonT(60)
    <2>2. Cardinality(C) \in Nat /\ Cardinality(P) \in Nat
        BY <2>1, <1>4, FS_CardinalityType
    <2> QED
        BY <2>1, <2>2, <1>1, <1>4
<1>7. Cardinality(C) = Cardinality(A) + Cardinality(B) - Cardinality(A \cap B)
    BY <1>3, FS_Union
<1>8. /\ Cardinality(A) \in Nat /\ Cardinality(B) \in Nat
      /\ (N * 2) \div 3 + 1 <= Cardinality(A) /\ (N * 2) \div 3 + 1 <= Cardinality(B)
    BY <1>3, FS_CardinalityType DEF A, B, N, Quorum
<1>9. Cardinality(A \cap B) # 0
    BY <1>1, <1>6, <1>7, <1>8
<1> QED
    BY <1>9, FS_EmptySet DEF A, B

\* The invariant behind OneProposed.
ProposedInv == SignedInv /\ Chained /\ Scheduled /\ Counted

LEMMA ProposedInit == Init => ProposedInv
<1> SUFFICES ASSUME Init
             PROVE  ProposedInv
    OBVIOUS
<1>1. SignedInv
    BY SignedInit
<1>2. /\ Len(blocks) = 1
      /\ blocks[1].anc = {1}
      /\ blocks[1].producer = Initial[1]
      /\ blocks[1].st = GenesisState(Initial)
    BY DEF Init
<1>3. /\ Num(1) = 1
      /\ blocks[1].st.active = Initial
      /\ blocks[1].st.confirm_count = <<>>
      /\ blocks[1].st.proposed = 0
    BY <1>2 DEF Num, GenesisState
<1>4. \A i \in 1 .. Len(blocks) : i = 1
    BY <1>2
<1>5. Chained
    BY <1>2, <1>3, <1>4 DEF Chained
<1>6. Scheduled
    <2>1. Initial[1] \in InitialProducers
        BY DposAssumption DEF InitialProducers
    <2> QED
        BY <2>1, <1>2, <1>3, <1>4 DEF Scheduled
<1>7. Counted
    BY <1>3, <1>4 DEF Counted, Makes
<1> QED
    BY <1>1, <1>5, <1>6, <1>7 DEF ProposedInv

LEMMA ProposedStep == ProposedInv /\ [Next]_vars => ProposedInv'
<1> SUFFICES ASSUME ProposedInv, [Next]_vars
             PROVE  Chained' /\ Scheduled' /\ Counted'
    BY SignedStep DEF ProposedInv
<1>1. TypeInv /\ Chained /\ Scheduled /\ Counted
    BY DEF ProposedInv, SignedInv
<1>2. ASSUME NEW p \in Producers, NEW i \in 1 .. Len(blocks), produce_block(p, i)
      PROVE  Chained' /\ Scheduled' /\ Counted'
    BY <1>1, <1>2, ProduceChained, ProduceScheduled, ProduceCounted
<1>3. CASE blocks' = blocks
    <2>1. Chained' /\ Scheduled'
        BY <1>1, <1>3 DEF Chained, Scheduled, Num
    <2>2. Counted'
        BY <1>1, <1>3, ZenonT(60) DEF Counted, CountAt, Confirmers, Heights, Num
    <2> QED
        BY <2>1, <2>2
<1>4. blocks' = blocks \/ \E p \in Producers, i \in 1 .. Len(blocks) : produce_block(p, i)
    BY DEF Next, Tick, Restart, vars
<1> QED
    BY <1>2, <1>3, <1>4

\* If two blocks propose the same height, they propose the same block: a block
\* of both quorums has one ancestor of that height.
LEMMA ProposedOnce == ProposedInv => OneProposed
<1> SUFFICES ASSUME ProposedInv, Unbroken, NEW i \in 1 .. Len(blocks),
                    NEW j \in 1 .. Len(blocks),
                    blocks[i].st.proposed = blocks[j].st.proposed
             PROVE  At(i, blocks[i].st.proposed) = At(j, blocks[j].st.proposed)
    BY DEF OneProposed
<1>1. TypeInv /\ Chained /\ Scheduled /\ Counted /\ NoDoubleConfirm
    BY DEF ProposedInv, SignedInv, Signed, Unbroken
<1>2. PICK h \in Nat : h = blocks[i].st.proposed /\ h = blocks[j].st.proposed
    BY <1>1, BlockTypes
<1>3. \A k \in 1 .. Len(blocks) : /\ Num(k) \in Nat /\ Num(k) >= 1
                                   /\ blocks[k].confirmed \in Nat
                                   /\ blocks[k].anc \subseteq 1 .. Len(blocks)
    BY <1>1, BlockTypes DEF Chained, Num
<1>4. CASE h = 0
    BY <1>2, <1>3, <1>4 DEF At
<1>5. CASE h # 0
    <2>1. Quorum <= Cardinality(Confirmers(i, h)) /\ Quorum <= Cardinality(Confirmers(j, h))
        BY <1>1, <1>2, <1>5, ZenonT(60) DEF Counted, CountAt
    <2>2. PICK k \in Confirmers(i, h) : k \in Confirmers(j, h)
        BY <2>1, <1>1, QuorumsMeet
    <2>3. k \in blocks[i].anc /\ k \in blocks[j].anc /\ h \in Heights(k) /\ k \in 1 .. Len(blocks)
        BY <2>2, <1>3 DEF Confirmers
    <2>4. h <= Num(k)
        BY <2>3, <1>3 DEF Heights
    <2>5. ASSUME NEW m \in 1 .. Len(blocks), k \in blocks[m].anc
          PROVE  At(m, h) = At(k, h)
        <3>1. blocks[k].anc = {a \in blocks[m].anc : Num(a) <= Num(k)}
            BY <2>5, <1>1 DEF Chained
        <3>2. \A a \in blocks[m].anc : Num(a) = h => a \in blocks[k].anc
            BY <3>1, <2>4
        <3> QED
            BY <3>1, <3>2 DEF At
    <2> QED
        BY <2>3, <2>5, <1>2, ZenonT(60)
<1> QED
    BY <1>4, <1>5

\* For any number of producers, any schedule of them, any forks and delays:
\* until a node is restarted, no two blocks of one height are ever proposed as
\* irreversible, on whatever branches.  It rests on the exact count that
\* confirm_count keeps of the confirmations on a block's own chain, on the
\* quorum of required_confs, and on NoProducerConfirmsTwice.
THEOREM OnlyOneProposed == Spec => []OneProposed
    BY ProposedInit, ProposedStep, ProposedOnce, PTL DEF Spec
-----------------------------------------------------------------------------
\* The invariant behind NeverRefused: no header state knows of a block of a
\* producer above its watermark.
Marked ==
    \A i \in 1 .. Len(blocks), q \in Producers :
       q \in DOMAIN blocks[i].st.last_produced => blocks[i].st.last_produced[q] <= watermark[q]

MarkedInv == ProposedInv /\ (restarts = Restarts => Marked)

LEMMA ProduceMarked ==
    ASSUME TypeInv, Scheduled, Marked, NEW p \in Producers, NEW i \in 1 .. Len(blocks),
           produce_block(p, i)
    PROVE  Marked'
<1> DEFINE s == blocks[i].st
           c == blocks_to_confirm(p, s)
           t == next(s, time, c, {})
           up == Promotes(s, p)
           lib == calc_dpos_last_irreversible(s, p)
           lp == IF up THEN Promoted(s.last_produced, s, lib) ELSE s.last_produced
<1>1. PICK n : n = Len(blocks) + 1
    OBVIOUS
<1>2. /\ Len(blocks') = n
      /\ \A j \in 1 .. Len(blocks) : blocks'[j] = blocks[j]
      /\ blocks'[n].st = t
      /\ \A j \in 1 .. n : j \in 1 .. Len(blocks) \/ j = n
    BY <1>1, ProducedShape, ZenonT(60)
<1>3. /\ p = get_scheduled_producer(s, time)
      /\ watermark' = [watermark EXCEPT ![p] = s.num + 1]
      /\ watermark[p] < s.num + 1
    BY ZenonT(60) DEF produce_block, producing, Num
<1>4. /\ watermark \in [Producers -> Nat] /\ s.num \in Nat
      /\ IsMap(s.last_produced)
    BY BlockTypes DEF TypeInv, TypeOK
<1>5. \A q \in Producers :
         watermark[q] \in Nat /\ watermark'[q] \in Nat /\ watermark[q] <= watermark'[q]
    BY <1>3, <1>4
<1>6. \A q \in DOMAIN lp : lp[q] \in Nat /\ lp[q] <= watermark[q]
    <2>1. CASE s.pending.producers = <<>>
        <3>1. lp = s.last_produced
            BY <2>1 DEF Promotes
        <3>2. \A q \in DOMAIN s.last_produced : q \in Producers /\ s.last_produced[q] \in Nat
            BY <1>4 DEF IsMap
        <3> HIDE DEF lp
        <3> QED
            BY <3>1, <3>2, ZenonT(60) DEF Marked
    <2>2. CASE s = GenesisState(Initial)
        <3>1. lib = 0 /\ DOMAIN s.last_produced = {} /\ s.pending.producers = Initial
            BY <2>2 DEF GenesisState, calc_dpos_last_irreversible
        <3>2. DOMAIN lp \subseteq Producers /\ \A q \in DOMAIN lp : lp[q] = 0
            <4> HIDE DEF s, lib, up
            <4> QED
                BY <3>1, DposAssumption DEF Promoted
        <3> HIDE DEF lp
        <3> QED
            BY <3>2, <1>5
    <2>3. s.pending.producers = <<>> \/ s = GenesisState(Initial)
        BY ZenonT(60) DEF Scheduled
    <2> HIDE DEF lp, s
    <2> QED
        BY <2>1, <2>2, <2>3, ZenonT(60)
<1>7. t.last_produced = Put(lp, p, s.num + 1)
    BY <1>3, ZenonT(60) DEF next
<1> HIDE DEF lp, t, s
<1>8. \A q \in Producers : q \in DOMAIN t.last_produced => t.last_produced[q] <= watermark'[q]
    <2> SUFFICES ASSUME NEW q \in Producers, q \in DOMAIN t.last_produced
                 PROVE  t.last_produced[q] <= watermark'[q]
        OBVIOUS
    <2>1. t.last_produced[q] = IF q = p THEN s.num + 1 ELSE lp[q]
        BY <1>7 DEF Put
    <2>2. CASE q = p
        BY <2>1, <2>2, <1>3, <1>4
    <2>3. CASE q # p
        <3>1. q \in DOMAIN lp
            BY <2>3, <1>7 DEF Put
        <3> QED
            BY <2>1, <2>3, <3>1, <1>5, <1>6
    <2> QED
        BY <2>2, <2>3
<1>9. ASSUME NEW j \in 1 .. Len(blocks'), NEW q \in Producers,
             q \in DOMAIN blocks'[j].st.last_produced
      PROVE  blocks'[j].st.last_produced[q] <= watermark'[q]
    <2>1. CASE j \in 1 .. Len(blocks)
        <3>1. q \in DOMAIN blocks[j].st.last_produced /\ blocks'[j] = blocks[j]
            BY <2>1, <1>2, <1>9
        <3>2. blocks[j].st.last_produced[q] <= watermark[q]
            BY <2>1, <3>1 DEF Marked
        <3>3. blocks[j].st.last_produced[q] \in Nat
            BY <2>1, <3>1, BlockTypes DEF IsMap
        <3> QED
            BY <3>1, <3>2, <3>3, <1>5
    <2>2. CASE j = n
        BY <2>2, <1>2, <1>8, <1>9
    <2> QED
        BY <2>1, <2>2, <1>2
<1> QED
    BY <1>9 DEF Marked

LEMMA MarkedStep == MarkedInv /\ [Next]_vars => MarkedInv'
<1> SUFFICES ASSUME MarkedInv, [Next]_vars, restarts' = Restarts
             PROVE  Marked'
    BY ProposedStep DEF MarkedInv
<1>1. TypeInv /\ Scheduled
    BY DEF MarkedInv, ProposedInv, SignedInv
<1>2. CASE Tick \/ UNCHANGED vars
    <2>1. blocks' = blocks /\ watermark' = watermark /\ restarts' = restarts
        BY <1>2 DEF Tick, vars
    <2>2. Marked
        BY <2>1 DEF MarkedInv
    <2> QED
        BY <2>1, <2>2 DEF Marked
<1>3. ASSUME NEW p \in Producers, Restart(p)
      PROVE  FALSE
    BY <1>1, <1>3, DposAssumption DEF Restart, TypeInv, TypeOK
<1>4. ASSUME NEW p \in Producers, NEW i \in 1 .. Len(blocks), produce_block(p, i)
      PROVE  Marked'
    <2>1. restarts = Restarts
        BY <1>4 DEF produce_block
    <2> QED
        BY <2>1, <1>1, <1>4, ProduceMarked DEF MarkedInv
<1> QED
    BY <1>2, <1>3, <1>4 DEF Next

\* For any number of producers, any schedule of them, any forks and delays:
\* until a node is restarted, next() never refuses the block that start_block
\* has decided to produce, on whatever branch the head is.
THEOREM ProducersNotRefused == Spec => []NeverRefused
<1>1. Init => MarkedInv
    <2> SUFFICES ASSUME Init
                 PROVE  Marked
        BY ProposedInit DEF MarkedInv
    <2>1. Len(blocks) = 1 /\ blocks[1].st.last_produced = <<>>
        BY DEF Init, GenesisState
    <2> QED
        BY <2>1 DEF Marked
<1>2. MarkedInv => NeverRefused
    <2> SUFFICES ASSUME MarkedInv, Unbroken, NEW p \in Producers, NEW i \in 1 .. Len(blocks),
                        producing(p, i)
                 PROVE  CanNext(blocks[i].st, time, blocks_to_confirm(p, blocks[i].st))
        BY DEF NeverRefused
    <2> DEFINE s == blocks[i].st
               c == blocks_to_confirm(p, s)
    <2>1. TypeInv /\ Marked
        BY DEF MarkedInv, ProposedInv, SignedInv, Unbroken
    <2>2. /\ s.slot < time /\ get_scheduled_producer(s, time) = p
          /\ watermark[p] < Num(i) + 1
        BY DEF producing
    <2>3. c \in 0 .. MaxConfirm /\ s.num + 1 - c > watermark[p]
        BY <2>1, <2>2, ConfirmCount, ZenonT(60) DEF Num
    <2>4. s.slot \in Nat /\ time \in Nat /\ s.num \in Nat /\ watermark[p] \in Nat /\ c \in Nat
        <3>1. s.slot \in Nat /\ s.num \in Nat
            BY <2>1, BlockTypes
        <3> HIDE DEF s, c
        <3> QED
            BY <2>1, <2>3, <3>1, DposAssumption DEF TypeInv, TypeOK
    <2>5. ASSUME p \in DOMAIN s.last_produced
          PROVE  s.last_produced[p] < s.num + 1 - c
        <3>1. s.last_produced[p] \in Nat
            BY <2>1, <2>5, BlockTypes DEF IsMap
        <3>2. s.last_produced[p] <= watermark[p]
            BY <2>1, <2>5 DEF Marked
        <3> HIDE DEF c, s
        <3> QED
            BY <3>1, <3>2, <2>3, <2>4
    <2> HIDE DEF c, s
    <2>6. time > s.slot
        BY <2>2, <2>4
    <2> QED
        BY <2>2, <2>5, <2>6 DEF CanNext, s, c
<1> QED
    BY <1>1, <1>2, MarkedStep, PTL DEF Spec
=============================================================================
