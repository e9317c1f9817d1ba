---------------------------- MODULE RelayProofs ----------------------------
(***************************************************************************)
(* For any relayers, deposits, blocks, forks and failing handlers: the     *)
(* handlers of the mapped chain see its blocks once and in order, and no   *)
(* block is left behind in the list of unconfirmed ones.                   *)
(***************************************************************************)
EXTENDS Relay, TLAPS

\* A list of deliveries is in order, and nothing in it is beyond block l.
InOrderUpTo(d, l) ==
  /\ \A i, j \in 1 .. Len(d) :
       i < j => d[i].block = d[j].block \/ Num[d[i].block] < Num[d[j].block]
  /\ \A i \in 1 .. Len(d) :
       l # Nil /\ (d[i].block = l \/ Num[d[i].block] < Num[l])

\* The "on" actions of a transaction come before its onblocks, and are of the
\* block relayed last.
PendingShape ==
  /\ \A i, j \in 1 .. Len(pending) :
       i < j /\ IsOnblock(pending[i]) => IsOnblock(pending[j])
  /\ \A i \in 1 .. Len(pending) :
       ~IsOnblock(pending[i]) => pending[i].block = last

\* What makes DeliveredInOrder inductive.
RelayInv ==
  /\ TypeOK
  /\ PendingShape
  /\ InOrderUpTo(delivered, last)
  /\ InOrderUpTo(saved.delivered, saved.last)

\* An element of a sequence over a set is in the set.
LEMMA ElementOf ==
  ASSUME NEW S, NEW s \in Seq(S), NEW i \in 1 .. Len(s)
  PROVE  s[i] \in S
OBVIOUS

\* A sequence of length 0 has no positions.
LEMMA NoPositions ==
  ASSUME NEW n, n = 0
  PROVE  1 .. n = {}
OBVIOUS

\* Picking positions of a sequence gives a sequence over the same set.
LEMMA PickIsSeq ==
  ASSUME NEW S, NEW s \in Seq(S), NEW n \in Nat, NEW f \in [1 .. n -> 1 .. Len(s)]
  PROVE  [i \in DOMAIN f |-> s[f[i]]] \in Seq(S)
<1>1. \A i \in 1 .. n : s[f[i]] \in S
  OBVIOUS
<1>2. QED
  BY <1>1

\* The onblocks a commit sends are inline actions, all of them onblocks.
LEMMA HandOverShape ==
  ASSUME NEW s \in Seq(Entry), HandOver(s)
  PROVE  /\ unconfirms' \in Seq(Entry)
         /\ pending' \in Seq(Inline)
         /\ \A i \in 1 .. Len(pending') : IsOnblock(pending'[i])
<1>1. PICK n \in 0 .. Len(s) : pending' = [i \in 1 .. n |-> OnblockOf(s[i].base)]
  BY DEF HandOver
<1>2. \A i \in 1 .. n : OnblockOf(s[i].base) \in Inline
  <2>1. \A i \in 1 .. n : s[i] \in Entry
    OBVIOUS
  <2>2. QED
    BY <2>1 DEF Entry, OnblockOf, Inline
<1>3. n \in Nat
  OBVIOUS
<1>4. pending' \in Seq(Inline) /\ Len(pending') = n
  BY <1>1, <1>2, <1>3
<1>5. QED
  BY <1>1, <1>3, <1>4 DEF HandOver, IsOnblock, OnblockOf

-----------------------------------------------------------------------------
\* A commit leaves a list of entries and sends onblocks only.
LEMMA CommitShape ==
  ASSUME TypeOK, NEW t \in Relayers, NEW b \in Blocks, commit(t, b)
  PROVE  /\ unconfirms' \in Seq(Entry)
         /\ pending' \in Seq(Inline)
         /\ \A i \in 1 .. Len(pending') : IsOnblock(pending'[i])
<1>1. CASE \E i \in 1 .. Len(unconfirms) :
             /\ ConfirmBy(unconfirms[i], t) # Nil
             /\ HandOver([unconfirms EXCEPT ![i] = ConfirmBy(@, t)])
  <2>1. PICK i \in 1 .. Len(unconfirms) :
          /\ ConfirmBy(unconfirms[i], t) # Nil
          /\ HandOver([unconfirms EXCEPT ![i] = ConfirmBy(@, t)])
    BY <1>1, ZenonT(60)
  <2>2. unconfirms[i] \in Entry
    BY DEF TypeOK
  <2>3. ConfirmBy(unconfirms[i], t) \in Entry
    <3>1. deposit[t] \in Nat
      BY DEF TypeOK
    <3>2. /\ unconfirms[i].confirm + deposit[t] \in Nat
          /\ unconfirms[i].confirmeds \cup {t} \in SUBSET Relayers
      BY <2>2, <3>1 DEF Entry
    <3>3. ConfirmBy(unconfirms[i], t) =
            [unconfirms[i] EXCEPT !.confirm = @ + deposit[t],
                                  !.confirmeds = @ \cup {t}]
      BY <2>1 DEF ConfirmBy
    <3>4. QED
      BY <2>2, <3>2, <3>3, ZenonT(60) DEF Entry
  <2>4. [unconfirms EXCEPT ![i] = ConfirmBy(@, t)] \in Seq(Entry)
    BY <2>3 DEF TypeOK
  <2>5. QED
    BY <2>1, <2>4, HandOverShape
<1>2. CASE \E p \in Bijection(1 .. Len(unconfirms) + 1,
                                1 .. Len(unconfirms) + 1) :
             LET s == Append(unconfirms, [base |-> b, confirm |-> deposit[t],
                                          confirmeds |-> {t}])
                 u == [i \in 1 .. Len(s) |-> s[p[i]]]
             IN  SortedByNum(u) /\ HandOver(u)
  <2> DEFINE s == Append(unconfirms, [base |-> b, confirm |-> deposit[t],
                                      confirmeds |-> {t}])
  <2>1. s \in Seq(Entry) /\ Len(s) = Len(unconfirms) + 1
    BY DEF TypeOK, Entry
  <2>2. PICK p \in Bijection(1 .. Len(s), 1 .. Len(s)) :
          HandOver([i \in 1 .. Len(s) |-> s[p[i]]])
    BY <1>2, <2>1, ZenonT(60)
  <2>3. p \in [1 .. Len(s) -> 1 .. Len(s)] /\ Len(s) \in Nat
    BY <2>1 DEF Bijection, Injection
  <2> HIDE DEF s
  <2>4. [i \in 1 .. Len(s) |-> s[p[i]]] \in Seq(Entry)
    BY <2>1, <2>3, PickIsSeq, ZenonT(60)
  <2>5. QED
    BY <2>2, <2>4, HandOverShape
<1>3. QED
  <2>1. Len(Append(unconfirms, [base |-> b, confirm |-> deposit[t],
                                confirmeds |-> {t}])) = Len(unconfirms) + 1
    BY DEF TypeOK, Entry
  <2>2. QED
    BY <1>1, <1>2, <2>1, ZenonT(60) DEF commit

\* onblockimp leaves a list of entries, and puts the "on" actions of the block
\* in front of the onblocks that remain.
LEMMA OnblockimpShape ==
  ASSUME TypeOK, pending # <<>>, NEW b \in Blocks,
         NEW e \in Blocks, onblockimp(b, e)
  PROVE  /\ unconfirms' \in Seq(Entry)
         /\ \E d \in Seq(Inline) :
              /\ pending' = d \o Tail(pending)
              /\ \A i \in 1 .. Len(d) : ~IsOnblock(d[i]) /\ d[i].block = b
<1>1. unconfirms' \in Seq(Entry)
  <2>1. Len(unconfirms) \in Nat /\ Unhandled(b) \subseteq 1 .. Len(unconfirms)
    BY DEF TypeOK, Unhandled
  <2>2. PICK n \in 0 .. Len(unconfirms) : \E f \in [1 .. n -> Unhandled(b)] :
          unconfirms' = [i \in DOMAIN f |-> unconfirms[f[i]]]
    BY ZenonT(60) DEF onblockimp
  <2>3. PICK f \in [1 .. n -> Unhandled(b)] :
          unconfirms' = [i \in DOMAIN f |-> unconfirms[f[i]]]
    BY <2>2
  <2>4. f \in [1 .. n -> 1 .. Len(unconfirms)] /\ n \in Nat
    BY <2>1
  <2>5. unconfirms \in Seq(Entry)
    BY DEF TypeOK
  <2>6. [i \in DOMAIN f |-> unconfirms[f[i]]] \in Seq(Entry)
    BY <2>4, <2>5, PickIsSeq
  <2>7. QED
    BY <2>3, <2>6
<1>2. \E d \in Seq(Inline) :
        /\ pending' = d \o Tail(pending)
        /\ \A i \in 1 .. Len(d) : ~IsOnblock(d[i]) /\ d[i].block = b
  <2>1. Actions[e] \in Seq(Acts)
    BY RelayAssumption
  <2>2. Len(Actions[e]) \in Nat /\ Mapped(e) \subseteq 1 .. Len(Actions[e])
    BY <2>1 DEF Mapped
  <2>3. PICK n \in 0 .. Len(Actions[e]) : \E f \in [1 .. n -> Mapped(e)] :
          pending' = [i \in DOMAIN f |-> OnOf(b, Actions[e][f[i]])]
                       \o Tail(pending)
    BY ZenonT(60) DEF onblockimp
  <2>4. PICK f \in [1 .. n -> Mapped(e)] :
          pending' = [i \in DOMAIN f |-> OnOf(b, Actions[e][f[i]])]
                       \o Tail(pending)
    BY <2>3, ZenonT(60)
  <2> DEFINE d == [i \in DOMAIN f |-> OnOf(b, Actions[e][f[i]])]
  <2>5. \A i \in 1 .. n :
          /\ Actions[e][f[i]] \in Acts
          /\ \E ty \in Types : handlers[ty] = Actions[e][f[i]]
    <3>1. \A i \in 1 .. n : f[i] \in Mapped(e)
      OBVIOUS
    <3>2. \A j \in 1 .. Len(Actions[e]) : Actions[e][j] \in Acts
      BY <2>1
    <3>3. QED
      BY <3>1, <3>2, ZenonT(60) DEF Mapped
  <2>6. \A i \in 1 .. n :
          OnOf(b, Actions[e][f[i]]) \in Inline
    BY <2>5 DEF OnOf, Inline
  <2>7. d \in Seq(Inline) /\ Len(d) = n
    BY <2>2, <2>6
  <2>8. \A i \in 1 .. Len(d) : ~IsOnblock(d[i]) /\ d[i].block = b
    BY <2>5, <2>7, RelayAssumption DEF OnOf, IsOnblock
  <2>9. QED
    BY <2>4, <2>7, <2>8, ZenonT(60)
<1>3. QED
  BY <1>1, <1>2, ZenonT(60)

LEMMA BasesAreBlocks ==
  ASSUME TypeOK
  PROVE  \A i \in 1 .. Len(unconfirms) : unconfirms[i].base \in Blocks
<1>1. \A i \in 1 .. Len(unconfirms) : unconfirms[i] \in Entry
  BY DEF TypeOK
<1>2. QED
  BY <1>1 DEF Entry

\* What is left of a transaction once its first inline action has run.
LEMMA TailShape ==
  ASSUME TypeOK, PendingShape, pending # <<>>
  PROVE  /\ Head(pending) \in Inline /\ Head(pending) = pending[1]
         /\ Tail(pending) \in Seq(Inline)
         /\ Len(Tail(pending)) = Len(pending) - 1
         /\ \A i \in 1 .. Len(Tail(pending)) :
              /\ Tail(pending)[i] = pending[i + 1]
              /\ i + 1 \in 1 .. Len(pending)
         /\ IsOnblock(Head(pending)) =>
              \A i \in 1 .. Len(Tail(pending)) : IsOnblock(Tail(pending)[i])
<1>1. pending \in Seq(Inline) /\ Len(pending) \in Nat /\ Len(pending) # 0
  BY DEF TypeOK
<1>2. /\ Head(pending) \in Inline /\ Head(pending) = pending[1]
      /\ Tail(pending) \in Seq(Inline)
      /\ Len(Tail(pending)) = Len(pending) - 1
      /\ \A i \in 1 .. Len(Tail(pending)) : Tail(pending)[i] = pending[i + 1]
  BY <1>1
<1>3. \A i \in 1 .. Len(Tail(pending)) :
        i + 1 \in 1 .. Len(pending) /\ 1 < i + 1 /\ 1 \in 1 .. Len(pending)
  BY <1>1, <1>2
<1>4. QED
  BY <1>2, <1>3 DEF PendingShape

-----------------------------------------------------------------------------
LEMMA InitRelayInv == Init => RelayInv
<1> SUFFICES ASSUME Init
             PROVE  RelayInv
  OBVIOUS
<1>1. TypeOK
  <2>1. <<>> \in Seq(Entry) /\ <<>> \in Seq(Inline)
    OBVIOUS
  <2>2. QED
    BY <2>1, ZenonT(60) DEF Init, TypeOK
<1>2. Len(pending) = 0 /\ Len(delivered) = 0 /\ Len(saved.delivered) = 0
  BY DEF Init
<1>3. QED
  BY <1>1, <1>2 DEF RelayInv, PendingShape, InOrderUpTo

\* Every action keeps the invariant: the ones of the administrator and of
\* depositors touch nothing it is about; commit and onblock start a
\* transaction and save what is in order; RunOnblock moves last up; RunOn
\* delivers for the block last relayed; Undo goes back to what was saved.
LEMMA NextRelayInv == RelayInv /\ [Next]_vars => RelayInv'
<1> SUFFICES ASSUME RelayInv, [Next]_vars
             PROVE  RelayInv'
  OBVIOUS
<1> USE DEF RelayInv
<1> DEFINE Kept == UNCHANGED <<last, unconfirms, pending, saved, delivered>>
<1>0. ASSUME Kept, TypeOK'
      PROVE  RelayInv'
  BY <1>0, ZenonT(60) DEF PendingShape, InOrderUpTo, IsOnblock
<1>1. CASE newchannel
  BY <1>0, <1>1, ZenonT(60) DEF newchannel, TypeOK
<1>2. ASSUME NEW ty \in Types, NEW a \in Acts, newmap(ty, a)
      PROVE  RelayInv'
  BY <1>0, <1>2, ZenonT(60) DEF newmap, TypeOK
<1>3. ASSUME NEW t \in Relayers, NEW m \in Amounts, new_transfer(t, m)
      PROVE  RelayInv'
  <2>1. deposit_sum' \in Nat /\ m \in Nat
    BY <1>3, RelayAssumption DEF new_transfer, NewSum, TypeOK
  <2>2. QED
    BY <1>0, <1>3, <2>1, ZenonT(60) DEF new_transfer, TypeOK
<1>4. ASSUME NEW t \in Relayers, NEW b \in Blocks, commit(t, b)
      PROVE  RelayInv'
  <2>1. /\ unconfirms' \in Seq(Entry)
        /\ pending' \in Seq(Inline)
        /\ \A i \in 1 .. Len(pending') : IsOnblock(pending'[i])
    BY <1>4, CommitShape
  <2>2. TypeOK'
    BY <1>4, <2>1, ZenonT(60) DEF commit, config, TypeOK
  <2>3. PendingShape'
    BY <2>1, ZenonT(60) DEF PendingShape, IsOnblock
  <2>4. InOrderUpTo(delivered, last)' /\ InOrderUpTo(saved.delivered, saved.last)'
    BY <1>4, ZenonT(60) DEF commit, InOrderUpTo
  <2>5. QED
    BY <2>2, <2>3, <2>4
<1>5. ASSUME NEW b \in Blocks, onblock(b)
      PROVE  RelayInv'
  <2>1. OnblockOf(b) \in Inline /\ IsOnblock(OnblockOf(b))
    BY DEF OnblockOf, Inline, IsOnblock
  <2>2. TypeOK'
    BY <1>5, <2>1 DEF onblock, config, TypeOK
  <2>3. PendingShape'
    BY <1>5, <2>1 DEF onblock, PendingShape, IsOnblock
  <2>4. InOrderUpTo(delivered, last)' /\ InOrderUpTo(saved.delivered, saved.last)'
    BY <1>5, ZenonT(60) DEF onblock, InOrderUpTo
  <2>5. QED
    BY <2>2, <2>3, <2>4
<1>6. CASE RunOnblock
  <2> DEFINE b == Head(pending).block
  <2>1. /\ pending # <<>>
        /\ IsOnblock(Head(pending))
        /\ b \in Blocks
        /\ \A i \in 1 .. Len(Tail(pending)) : IsOnblock(Tail(pending)[i])
        /\ Tail(pending) \in Seq(Inline)
    BY <1>6, TailShape, ZenonT(60) DEF RunOnblock, Idle, Inline
  <2>2. CASE /\ pending' = Tail(pending)
             /\ UNCHANGED <<last, unconfirms, nil_relayed>>
    <3>1. TypeOK'
      BY <1>6, <2>1, <2>2, ZenonT(60) DEF RunOnblock, config, TypeOK
    <3>2. PendingShape'
      BY <2>1, <2>2 DEF PendingShape, IsOnblock
    <3>3. InOrderUpTo(delivered, last)' /\ InOrderUpTo(saved.delivered, saved.last)'
      BY <1>6, <2>2, ZenonT(60) DEF RunOnblock, InOrderUpTo
    <3>4. QED
      BY <3>1, <3>2, <3>3
  <2>3. ASSUME NEW e \in Blocks, ~AlreadyRelayed(b), onblockimp(b, e)
        PROVE  RelayInv'
    <3> HIDE DEF b
    <3>1. unconfirms' \in Seq(Entry)
      BY <2>1, <2>3, OnblockimpShape
    <3>2. PICK d \in Seq(Inline) :
            /\ pending' = d \o Tail(pending)
            /\ \A i \in 1 .. Len(d) : ~IsOnblock(d[i]) /\ d[i].block = b
      BY <2>1, <2>3, OnblockimpShape, ZenonT(60)
    <3>3. last' = b
      BY <2>3 DEF onblockimp
    <3>4. pending' \in Seq(Inline)
      BY <2>1, <3>2
    <3>5. TypeOK'
      <4>1. nil_relayed' \in BOOLEAN
        BY <2>3, ZenonT(60) DEF onblockimp
      <4>2. UNCHANGED <<config, saved, delivered>>
        BY <1>6, ZenonT(60) DEF RunOnblock
      <4>3. QED
        BY <2>1, <3>1, <3>3, <3>4, <4>1, <4>2, ZenonT(60) DEF config, TypeOK
    <3>6. PendingShape'
      <4> DEFINE r == Tail(pending)
      <4>1. /\ Len(pending') = Len(d) + Len(r)
            /\ Len(d) \in Nat /\ Len(r) \in Nat
            /\ \A i \in 1 .. Len(d) + Len(r) :
                 pending'[i] = IF i <= Len(d) THEN d[i] ELSE r[i - Len(d)]
        BY <2>1, <3>2
      <4> HIDE DEF r
      <4>2. \A i \in 1 .. Len(d) :
              i \in 1 .. Len(pending') /\ pending'[i] = d[i]
        BY <4>1
      <4>3. \A i \in 1 .. Len(pending') : i > Len(d) => IsOnblock(pending'[i])
        <5>1. \A k \in 1 .. Len(r) : IsOnblock(r[k])
          BY <2>1, ZenonT(60) DEF r
        <5>2. SUFFICES ASSUME NEW i \in 1 .. Len(pending'), i > Len(d)
                       PROVE  IsOnblock(pending'[i])
          BY <4>1
        <5>3. i - Len(d) \in 1 .. Len(r) /\ pending'[i] = r[i - Len(d)]
          BY <4>1, <5>2
        <5>4. QED
          BY <5>1, <5>3
      <4>4. \A i \in 1 .. Len(pending') :
              i <= Len(d) => ~IsOnblock(pending'[i]) /\ pending'[i].block = b
        BY <3>2, <4>1, <4>2
      <4>5. QED
        BY <3>3, <4>1, <4>3, <4>4, SMTT(30) DEF PendingShape
    <3>7. \A i \in 1 .. Len(delivered) : Num[delivered[i].block] < Num[b]
      <4>1. SUFFICES ASSUME NEW i \in 1 .. Len(delivered)
                     PROVE  Num[delivered[i].block] < Num[b]
        OBVIOUS
      <4>2. /\ last # Nil
            /\ delivered[i].block = last \/ Num[delivered[i].block] < Num[last]
        BY DEF InOrderUpTo
      <4>3. Num[last] < Num[b]
        <5>1. ~(Num[last] >= Num[b])
          BY <2>3, <4>2, ZenonT(60) DEF AlreadyRelayed, LastNum
        <5>2. Num[last] \in Nat /\ Num[b] \in Nat
          BY <2>1, <4>2, RelayAssumption, ZenonT(60) DEF TypeOK
        <5>3. \A m, n \in Nat : ~(m >= n) => m < n
          OBVIOUS
        <5>4. QED
          BY <5>1, <5>2, <5>3, ZenonT(60)
      <4>4. delivered[i].block \in Blocks
        <5>1. delivered[i] \in Inline
          BY DEF TypeOK
        <5>2. QED
          BY <5>1 DEF Inline
      <4>5. Num[delivered[i].block] \in Nat /\ Num[last] \in Nat /\ Num[b] \in Nat
        BY <2>1, <4>2, <4>4, RelayAssumption, ZenonT(60) DEF TypeOK
      <4>6. \A k, m, n \in Nat : k < m /\ m < n => k < n
        OBVIOUS
      <4>7. QED
        BY <4>2, <4>3, <4>5, <4>6, ZenonT(60)
    <3>8. InOrderUpTo(delivered, last)'
      BY <1>6, <2>1, <3>3, <3>7, RelayAssumption, ZenonT(60) DEF RunOnblock, InOrderUpTo
    <3>9. InOrderUpTo(saved.delivered, saved.last)'
      BY <1>6, ZenonT(60) DEF RunOnblock, InOrderUpTo
    <3>10. QED
      BY <3>5, <3>6, <3>8, <3>9
  <2>4. \A i \in 1 .. Len(unconfirms) : unconfirms[i].base \in Blocks
    BY BasesAreBlocks
  <2>5. QED
    BY <1>6, <2>2, <2>3, <2>4, ZenonT(60) DEF RunOnblock
<1>7. CASE RunOn
  <2>1. /\ pending # <<>> /\ ~IsOnblock(Head(pending))
        /\ delivered' = Append(delivered, Head(pending))
        /\ pending' = Tail(pending)
    BY <1>7 DEF RunOn, Idle
  <2>2. /\ Head(pending) \in Inline /\ Head(pending) = pending[1]
        /\ Tail(pending) \in Seq(Inline)
        /\ \A i \in 1 .. Len(Tail(pending)) :
             /\ Tail(pending)[i] = pending[i + 1]
             /\ i + 1 \in 1 .. Len(pending)
    BY <2>1, TailShape
  <2>3. Len(pending) \in Nat /\ Len(pending) # 0
    BY <2>1 DEF TypeOK
  <2>4. Head(pending).block = last
    BY <2>1, <2>2, <2>3 DEF PendingShape
  <2>5. /\ delivered' \in Seq(Inline)
        /\ Len(delivered') = Len(delivered) + 1
        /\ Len(delivered) \in Nat
        /\ \A i \in 1 .. Len(delivered) : delivered'[i] = delivered[i]
        /\ delivered'[Len(delivered) + 1] = Head(pending)
    BY <2>1, <2>2 DEF TypeOK
  <2>6. TypeOK'
    BY <1>7, <2>1, <2>2, <2>5, ZenonT(60) DEF RunOn, config, TypeOK
  <2>7. PendingShape'
    <3>1. last' = last
      BY <1>7 DEF RunOn
    <3>2. Len(Tail(pending)) \in Nat
      BY <2>2
    <3>3. QED
      <4>1. ASSUME NEW i \in 1 .. Len(Tail(pending)),
                   NEW j \in 1 .. Len(Tail(pending)),
                   i < j, IsOnblock(Tail(pending)[i])
            PROVE  IsOnblock(Tail(pending)[j])
        <5>1. i + 1 < j + 1
          BY <3>2, <4>1
        <5>2. QED
          BY <2>2, <4>1, <5>1, ZenonT(60) DEF PendingShape
      <4>2. ASSUME NEW i \in 1 .. Len(Tail(pending)),
                   ~IsOnblock(Tail(pending)[i])
            PROVE  Tail(pending)[i].block = last
        BY <2>2, <4>2 DEF PendingShape
      <4>3. QED
        BY <2>1, <3>1, <4>1, <4>2, ZenonT(60) DEF PendingShape, IsOnblock
  <2>8. InOrderUpTo(delivered, last)'
    <3>1. last' = last /\ last \in Blocks /\ last # Nil
      BY <1>7, <2>2, <2>4, RelayAssumption, ZenonT(60) DEF RunOn, Inline
    <3>2. QED
      BY <2>4, <2>5, <3>1 DEF InOrderUpTo
  <2>9. InOrderUpTo(saved.delivered, saved.last)'
    BY <1>7, ZenonT(60) DEF RunOn, InOrderUpTo
  <2>10. QED
    BY <2>6, <2>7, <2>8, <2>9
<1>8. CASE Undo
  <2>1. TypeOK'
    BY <1>8 DEF Undo, config, TypeOK
  <2>2. PendingShape'
    BY <1>8 DEF Undo, PendingShape
  <2>3. InOrderUpTo(delivered, last)' /\ InOrderUpTo(saved.delivered, saved.last)'
    BY <1>8, ZenonT(60) DEF Undo, InOrderUpTo
  <2>4. QED
    BY <2>1, <2>2, <2>3
<1>9. CASE UNCHANGED vars
  BY <1>0, <1>9, ZenonT(60) DEF vars, TypeOK
<1>10. QED
  BY <1>1, <1>2, <1>3, <1>4, <1>5, <1>6, <1>7, <1>8, <1>9 DEF Next

\* The state of the contract always has the shape its tables declare.
THEOREM RelayTypeCorrect == Spec => []TypeOK
<1>1. RelayInv => TypeOK
  BY DEF RelayInv
<1>2. QED
  BY <1>1, InitRelayInv, NextRelayInv, PTL DEF Spec

\* Handlers see every block number at most once and in increasing order: the
\* check of last.num in onblock, not the quorum, is what guarantees it.
THEOREM RelayedInOrder == Spec => []DeliveredInOrder
<1>1. RelayInv => DeliveredInOrder
  BY ZenonT(60) DEF RelayInv, InOrderUpTo, DeliveredInOrder
<1>2. QED
  BY <1>1, InitRelayInv, NextRelayInv, PTL DEF Spec
-----------------------------------------------------------------------------
\* A list of unconfirmed blocks is sorted, and all of it is above block l.
Waiting(s, l) ==
  /\ SortedByNum(s)
  /\ \A i \in 1 .. Len(s) : (IF l = Nil THEN 0 ELSE Num[l]) < Num[s[i].base]

\* Before the onblock of a block come those of all lower ones in the list, and
\* they are confirmed.
Preceded(p, s) ==
  \A k \in 1 .. Len(p), i \in 1 .. Len(s) :
    IsOnblock(p[k]) /\ Num[s[i].base] < Num[p[k].block] =>
      /\ IsConfirmed(s[i])
      /\ \E m \in 1 .. k - 1 : IsOnblock(p[m]) /\ p[m].block = s[i].base

\* What makes NoneStranded inductive, in the middle of a transaction too: while
\* no block with producer 0 has been relayed, commit's check is on.
Strand ==
  /\ Waiting(unconfirms, last)
  /\ Preceded(pending, unconfirms)
  /\ last \notin NilBlocks

SavedStrand ==
  /\ Waiting(saved.unconfirms, saved.last)
  /\ saved.last \notin NilBlocks

StrandInv ==
  /\ ~nil_relayed => Strand
  /\ ~saved.nil_relayed => SavedStrand

\* What HandOver sends: the onblocks of confirmed blocks at the list's head.
LEMMA HandOverPrefix ==
  ASSUME NEW s \in Seq(Entry), HandOver(s), SortedByNum(s)
  PROVE  /\ unconfirms' = s
         /\ Preceded(pending', s)
<1>1. PICK n \in 0 .. Len(s) :
        /\ IsPrefixLen(s, n)
        /\ pending' = [i \in 1 .. n |-> OnblockOf(s[i].base)]
  BY DEF HandOver
<1>2. n \in Nat /\ Len(s) \in Nat /\ 1 .. n \subseteq 1 .. Len(s)
  OBVIOUS
<1>3. Len(pending') = n
  BY <1>1, <1>2
<1>4. \A i \in 1 .. Len(s) : s[i].base \in Blocks /\ Num[s[i].base] \in Nat
  <2>1. \A i \in 1 .. Len(s) : s[i] \in Entry
    OBVIOUS
  <2>2. \A i \in 1 .. Len(s) : s[i].base \in Blocks
    BY <2>1 DEF Entry
  <2>3. QED
    BY <2>2, RelayAssumption
<1>5. ASSUME NEW k \in 1 .. n, NEW i \in 1 .. Len(s),
             Num[s[i].base] < Num[pending'[k].block]
      PROVE  /\ IsConfirmed(s[i])
             /\ \E m \in 1 .. k - 1 : IsOnblock(pending'[m]) /\ pending'[m].block = s[i].base
  <2>1. pending'[k].block = s[k].base
    BY <1>1 DEF OnblockOf
  <2>2. i < k
    <3>1. k \in 1 .. Len(s) /\ k \in Int /\ i \in Int
      BY <1>2
    <3>2. k < i => Num[s[k].base] <= Num[s[i].base]
      BY <3>1 DEF SortedByNum
    <3>3. ~ (k < i) /\ k # i
      BY <1>4, <1>5, <2>1, <3>1, <3>2
    <3>4. QED
      BY <3>1, <3>3
  <2>3. i \in 1 .. n /\ i \in 1 .. k - 1
    BY <2>2, <1>2
  <2>4. IsConfirmed(s[i])
    BY <2>3, <1>1 DEF IsPrefixLen
  <2>5. IsOnblock(pending'[i]) /\ pending'[i].block = s[i].base
    BY <2>3, <1>1 DEF OnblockOf, IsOnblock
  <2>6. QED
    BY <2>3, <2>4, <2>5
<1>6. QED
  BY <1>3, <1>5, ZenonT(60) DEF HandOver, Preceded

\* A commit adds a block above the last one, and keeps the list sorted.
LEMMA CommitStrand ==
  ASSUME TypeOK, Strand, \A b \in Blocks : Num[b] > 0,
         NEW t \in Relayers, NEW b \in Blocks, commit(t, b)
  PROVE  Strand' /\ SavedStrand'
<1> DEFINE low == IF last = Nil THEN 0 ELSE Num[last]
           e == [base |-> b, confirm |-> deposit[t], confirmeds |-> {t}]
<1>1. /\ last' = last
      /\ saved' = [last |-> last, unconfirms |-> unconfirms, delivered |-> delivered,
                   nil_relayed |-> nil_relayed]
      /\ last \notin NilBlocks
      /\ unconfirms \in Seq(Entry)
      /\ deposit[t] \in Nat
      /\ SortedByNum(unconfirms)
      /\ \A i \in 1 .. Len(unconfirms) : low < Num[unconfirms[i].base]
  BY ZenonT(60) DEF commit, TypeOK, Strand, Waiting
<1>2. low < Num[b]
  BY <1>1, ZenonT(60) DEF commit, LastNum, is_nil
<1> HIDE DEF low
<1>3. SUFFICES ASSUME NEW s \in Seq(Entry), HandOver(s), SortedByNum(s),
                      \A i \in 1 .. Len(s) : low < Num[s[i].base]
               PROVE  Strand' /\ SavedStrand'
  <2>1. ASSUME NEW i \in 1 .. Len(unconfirms), ConfirmBy(unconfirms[i], t) # Nil,
               HandOver([unconfirms EXCEPT ![i] = ConfirmBy(@, t)])
        PROVE  Strand' /\ SavedStrand'
    <3> DEFINE s == [unconfirms EXCEPT ![i] = ConfirmBy(@, t)]
    <3>1. unconfirms[i] \in Entry
      BY <1>1, ElementOf, ZenonT(60)
    <3>2. /\ ConfirmBy(unconfirms[i], t) \in Entry
          /\ ConfirmBy(unconfirms[i], t).base = unconfirms[i].base
      <4>1. ConfirmBy(unconfirms[i], t) =
              [unconfirms[i] EXCEPT !.confirm = @ + deposit[t], !.confirmeds = @ \cup {t}]
        BY <2>1 DEF ConfirmBy
      <4>2. /\ unconfirms[i].confirm + deposit[t] \in Nat
            /\ unconfirms[i].confirmeds \cup {t} \in SUBSET Relayers
        BY <3>1, <1>1 DEF Entry
      <4>3. QED
        BY <3>1, <4>1, <4>2, ZenonT(60) DEF Entry
    <3>3. s \in Seq(Entry) /\ Len(s) = Len(unconfirms)
      BY <3>2, <1>1
    <3>4. \A j \in 1 .. Len(unconfirms) : s[j].base = unconfirms[j].base
      BY <3>2, <1>1
    <3> HIDE DEF s
    <3>5. SortedByNum(s) /\ \A j \in 1 .. Len(s) : low < Num[s[j].base]
      <4>1. \A j \in 1 .. Len(s) : s[j].base = unconfirms[j].base /\ j \in 1 .. Len(unconfirms)
        BY <3>3, <3>4
      <4>2. \A j \in 1 .. Len(s) : low < Num[s[j].base]
        BY <4>1, <1>1, ZenonT(60)
      <4>3. \A j, k \in 1 .. Len(s) : j < k => Num[s[j].base] <= Num[s[k].base]
        BY <4>1, <1>1, ZenonT(60) DEF SortedByNum
      <4>4. QED
        BY <4>2, <4>3, ZenonT(60) DEF SortedByNum
    <3>6. QED
      BY <2>1, <3>3, <3>5, <1>3, ZenonT(60) DEF s
  <2>2. ASSUME NEW p \in Bijection(1 .. Len(Append(unconfirms, e)), 1 .. Len(Append(unconfirms, e))),
               LET s == Append(unconfirms, e)
                   u == [i \in 1 .. Len(s) |-> s[p[i]]]
               IN  SortedByNum(u) /\ HandOver(u)
        PROVE  Strand' /\ SavedStrand'
    <3> DEFINE s == Append(unconfirms, e)
               u == [i \in 1 .. Len(s) |-> s[p[i]]]
    <3>1. e \in Entry
      BY <1>1, ZenonT(60) DEF Entry
    <3>2. /\ s \in Seq(Entry) /\ Len(s) = Len(unconfirms) + 1 /\ Len(unconfirms) \in Nat
          /\ \A i \in 1 .. Len(unconfirms) : s[i] = unconfirms[i]
          /\ s[Len(unconfirms) + 1] = e
      BY <3>1, <1>1
    <3>3. \A i \in 1 .. Len(s) : low < Num[s[i].base]
      <4> SUFFICES ASSUME NEW i \in 1 .. Len(s)
                   PROVE  low < Num[s[i].base]
        BY ZenonT(60)
      <4>1. CASE i \in 1 .. Len(unconfirms)
        BY <4>1, <3>2, <1>1, ZenonT(60)
      <4>2. CASE i = Len(unconfirms) + 1
        BY <4>2, <3>2, <1>2
      <4>3. i \in 1 .. Len(unconfirms) \/ i = Len(unconfirms) + 1
        BY <3>2
      <4>4. QED
        BY <4>1, <4>2, <4>3, ZenonT(60)
    <3> HIDE DEF s
    <3>4. p \in [1 .. Len(s) -> 1 .. Len(s)] /\ Len(s) \in Nat
      BY <3>2 DEF Bijection, Injection, s
    <3>5. u \in Seq(Entry)
      BY <3>2, <3>4, PickIsSeq, ZenonT(60)
    <3>6. Len(u) = Len(s) /\ \A i \in 1 .. Len(u) : low < Num[u[i].base]
      BY <3>3, <3>4
    <3>7. SortedByNum(u) /\ HandOver(u)
      BY <2>2, ZenonT(60) DEF s
    <3> HIDE DEF u
    <3>8. QED
      BY <3>5, <3>6, <3>7, <1>3, ZenonT(60)
  <2>3. QED
    BY <2>1, <2>2, ZenonT(60) DEF commit
<1>4. unconfirms' = s /\ Preceded(pending', s)
  BY <1>3, HandOverPrefix, ZenonT(60)
<1>5. Waiting(unconfirms', last')
  BY <1>1, <1>3, <1>4, ZenonT(60) DEF Waiting, low
<1>6. Waiting(saved'.unconfirms, saved'.last)
  BY <1>1, ZenonT(60) DEF Waiting, low
<1>7. Preceded(pending, unconfirms)'
  <2>1. deposit_sum' = deposit_sum
    BY ZenonT(60) DEF commit, config
  <2>2. QED
    BY <2>1, <1>4, ZenonT(60) DEF Preceded, IsConfirmed, IsOnblock
<1>8. QED
  BY <1>1, <1>5, <1>6, <1>7, ZenonT(60) DEF Strand, SavedStrand, Waiting, SortedByNum

\* Relaying a block takes all of its number from the list; what is below it was
\* taken before.
LEMMA OnblockimpStrand ==
  ASSUME TypeOK, PendingShape, Strand, RunOnblock, NEW e \in Blocks,
         onblockimp(Head(pending).block, e), Head(pending).block \notin NilBlocks
  PROVE  Strand'
<1> DEFINE b == Head(pending).block
           K == Unhandled(b)
<1>1. /\ pending # <<>> /\ IsOnblock(Head(pending))
      /\ deposit_sum' = deposit_sum
  BY ZenonT(60) DEF RunOnblock, Idle, config
<1>2. /\ b \in Blocks /\ Head(pending) = pending[1]
      /\ Tail(pending) \in Seq(Inline) /\ Len(Tail(pending)) = Len(pending) - 1
      /\ \A i \in 1 .. Len(Tail(pending)) :
           Tail(pending)[i] = pending[i + 1] /\ i + 1 \in 1 .. Len(pending)
  BY <1>1, TailShape DEF Inline
<1>3. Len(pending) \in Nat /\ Len(pending) # 0
  BY <1>1 DEF TypeOK
<1>4. unconfirms \in Seq(Entry) /\ Len(unconfirms) \in Nat /\ K \subseteq 1 .. Len(unconfirms)
  BY DEF TypeOK, Unhandled
<1>5. \A i \in 1 .. Len(unconfirms) :
        unconfirms[i].base \in Blocks /\ Num[unconfirms[i].base] \in Nat
  <2>1. \A i \in 1 .. Len(unconfirms) : unconfirms[i] \in Entry
    BY <1>4
  <2>2. \A i \in 1 .. Len(unconfirms) : unconfirms[i].base \in Blocks
    BY <2>1 DEF Entry
  <2>3. QED
    BY <2>2, RelayAssumption, ZenonT(60)
<1>6. last' = b /\ Num[b] \in Nat
  <2>1. last' = b
    BY ZenonT(60) DEF onblockimp
  <2>2. Num[b] \in Nat
    <3> HIDE DEF b
    <3>1. QED
      BY <1>2, RelayAssumption
  <2>3. QED
    BY <2>1, <2>2, ZenonT(60)
<1>7. PICK n \in 0 .. Len(unconfirms) : \E f \in [1 .. n -> K] :
        /\ Enumerates(f, K)
        /\ unconfirms' = [i \in DOMAIN f |-> unconfirms[f[i]]]
  BY ZenonT(60) DEF onblockimp
<1>8. PICK f \in [1 .. n -> K] :
        /\ Enumerates(f, K)
        /\ unconfirms' = [i \in DOMAIN f |-> unconfirms[f[i]]]
  BY <1>7, ZenonT(60)
<1>9. PICK d \in Seq(Inline) :
        /\ pending' = d \o Tail(pending)
        /\ \A i \in 1 .. Len(d) : ~IsOnblock(d[i]) /\ d[i].block = b
  BY <1>1, <1>2, OnblockimpShape, ZenonT(60)
<1>10. Waiting(unconfirms, last) /\ Preceded(pending, unconfirms)
  BY DEF Strand
<1>11. \A i \in K : Num[unconfirms[i].base] # Num[b]
  BY ZenonT(60) DEF Unhandled
<1> HIDE DEF b, K
<1>12. /\ Len(unconfirms') = n
       /\ \A i \in 1 .. Len(unconfirms') :
            unconfirms'[i] = unconfirms[f[i]] /\ f[i] \in K /\ f[i] \in 1 .. Len(unconfirms)
  <2>1. DOMAIN f = 1 .. n /\ \A i \in 1 .. n : f[i] \in K
    BY <1>8
  <2>2. unconfirms' = [i \in 1 .. n |-> unconfirms[f[i]]]
    BY <2>1, <1>8, ZenonT(60)
  <2>3. Len(unconfirms') = n
    BY <1>4, <2>2
  <2>4. QED
    BY <2>1, <2>2, <2>3, <1>4, ZenonT(60)
<1>13. \A i \in 1 .. Len(unconfirms) : ~ (Num[unconfirms[i].base] < Num[b])
  <2>1. 1 \in 1 .. Len(pending) /\ 1 .. 1 - 1 = {}
    BY <1>3
  <2>2. IsOnblock(pending[1]) /\ pending[1].block = b
    BY <1>1, <1>2, ZenonT(60) DEF b
  <2>3. QED
    BY <2>1, <2>2, <1>10, ZenonT(60) DEF Preceded
<1>14. \A i \in 1 .. Len(unconfirms') : Num[b] < Num[unconfirms'[i].base]
  <2> SUFFICES ASSUME NEW i \in 1 .. Len(unconfirms')
               PROVE  Num[b] < Num[unconfirms'[i].base]
    OBVIOUS
  <2>1. PICK j \in K : unconfirms'[i] = unconfirms[j] /\ j \in 1 .. Len(unconfirms)
    BY <1>12
  <2>2. Num[unconfirms[j].base] \in Nat /\ Num[unconfirms[j].base] # Num[b]
        /\ ~ (Num[unconfirms[j].base] < Num[b])
    BY <2>1, <1>5, <1>11, <1>13, ZenonT(60)
  <2>3. QED
    BY <2>1, <2>2, <1>6
<1>15. SortedByNum(unconfirms')
  <2> SUFFICES ASSUME NEW i \in 1 .. Len(unconfirms'), NEW j \in 1 .. Len(unconfirms'), i < j
               PROVE  Num[unconfirms'[i].base] <= Num[unconfirms'[j].base]
    BY DEF SortedByNum
  <2>1. f[i] < f[j]
    BY <1>8, <1>12 DEF Enumerates
  <2>2. Num[unconfirms[f[i]].base] <= Num[unconfirms[f[j]].base]
    BY <2>1, <1>10, <1>12, ZenonT(60) DEF Waiting, SortedByNum
  <2>3. QED
    BY <2>2, <1>12, ZenonT(60)
<1>16. Waiting(unconfirms', last')
  <2>1. b # Nil
    BY <1>2, RelayAssumption, ZenonT(60) DEF b
  <2>2. QED
    BY <2>1, <1>6, <1>14, <1>15 DEF Waiting
<1>17. Preceded(pending, unconfirms)'
  <2> DEFINE r == Tail(pending)
  <2>1. /\ Len(pending') = Len(d) + Len(r)
        /\ Len(d) \in Nat /\ Len(r) \in Nat /\ Len(r) = Len(pending) - 1
        /\ \A k \in 1 .. Len(d) + Len(r) :
             pending'[k] = IF k <= Len(d) THEN d[k] ELSE r[k - Len(d)]
    BY <1>2, <1>9
  <2>2. \A k \in 1 .. Len(r) : r[k] = pending[k + 1] /\ k + 1 \in 1 .. Len(pending)
    BY <1>2
  <2> HIDE DEF r
  <2> SUFFICES ASSUME NEW k \in 1 .. Len(pending'), NEW i \in 1 .. Len(unconfirms'),
                      IsOnblock(pending'[k]),
                      Num[unconfirms'[i].base] < Num[pending'[k].block]
               PROVE  /\ IsConfirmed(unconfirms'[i])
                      /\ \E m \in 1 .. k - 1 : /\ IsOnblock(pending'[m])
                                               /\ pending'[m].block = unconfirms'[i].base
    BY <1>1, ZenonT(60) DEF Preceded, IsConfirmed, IsOnblock
  <2>3. /\ k > Len(d) /\ k - Len(d) \in 1 .. Len(r)
        /\ pending'[k] = pending[k - Len(d) + 1] /\ k - Len(d) + 1 \in 1 .. Len(pending)
    <3>1. k > Len(d)
      <4>0. k \in 1 .. Len(d) + Len(r)
        BY <2>1, ZenonT(60)
      <4>1. k <= Len(d) => k \in 1 .. Len(d) /\ pending'[k] = d[k]
        <5>1. k <= Len(d) => k \in 1 .. Len(d)
          BY <2>1, <4>0
        <5>2. k <= Len(d) => pending'[k] = d[k]
          BY <2>1, <4>0, Zenon
        <5>3. QED
          BY <5>1, <5>2, ZenonT(60)
      <4>2. ~ (k <= Len(d))
        BY <4>1, <1>9, ZenonT(60)
      <4>3. QED
        BY <4>2, <2>1
    <3>2. k - Len(d) \in 1 .. Len(r) /\ pending'[k] = r[k - Len(d)]
      BY <3>1, <2>1
    <3>3. QED
      BY <3>1, <3>2, <2>2, ZenonT(60)
  <2>4. PICK j \in 1 .. Len(unconfirms) : j \in K /\ unconfirms'[i] = unconfirms[j]
    BY <1>12, ZenonT(60)
  <2>5. /\ IsConfirmed(unconfirms[j])
        /\ \E m \in 1 .. (k - Len(d) + 1) - 1 :
             IsOnblock(pending[m]) /\ pending[m].block = unconfirms[j].base
    BY <2>3, <2>4, <1>10, ZenonT(60) DEF Preceded
  <2>6. PICK m \in 1 .. (k - Len(d) + 1) - 1 :
          IsOnblock(pending[m]) /\ pending[m].block = unconfirms[j].base
    BY <2>5, ZenonT(60)
  <2>7. m # 1
    BY <2>4, <2>6, <1>2, <1>11, ZenonT(60) DEF b
  <2>8. /\ Len(d) + (m - 1) \in 1 .. k - 1 /\ m - 1 \in 1 .. Len(r)
        /\ Len(d) + (m - 1) \in 1 .. Len(d) + Len(r) /\ Len(d) + (m - 1) > Len(d)
        /\ (Len(d) + (m - 1)) - Len(d) = m - 1 /\ (m - 1) + 1 = m
    <3>1. \A l, w, a, c \in Int : /\ 1 <= a /\ a <= (c - l + 1) - 1 /\ a # 1
                                  /\ l >= 0 /\ c - l <= w
             => /\ l + (a - 1) \in 1 .. c - 1 /\ a - 1 \in 1 .. w
                /\ l + (a - 1) \in 1 .. l + w /\ l + (a - 1) > l
                /\ (l + (a - 1)) - l = a - 1 /\ (a - 1) + 1 = a
      OBVIOUS
    <3>2. /\ Len(d) \in Int /\ Len(r) \in Int /\ m \in Int /\ k \in Int
          /\ 1 <= m /\ m <= (k - Len(d) + 1) - 1 /\ Len(d) >= 0 /\ k - Len(d) <= Len(r)
      BY <2>1, <2>3
    <3>3. QED
      BY <3>1, <3>2, <2>7, ZenonT(60)
  <2>9. pending'[Len(d) + (m - 1)] = pending[m]
    <3>1. pending'[Len(d) + (m - 1)] =
            IF Len(d) + (m - 1) <= Len(d) THEN d[Len(d) + (m - 1)]
            ELSE r[(Len(d) + (m - 1)) - Len(d)]
      BY <2>1, <2>8, ZenonT(60)
    <3>2. ~ (Len(d) + (m - 1) <= Len(d))
      BY <2>1, <2>8
    <3>3. r[m - 1] = pending[m]
      BY <2>2, <2>8, ZenonT(60)
    <3>4. QED
      BY <3>1, <3>2, <3>3, <2>8, ZenonT(60)
  <2>10. QED
    BY <2>4, <2>5, <2>6, <2>8, <2>9, ZenonT(60)
<1>18. QED
  <2>1. last' \notin NilBlocks
    BY <1>6, ZenonT(60) DEF b
  <2>2. QED
    BY <2>1, <1>16, <1>17, ZenonT(60) DEF Strand, Waiting, SortedByNum

\* The first inline action of a transaction ends without a change to the list.
LEMMA TailStrand ==
  ASSUME TypeOK, PendingShape, Strand, pending # <<>>, pending' = Tail(pending),
         UNCHANGED <<last, unconfirms, deposit_sum>>,
         \A i \in 1 .. Len(unconfirms) :
           ~ /\ IsOnblock(Head(pending))
             /\ unconfirms[i].base = Head(pending).block
             /\ IsConfirmed(unconfirms[i])
  PROVE  Strand'
<1> DEFINE r == Tail(pending)
<1>1. /\ Head(pending) = pending[1] /\ Len(r) = Len(pending) - 1
      /\ \A i \in 1 .. Len(r) : r[i] = pending[i + 1] /\ i + 1 \in 1 .. Len(pending)
  BY TailShape, ZenonT(60)
<1>2. Len(pending) \in Nat
  BY DEF TypeOK
<1>3. Preceded(pending, unconfirms)
  BY ZenonT(60) DEF Strand
<1> HIDE DEF r
<1>4. ASSUME NEW k \in 1 .. Len(r), NEW i \in 1 .. Len(unconfirms),
             IsOnblock(r[k]), Num[unconfirms[i].base] < Num[r[k].block]
      PROVE  /\ IsConfirmed(unconfirms[i])
             /\ \E m \in 1 .. k - 1 : IsOnblock(r[m]) /\ r[m].block = unconfirms[i].base
  <2>1. /\ IsConfirmed(unconfirms[i])
        /\ \E m \in 1 .. (k + 1) - 1 :
             IsOnblock(pending[m]) /\ pending[m].block = unconfirms[i].base
    BY <1>1, <1>3, <1>4, ZenonT(60) DEF Preceded
  <2>2. PICK m \in 1 .. (k + 1) - 1 :
          IsOnblock(pending[m]) /\ pending[m].block = unconfirms[i].base
    BY <2>1, ZenonT(60)
  <2>3. m # 1
    BY <2>1, <2>2, <1>1, ZenonT(60)
  <2>4. m - 1 \in 1 .. k - 1 /\ m - 1 \in 1 .. Len(r) /\ (m - 1) + 1 = m
    BY <2>2, <2>3, <1>1, <1>2
  <2>5. r[m - 1] = pending[m]
    BY <2>4, <1>1, ZenonT(60)
  <2>6. QED
    BY <2>1, <2>2, <2>4, <2>5, ZenonT(60)
<1>5. Preceded(pending, unconfirms)'
  <2>1. pending' = r /\ unconfirms' = unconfirms /\ deposit_sum' = deposit_sum
    BY DEF r
  <2>2. SUFFICES ASSUME NEW k \in 1 .. Len(pending'), NEW i \in 1 .. Len(unconfirms'),
                        IsOnblock(pending'[k]),
                        Num[unconfirms'[i].base] < Num[pending'[k].block]
                 PROVE  /\ IsConfirmed(unconfirms[i])'
                        /\ \E m \in 1 .. k - 1 : /\ IsOnblock(pending'[m])
                                                /\ pending'[m].block = unconfirms'[i].base
    BY ZenonT(60) DEF Preceded, IsOnblock
  <2>3. /\ k \in 1 .. Len(r) /\ i \in 1 .. Len(unconfirms)
        /\ IsOnblock(r[k]) /\ Num[unconfirms[i].base] < Num[r[k].block]
    BY <2>1, <2>2, ZenonT(60)
  <2>4. /\ IsConfirmed(unconfirms[i])
        /\ \E m \in 1 .. k - 1 : IsOnblock(r[m]) /\ r[m].block = unconfirms[i].base
    BY <2>3, <1>4, ZenonT(60)
  <2>5. IsConfirmed(unconfirms[i])'
    BY <2>1, <2>4, ZenonT(60) DEF IsConfirmed
  <2>6. QED
    BY <2>1, <2>4, <2>5, ZenonT(60)
<1>6. QED
  BY <1>5, ZenonT(60) DEF Strand, Waiting, SortedByNum

\* Every action keeps the invariant.
LEMMA NextStrandInv ==
  ASSUME ~SelfCalls, \A b \in Blocks : Num[b] > 0
  PROVE  RelayInv /\ StrandInv /\ [Next]_vars => StrandInv'
<1> SUFFICES ASSUME RelayInv, StrandInv, [Next]_vars
             PROVE  StrandInv'
  OBVIOUS
<1>0. TypeOK /\ PendingShape
  BY DEF RelayInv
<1>1. ASSUME UNCHANGED <<last, unconfirms, saved, pending, nil_relayed>>, Idle
      PROVE  StrandInv'
  <2>1. Len(pending') = 0
    BY <1>1 DEF Idle
  <2>2. Preceded(pending, unconfirms)'
    BY <2>1, NoPositions, ZenonT(60) DEF Preceded
  <2>3. QED
    BY <1>1, <2>2, ZenonT(60) DEF StrandInv, Strand, SavedStrand, Waiting, SortedByNum
<1>2. CASE newchannel
  BY <1>1, <1>2 DEF newchannel
<1>3. ASSUME NEW ty \in Types, NEW a \in Acts, newmap(ty, a)
      PROVE  StrandInv'
  BY <1>1, <1>3 DEF newmap
<1>4. ASSUME NEW t \in Relayers, NEW m \in Amounts, new_transfer(t, m)
      PROVE  StrandInv'
  BY <1>1, <1>4 DEF new_transfer
<1>5. ASSUME NEW t \in Relayers, NEW b \in Blocks, commit(t, b)
      PROVE  StrandInv'
  <2>1. /\ nil_relayed' = nil_relayed
        /\ saved'.nil_relayed = nil_relayed
    BY <1>5, ZenonT(60) DEF commit
  <2>2. ~nil_relayed => Strand' /\ SavedStrand'
    BY <1>0, <1>5, CommitStrand DEF StrandInv
  <2>3. QED
    BY <2>1, <2>2 DEF StrandInv
<1>6. ASSUME NEW b \in Blocks, onblock(b)
      PROVE  FALSE
  BY <1>6, ZenonT(60) DEF onblock
<1>7. CASE RunOnblock
  <2> DEFINE b == Head(pending).block
  <2>1. /\ pending # <<>> /\ saved' = saved /\ deposit_sum' = deposit_sum
        /\ ~saved'.nil_relayed => SavedStrand'
    BY <1>7, ZenonT(60) DEF RunOnblock, Idle, config, StrandInv, SavedStrand, Waiting, SortedByNum
  <2>2. ASSUME NEW e \in Blocks, onblockimp(b, e), ~nil_relayed'
        PROVE  Strand'
    <3>1. ~nil_relayed /\ b \notin NilBlocks
      BY <2>2, ZenonT(60) DEF onblockimp
    <3>2. QED
      BY <1>0, <1>7, <2>2, <3>1, OnblockimpStrand DEF StrandInv
  <2>3. ASSUME pending' = Tail(pending), UNCHANGED <<last, unconfirms, nil_relayed>>,
               AlreadyRelayed(b) \/ \A i \in 1 .. Len(unconfirms) : ~Relayable(b, i),
               ~nil_relayed'
        PROVE  Strand'
    <3>1. Strand
      BY <2>3 DEF StrandInv
    <3>2. ASSUME NEW i \in 1 .. Len(unconfirms), unconfirms[i].base = b,
                 IsConfirmed(unconfirms[i])
          PROVE  FALSE
      <4>1. LastNum >= Num[unconfirms[i].base]
        BY <2>3, <3>2, ZenonT(60) DEF AlreadyRelayed, Relayable
      <4>2. LastNum < Num[unconfirms[i].base]
        BY <3>1, ZenonT(60) DEF Strand, Waiting, LastNum
      <4>3. Num[unconfirms[i].base] \in Nat /\ LastNum \in Nat
        BY <1>0, BasesAreBlocks, RelayAssumption, ZenonT(60) DEF LastNum, TypeOK
      <4>4. QED
        BY <4>1, <4>2, <4>3
    <3>3. QED
      BY <1>0, <2>1, <2>3, <3>1, <3>2, TailStrand, ZenonT(60)
  <2>4. ~nil_relayed' => Strand'
    <3>1. \A i \in 1 .. Len(unconfirms) : unconfirms[i].base \in Blocks
      BY <1>0, BasesAreBlocks, ZenonT(60)
    <3>2. QED
      BY <1>7, <2>2, <2>3, <3>1, ZenonT(60) DEF RunOnblock
  <2>5. QED
    BY <2>1, <2>4 DEF StrandInv
<1>8. CASE RunOn
  <2>1. /\ pending # <<>> /\ pending' = Tail(pending) /\ ~IsOnblock(Head(pending))
        /\ UNCHANGED <<last, unconfirms, saved, deposit_sum, nil_relayed>>
    BY <1>8 DEF RunOn, Idle, config
  <2>2. ~nil_relayed => Strand'
    BY <1>0, <2>1, TailStrand, ZenonT(60) DEF StrandInv
  <2>3. QED
    BY <2>1, <2>2, ZenonT(60) DEF StrandInv, SavedStrand, Waiting, SortedByNum
<1>9. CASE Undo
  <2>1. /\ Len(pending') = 0 /\ last' = saved.last /\ unconfirms' = saved.unconfirms
        /\ saved' = saved /\ nil_relayed' = saved.nil_relayed
    BY <1>9 DEF Undo
  <2>2. Preceded(pending, unconfirms)'
    BY <2>1 DEF Preceded
  <2>3. QED
    BY <2>1, <2>2, ZenonT(60) DEF StrandInv, Strand, SavedStrand, Waiting, SortedByNum
<1>10. CASE UNCHANGED vars
  BY <1>10, ZenonT(60) DEF vars, StrandInv, Strand, SavedStrand, Waiting, SortedByNum, Preceded, IsOnblock, IsConfirmed
<1>11. QED
  BY <1>2, <1>3, <1>4, <1>5, <1>6, <1>7, <1>8, <1>9, <1>10 DEF Next

\* As long as no block with producer 0 has been relayed, no block waits in the
\* list that commit would refuse: for any relayers, deposits, blocks, forks,
\* limits and failing handlers, if only commit sends onblock (the contract's own
\* account has the authority to send it directly, for a block that is not the
\* lowest) and blocks are numbered from 1.
THEOREM NoBlockStranded ==
  ASSUME ~SelfCalls, \A b \in Blocks : Num[b] > 0
  PROVE  Spec => []NoneStranded
<1>1. Init => StrandInv
  <2> SUFFICES ASSUME Init
               PROVE  StrandInv
    OBVIOUS
  <2>1. Len(unconfirms) = 0 /\ Len(saved.unconfirms) = 0 /\ Len(pending) = 0
    BY ZenonT(60) DEF Init
  <2>2. last \notin NilBlocks /\ saved.last \notin NilBlocks
    BY RelayAssumption, ZenonT(60) DEF Init
  <2>3. 1 .. Len(unconfirms) = {} /\ 1 .. Len(saved.unconfirms) = {}
    BY <2>1, NoPositions, ZenonT(60)
  <2>4. QED
    BY <2>2, <2>3, ZenonT(60)
       DEF StrandInv, Strand, SavedStrand, Waiting, SortedByNum, Preceded
<1>2. StrandInv => NoneStranded
  BY ZenonT(60) DEF StrandInv, Strand, Waiting, NoneStranded, LastNum
<1>3. RelayInv /\ StrandInv /\ [Next]_vars => StrandInv'
  BY NextStrandInv
<1>4. QED
  BY <1>1, <1>2, <1>3, InitRelayInv, NextRelayInv, PTL DEF Spec
=============================================================================
