----------------------- MODULE BlockHeaderStateProofs -----------------------
(***************************************************************************)
(* Lemmas about BlockHeaderState, for any producers and repetitions:       *)
(* next() computes a header state whenever it is given one, whatever the   *)
(* schedule, the slot and the confirmations; it keeps its block numbers in *)
(* order, and it counts every confirmation once.                           *)
(***************************************************************************)
EXTENDS BlockHeaderState, TLAPS, FiniteSetTheorems

-----------------------------------------------------------------------------
(***************************************************************************)
(* Lemmas about BlockHeaderState: next() computes a header state whenever  *)
(* it is given one, whatever the schedule, the slot and the confirmations, *)
(* and keeps its block numbers in order.                                   *)
(***************************************************************************)

\* The numbers a header state holds are those of blocks up to its own.
Bounded(s) ==
    /\ s.proposed <= s.num
    /\ s.lib <= s.num
    /\ \A q \in DOMAIN s.implied_irb : s.implied_irb[q] <= s.num
    /\ Len(s.confirm_count) <= s.num

\* A set of naturals that is not empty has a least element.
LEMMA LeastNumber ==
    ASSUME NEW T \in SUBSET Nat, T # {}
    PROVE  \E n \in T : \A m \in T : n <= m
<1>1. IsWellFoundedOn(OpToRel(<, Nat), Nat)
    BY NatLessThanWellFounded, ZenonT(60)
<1>2. PICK n \in T : \A m \in T : <<m, n>> \notin OpToRel(<, Nat)
    BY <1>1, WFMin, ZenonT(60)
<1>3. \A m \in T : ~ (m < n)
    BY <1>2, ZenonT(60) DEF OpToRel
<1> QED
    BY <1>3

\* A set of numbers up to n that is not empty has a greatest element.
LEMMA GreatestNumber ==
    ASSUME NEW n \in Nat, NEW T \in SUBSET (1 .. n), T # {}
    PROVE  \E i \in T : \A j \in T : j <= i
<1> DEFINE D == {n - i : i \in T}
<1>1. D \in SUBSET Nat
    OBVIOUS
<1>2. D # {}
    <2>1. PICK t \in T : TRUE
        BY ZenonT(60)
    <2>2. n - t \in D
        BY <2>1
    <2> QED
        BY <2>2, ZenonT(60)
<1>3. PICK d \in D : \A e \in D : d <= e
    BY <1>1, <1>2, LeastNumber, ZenonT(60)
<1>4. PICK i \in T : d = n - i
    BY <1>3
<1>5. \A j \in T : n - i <= n - j
    BY <1>3, <1>4, ZenonT(60)
<1> QED
    BY <1>4, <1>5

\* nth_element finds an element, and it is one of the map: for every n below
\* the size some value has at most n entries below it and more than n up to it.
LEMMA NthElementType ==
    ASSUME NEW m, IsMap(m), NEW b \in Nat, \A q \in DOMAIN m : m[q] <= b,
           NEW n \in Nat, n < Cardinality(DOMAIN m)
    PROVE  \E q \in DOMAIN m : NthElement(m, n) = m[q]
<1> DEFINE UpTo(v) == {q \in DOMAIN m : m[q] <= v}
           Below(v) == {q \in DOMAIN m : m[q] < v}
           V == {v \in Nat : Cardinality(UpTo(v)) > n}
<1>1. IsFiniteSet(DOMAIN m)
    BY HeaderAssumption, FS_Subset DEF IsMap
<1>2. \A q \in DOMAIN m : m[q] \in Nat
    BY DEF IsMap
<1>3. b \in V
    <2>1. UpTo(b) = DOMAIN m
        BY <1>2
    <2> QED
        BY <2>1
<1>4. PICK v \in V : \A w \in V : v <= w
  <2> HIDE DEF UpTo
  <2>1. V \in SUBSET Nat /\ V # {}
        BY <1>3
  <2> QED
        BY <2>1, LeastNumber, ZenonT(60)
<1>5. Cardinality(Below(v)) <= n
    <2>1. CASE v = 0
        <3>1. Below(v) = {}
            BY <2>1, <1>2
        <3> QED
            BY <3>1, FS_EmptySet
    <2>2. CASE v # 0
        <3>1. v - 1 \in Nat /\ ~ (v <= v - 1)
            BY <2>2
        <3>2. v - 1 \notin V
            BY <3>1, <1>4
        <3>3. ~ (Cardinality(UpTo(v - 1)) > n)
            BY <3>1, <3>2, ZenonT(60)
        <3>4. Below(v) = UpTo(v - 1)
            BY <3>1, <1>2
        <3>5. IsFiniteSet(UpTo(v - 1))
            BY <1>1, FS_Subset
        <3>6. Cardinality(UpTo(v - 1)) \in Nat
            BY <3>5, FS_CardinalityType
        <3> HIDE DEF UpTo, Below
        <3> QED
            BY <3>3, <3>4, <3>6
    <2> QED
        BY <2>1, <2>2
<1>6. Cardinality(UpTo(v)) > n
    BY <1>4
<1>7. \E q \in DOMAIN m : m[q] = v
    <2> SUFFICES ASSUME \A q \in DOMAIN m : m[q] # v
                 PROVE  FALSE
        OBVIOUS
    <2>1. Below(v) = UpTo(v)
        BY <1>2, <1>4
    <2>2. IsFiniteSet(UpTo(v))
        BY <1>1, FS_Subset
    <2>3. Cardinality(UpTo(v)) \in Nat
        BY <2>2, FS_CardinalityType
    <2> HIDE DEF UpTo, Below
    <2> QED
        BY <2>1, <2>3, <1>5, <1>6
<1>8. v \in {m[q] : q \in DOMAIN m}
    BY <1>7
<1>9. NthElement(m, n) \in {m[q] : q \in DOMAIN m}
    BY <1>5, <1>6, <1>8, ZenonT(60) DEF NthElement
<1> QED
    BY <1>9

\* calc_dpos_last_irreversible returns the number of a block up to the head.
LEMMA CalcType ==
    ASSUME NEW s, IsHeaderState(s), Bounded(s), NEW p
    PROVE  calc_dpos_last_irreversible(s, p) \in 0 .. s.num
<1> DEFINE D == DOMAIN s.implied_irb
           m == Implied(s, p)
           n == (Cardinality(D) - 1) \div 3
<1>1. CASE D = {}
    BY <1>1 DEF calc_dpos_last_irreversible, IsHeaderState
<1>2. CASE D # {}
    <2>1. IsFiniteSet(D)
        BY HeaderAssumption, FS_Subset DEF IsHeaderState, IsMap
    <2>2. Cardinality(D) \in Nat \ {0}
        BY <2>1, <1>2, FS_CardinalityType, FS_EmptySet
    <2>3. n \in Nat /\ n < Cardinality(D)
        BY <2>2
    <2>4. DOMAIN m = D
        BY DEF Implied
    <2>5. \A q \in D : m[q] \in Nat /\ m[q] <= s.num
        BY DEF Implied, IsHeaderState, IsMap, Bounded
    <2>6. IsMap(m)
        BY <2>4, <2>5 DEF IsMap, IsHeaderState
    <2>7. s.num \in Nat
        BY DEF IsHeaderState
    <2> HIDE DEF m, n
    <2>8. \E q \in DOMAIN m : NthElement(m, n) = m[q]
        BY <2>3, <2>4, <2>5, <2>6, <2>7, NthElementType
    <2>9. calc_dpos_last_irreversible(s, p) = NthElement(m, n)
        BY <1>2 DEF calc_dpos_last_irreversible, m, n
    <2> QED
        BY <2>4, <2>5, <2>7, <2>8, <2>9
<1> QED
    BY <1>1, <1>2

\* The loop of next() over the confirmations stops at an entry of the list, or
\* at none; all it decremented and kept still need a confirmation.
LEMMA ReachedType ==
    ASSUME NEW cc \in Seq(Nat \ {0}), NEW k \in Nat
    PROVE  /\ Reached(cc, k) \in 0 .. Len(cc)
           /\ \A i \in 1 .. Len(cc) :
                 i > Reached(cc, k) /\ i > Len(cc) - k => cc[i] # 1
<1> DEFINE zero == {i \in 1 .. Len(cc) : i > Len(cc) - k /\ cc[i] = 1}
<1>1. CASE zero = {}
    BY <1>1 DEF Reached
<1>2. CASE zero # {}
    <2>1. zero \in SUBSET (1 .. Len(cc)) /\ Len(cc) \in Nat
        OBVIOUS
    <2>2. \E i \in zero : \A j \in zero : j <= i
        BY <2>1, <1>2, GreatestNumber, ZenonT(60)
    <2>3. /\ Reached(cc, k) \in zero
          /\ \A j \in zero : j <= Reached(cc, k)
        BY <2>2, <1>2, ZenonT(60) DEF Reached
    <2> QED
        BY <2>3
<1> QED
    BY <1>1, <1>2

\* The confirmations that are kept are a list of positive numbers.
LEMMA ConfirmedType ==
    ASSUME NEW cc \in Seq(Nat \ {0}), NEW k \in Nat
    PROVE  /\ Confirmed(cc, k) \in Seq(Nat \ {0})
           /\ Len(Confirmed(cc, k)) = Len(cc) - Reached(cc, k)
<1> DEFINE r == Reached(cc, k)
           n == Len(cc) - r
           f(j) == IF r + j > Len(cc) - k THEN cc[r + j] - 1 ELSE cc[r + j]
<1>1. r \in 0 .. Len(cc) /\ n \in Nat
    BY ReachedType
<1>2. \A j \in 1 .. n : f(j) \in Nat \ {0}
    <2> TAKE j \in 1 .. n
    <2>1. r + j \in 1 .. Len(cc) /\ r + j > r
        BY <1>1
    <2>2. cc[r + j] \in Nat \ {0}
        BY <2>1
    <2>3. r + j > Len(cc) - k => cc[r + j] # 1
        BY <2>1, ReachedType, ZenonT(60)
    <2> QED
        BY <2>2, <2>3
<1>3. Confirmed(cc, k) = [j \in 1 .. n |-> f(j)]
    BY DEF Confirmed
<1> HIDE DEF n, f
<1> QED
    BY <1>1, <1>2, <1>3 DEF n

\* The grown list has the new block's confirmations at its end.
LEMMA GrowType ==
    ASSUME NEW s, IsHeaderState(s)
    PROVE  /\ Grow(s) \in Seq(Nat \ {0})
           /\ Len(Grow(s)) \in 1 .. Len(s.confirm_count) + 1
<1>1. required_confs(s) \in Nat \ {0}
    <2>1. Len(s.active) \in Nat
        BY DEF IsHeaderState
    <2>2. \A n \in Nat : (n * 2) \div 3 + 1 \in Nat \ {0}
        OBVIOUS
    <2> QED
        BY <2>1, <2>2, ZenonT(60) DEF required_confs
<1> DEFINE cc == s.confirm_count
           kept == IF Len(cc) < MaxTracked THEN cc ELSE Tail(cc)
<1>2. cc \in Seq(Nat \ {0}) /\ MaxTracked \in Nat \ {0}
    BY HeaderAssumption DEF IsHeaderState
<1>3. kept \in Seq(Nat \ {0}) /\ Len(kept) \in 0 .. Len(cc)
    <2>1. CASE Len(cc) < MaxTracked
        BY <2>1, <1>2
    <2>2. CASE ~ (Len(cc) < MaxTracked)
        <3>1. cc # <<>>
            BY <2>2, <1>2
        <3> QED
            BY <2>2, <3>1, <1>2
    <2> QED
        BY <2>1, <2>2
<1>4. Grow(s) = Append(kept, required_confs(s))
    BY DEF Grow
<1> HIDE DEF kept
<1> QED
    BY <1>1, <1>2, <1>3, <1>4

\* Assigning an entry of a map, and the map of a promoted schedule.
LEMMA PutType ==
    ASSUME NEW m, IsMap(m), NEW p \in Producers, NEW v \in Nat
    PROVE  /\ IsMap(Put(m, p, v))
           /\ DOMAIN Put(m, p, v) = DOMAIN m \cup {p}
           /\ \A q \in DOMAIN Put(m, p, v) :
                 Put(m, p, v)[q] = v \/ (q \in DOMAIN m /\ Put(m, p, v)[q] = m[q])
    BY DEF IsMap, Put

LEMMA PromotedType ==
    ASSUME NEW s, IsHeaderState(s), NEW m, IsMap(m), NEW lib \in Nat
    PROVE  /\ IsMap(Promoted(m, s, lib))
           /\ \A q \in DOMAIN Promoted(m, s, lib) :
                 \/ Promoted(m, s, lib)[q] = lib
                 \/ q \in DOMAIN m /\ Promoted(m, s, lib)[q] = m[q]
<1>1. {s.pending.producers[i] : i \in 1 .. Len(s.pending.producers)} \subseteq Producers
    BY DEF IsHeaderState
<1> QED
    BY <1>1 DEF IsMap, Promoted

\* The fields of the header state that next() computes.
LEMMA NextFields ==
    ASSUME NEW s, NEW when, NEW confirm, NEW new
    PROVE  /\ next(s, when, confirm, new).num = s.num + 1
           /\ next(s, when, confirm, new).confirm_count = Confirmed(Grow(s), confirm + 1)
           /\ next(s, when, confirm, new).proposed =
                 IF Reached(Grow(s), confirm + 1) = 0 THEN s.proposed
                 ELSE s.num + 1 - (Len(Grow(s)) - Reached(Grow(s), confirm + 1))
           /\ next(s, when, confirm, new).active =
                 IF Promotes(s, get_scheduled_producer(s, when))
                 THEN s.pending.producers ELSE s.active
           /\ next(s, when, confirm, new).pending =
                 finish_next(s, Promotes(s, get_scheduled_producer(s, when)), new)
    BY ZenonT(60) DEF next

\* next() maps a header state to one, with its numbers in order: a block never
\* proposes or holds irreversible a block above it.
LEMMA NextType ==
    ASSUME NEW s, IsHeaderState(s), Bounded(s), NEW when \in Nat, NEW confirm \in Nat,
           NEW new, \A n \in new : n.producers \in Seq(Producers) /\ n.version \in Nat,
           get_scheduled_producer(s, when) \in Producers
    PROVE  /\ IsHeaderState(next(s, when, confirm, new))
           /\ Bounded(next(s, when, confirm, new))
<1> DEFINE p   == get_scheduled_producer(s, when)
           cc  == Grow(s)
           r   == Reached(cc, confirm + 1)
           lib == calc_dpos_last_irreversible(s, p)
           up  == Promotes(s, p)
           irb == IF up THEN Promoted(s.implied_irb, s, lib) ELSE s.implied_irb
           lp  == IF up THEN Promoted(s.last_produced, s, lib) ELSE s.last_produced
           t   == next(s, when, confirm, new)
<1>1. s.num \in Nat /\ s.proposed \in 0 .. s.num
    BY DEF IsHeaderState, Bounded
<1>2. lib \in 0 .. s.num
    BY CalcType
<1>3. /\ cc \in Seq(Nat \ {0})
      /\ Len(cc) \in 1 .. s.num + 1
    <2>1. Len(s.confirm_count) \in Nat /\ Len(s.confirm_count) <= s.num
        BY DEF Bounded, IsHeaderState
    <2>2. cc \in Seq(Nat \ {0}) /\ Len(cc) \in 1 .. Len(s.confirm_count) + 1
        BY GrowType
    <2> HIDE DEF cc
    <2> QED
        BY <2>1, <2>2, <1>1
<1>4. /\ r \in 0 .. Len(cc)
      /\ Confirmed(cc, confirm + 1) \in Seq(Nat \ {0})
      /\ Len(Confirmed(cc, confirm + 1)) = Len(cc) - r
    <2>1. confirm + 1 \in Nat
        OBVIOUS
    <2> HIDE DEF cc
    <2> QED
        BY <1>3, <2>1, ReachedType, ConfirmedType, ZenonT(60)
<1>5. /\ t.num = s.num + 1
      /\ t.slot = when
      /\ t.active = IF up THEN s.pending.producers ELSE s.active
      /\ t.version = IF up THEN s.pending.version ELSE s.version
      /\ t.confirm_count = Confirmed(cc, confirm + 1)
      /\ t.proposed = IF r = 0 THEN s.proposed ELSE s.num + 1 - (Len(cc) - r)
      /\ t.lib = lib
    BY ZenonT(60) DEF next
<1>6. /\ t.last_produced = Put(lp, p, s.num + 1)
      /\ t.implied_irb = IF ~up \/ p \in DOMAIN irb THEN Put(irb, p, s.proposed) ELSE irb
    BY ZenonT(60) DEF next
<1>7. t.pending = IF new # {}
                  THEN LET n == CHOOSE n \in new : TRUE
                       IN  [producers |-> n.producers, version |-> n.version,
                            lib_num |-> s.num + 1]
                  ELSE [s.pending EXCEPT !.producers = IF up THEN <<>> ELSE @]
    BY DEF next, finish_next
<1>8. p \in Producers
    OBVIOUS
<1>9. IsMap(s.last_produced) /\ IsMap(s.implied_irb)
    BY DEF IsHeaderState
<1>10. IsMap(lp) /\ IsMap(irb)
    BY <1>2, <1>9, PromotedType
<1>11. \A q \in DOMAIN irb : irb[q] <= s.num
    <2>1. \A q \in DOMAIN s.implied_irb : s.implied_irb[q] <= s.num
        BY DEF Bounded
    <2>2. CASE up
        <3>1. irb = Promoted(s.implied_irb, s, lib)
            BY <2>2
        <3> HIDE DEF irb, lib
        <3> QED
            BY <1>2, <1>9, <2>1, <3>1, PromotedType
    <2> QED
        BY <2>1, <2>2
<1> HIDE DEF p, cc, r, lib, up, irb, lp, t
<1>12. t.active \in Seq(Producers) /\ t.active # <<>>
    BY <1>5 DEF IsHeaderState, up, Promotes
<1>13. {t.num, t.slot, t.version, t.proposed, t.lib} \subseteq Nat
    <2>1. t.version \in Nat
        BY <1>5 DEF IsHeaderState
    <2>2. t.num \in Nat /\ t.slot \in Nat /\ t.lib \in Nat
        BY <1>1, <1>2, <1>5
    <2>3. t.proposed \in Nat
        BY <1>1, <1>3, <1>4, <1>5
    <2> QED
        BY <2>1, <2>2, <2>3
<1>14. t.pending \in [producers : Seq(Producers), version : Nat, lib_num : Nat]
    <2>1. CASE new = {}
        <3>1. /\ s.pending \in [producers : Seq(Producers), version : Nat, lib_num : Nat]
              /\ <<>> \in Seq(Producers)
            BY DEF IsHeaderState
        <3>2. t.pending = [s.pending EXCEPT !.producers = IF up THEN <<>> ELSE @]
            BY <2>1, <1>7
        <3>3. CASE up
            BY <3>1, <3>2, <3>3, ZenonT(60)
        <3>4. CASE ~up
            BY <3>1, <3>2, <3>4
        <3> QED
            BY <3>3, <3>4
    <2>2. CASE new # {}
        <3> DEFINE n == CHOOSE n \in new : TRUE
        <3>1. n \in new
            BY <2>2
        <3>2. n.producers \in Seq(Producers) /\ n.version \in Nat /\ s.num + 1 \in Nat
            BY <3>1, <1>1
        <3>3. t.pending = [producers |-> n.producers, version |-> n.version,
                           lib_num |-> s.num + 1]
            BY <2>2, <1>7
        <3> HIDE DEF n
        <3> QED
            BY <3>2, <3>3
    <2> QED
        BY <2>1, <2>2
<1>15. /\ t.confirm_count \in Seq(Nat \ {0})
       /\ Len(t.confirm_count) <= t.num
    <2>1. Len(Confirmed(cc, confirm + 1)) <= s.num + 1
        BY <1>1, <1>3, <1>4
    <2> QED
        BY <2>1, <1>4, <1>5
<1>16. IsMap(t.last_produced)
    <2>1. s.num + 1 \in Nat
        BY <1>1
    <2>2. IsMap(Put(lp, p, s.num + 1))
        BY <2>1, <1>8, <1>10, PutType, ZenonT(60)
    <2> QED
        BY <2>2, <1>6
<1>17. /\ IsMap(Put(irb, p, s.proposed))
       /\ \A q \in DOMAIN Put(irb, p, s.proposed) : Put(irb, p, s.proposed)[q] <= s.num
    <2>1. s.proposed \in Nat /\ s.proposed <= s.num
        BY <1>1
    <2> QED
        BY <2>1, <1>8, <1>10, <1>11, PutType, ZenonT(60)
<1>18. IsMap(t.implied_irb)
    BY <1>6, <1>10, <1>17
<1>19. \A q \in DOMAIN t.implied_irb : t.implied_irb[q] <= t.num
    <2>1. \A q \in DOMAIN t.implied_irb : t.implied_irb[q] <= s.num
        BY <1>6, <1>11, <1>17
    <2>2. \A q \in DOMAIN t.implied_irb : t.implied_irb[q] \in Nat
        BY <1>18 DEF IsMap
    <2> QED
        BY <2>1, <2>2, <1>1, <1>5
<1>20. t.proposed <= t.num /\ t.lib <= t.num
    <2> HIDE DEF t, cc, r, lib
    <2>1. PICK n \in Nat : n = s.num
        BY <1>1
    <2>2. t.lib <= t.num
        BY <1>2, <1>5, <2>1
    <2>3. n + 1 - (Len(cc) - r) <= n + 1
        BY <1>3, <1>4, <2>1
    <2> QED
        BY <1>1, <1>5, <2>1, <2>2, <2>3
<1>21. IsHeaderState(t)
    BY <1>12, <1>13, <1>14, <1>15, <1>16, <1>18 DEF IsHeaderState
<1>22. Bounded(t)
    BY <1>15, <1>19, <1>20 DEF Bounded
<1> QED
    BY <1>21, <1>22 DEF t

\* The genesis header state is one.
LEMMA GenesisType ==
    ASSUME NEW initial \in Seq(Producers), initial # <<>>
    PROVE  IsHeaderState(GenesisState(initial)) /\ Bounded(GenesisState(initial))
    BY DEF IsHeaderState, Bounded, GenesisState, IsMap
-----------------------------------------------------------------------------
\* Facts of arithmetic, for leaves whose other hypotheses are about sequences.
LEMMA CountDown ==
    /\ \A q, c, x, y \in Nat : q <= c + x /\ y >= x => q <= c + y
    /\ \A q, c, x, y \in Nat : q <= c + x /\ y >= x + 1 => q <= (c - 1) + y
    /\ \A y \in Nat : (1 - 1) + y = y
    OBVIOUS

LEMMA LenType ==
    ASSUME NEW S, NEW e \in Seq(S)
    PROVE  Len(e) \in Nat
    OBVIOUS

LEMMA OneMore ==
    /\ \A n \in Nat : n + 1 \in Nat /\ \A m \in 1 .. n + 1 : m \in 1 .. n \/ m = n + 1
    /\ \A a, n \in Nat : \A b \in 1 .. a + 1 : a <= n => b <= n + 1
    OBVIOUS

\* A block needs the confirmation of more than two thirds of the producers.
LEMMA RequiredType ==
    ASSUME NEW s, IsHeaderState(s)
    PROVE  required_confs(s) \in Nat \ {0}
<1>1. Len(s.active) \in Nat
    BY DEF IsHeaderState
<1>2. \A n \in Nat : (n * 2) \div 3 + 1 \in Nat \ {0}
    OBVIOUS
<1> QED
    BY <1>1, <1>2, ZenonT(60) DEF required_confs

\* The confirmations of each height.
IsCount(f) == \A h \in Nat : f[h] \in Nat

\* The list cc of a block of height num, whose entries are for the heights up
\* to num: what an entry still needs, with the confirmations f that its height
\* has, makes up q.
Makes(q, cc, f, num) ==
    \A j \in 1 .. Len(cc) : q <= cc[j] + f[num - Len(cc) + j]

\* Between f and g all heights from lo to hi got a confirmation more.
Raised(f, g, lo, hi) ==
    \A h \in Nat : g[h] >= f[h] /\ (lo <= h /\ h <= hi => g[h] >= f[h] + 1)

\* The new entry of the list needs all confirmations, the others what they did.
LEMMA GrowCounts ==
    ASSUME NEW s, IsHeaderState(s), NEW n \in Nat, s.num = n, Len(s.confirm_count) <= n,
           NEW q \in Nat, q <= required_confs(s), NEW f, IsCount(f),
           Makes(q, s.confirm_count, f, n)
    PROVE  Makes(q, Grow(s), f, n + 1)
<1> SUFFICES \A m \in 1 .. Len(Grow(s)) : q <= Grow(s)[m] + f[n + 1 - Len(Grow(s)) + m]
    BY DEF Makes
<1> DEFINE req == required_confs(s)
           kept == IF Len(s.confirm_count) < MaxTracked THEN s.confirm_count
                   ELSE Tail(s.confirm_count)
<1>1. PICK cc \in Seq(Nat \ {0}) : cc = s.confirm_count
    BY DEF IsHeaderState
<1>2. req \in Nat
    BY RequiredType, ZenonT(60)
<1>3. Grow(s) = Append(kept, req)
    BY DEF Grow
<1>4. Makes(q, cc, f, n) /\ Len(cc) <= n
    BY <1>1
<1>5. kept = IF Len(cc) < MaxTracked THEN cc ELSE Tail(cc)
    BY <1>1
<1>6. q <= req
    OBVIOUS
<1> HIDE DEF kept, req
<1>7. kept \in Seq(Nat \ {0}) /\ Len(kept) <= n /\ Makes(q, kept, f, n)
    <2>1. CASE Len(cc) < MaxTracked
        BY <2>1, <1>4, <1>5
    <2>2. CASE ~ (Len(cc) < MaxTracked)
        <3>1. cc # <<>>
            BY <2>2, HeaderAssumption
        <3>2. kept = Tail(cc)
            BY <2>2, <1>5
        <3>3. kept \in Seq(Nat \ {0}) /\ Len(kept) = Len(cc) - 1
            BY <3>1, <3>2
        <3>4. \A j \in 1 .. Len(kept) : kept[j] = cc[j + 1] /\ j + 1 \in 1 .. Len(cc)
            BY <3>1, <3>2
        <3>5. ASSUME NEW j \in 1 .. Len(kept)
              PROVE  q <= kept[j] + f[n - Len(kept) + j]
            <4>1. q <= cc[j + 1] + f[n - Len(cc) + (j + 1)]
                BY <3>4, <1>4 DEF Makes
            <4>2. n - Len(cc) + (j + 1) = n - Len(kept) + j
                BY <3>3
            <4> QED
                BY <3>4, <4>1, <4>2, ZenonT(60)
        <3> QED
            BY <3>3, <3>5, <1>4 DEF Makes
    <2> QED
        BY <2>1, <2>2
<1>8. /\ Len(Grow(s)) = Len(kept) + 1
      /\ \A j \in 1 .. Len(kept) : Grow(s)[j] = kept[j]
      /\ Grow(s)[Len(kept) + 1] = req
    BY <1>2, <1>3, <1>7
<1>9. ASSUME NEW m \in 1 .. Len(Grow(s))
      PROVE  q <= Grow(s)[m] + f[n + 1 - Len(Grow(s)) + m]
    <2>1. n + 1 - Len(Grow(s)) + m = n - Len(kept) + m
        BY <1>7, <1>8
    <2>2. CASE m \in 1 .. Len(kept)
        <3>1. Grow(s)[m] = kept[m] /\ q <= kept[m] + f[n - Len(kept) + m]
            BY <2>2, <1>7, <1>8, ZenonT(60) DEF Makes
        <3> QED
            BY <2>1, <3>1, ZenonT(60)
    <2>3. CASE m = Len(kept) + 1
        <3>1. Len(kept) \in Nat
            BY <1>7
        <3>2. n - Len(kept) + m = n + 1
            BY <2>3, <3>1
        <3>3. n + 1 \in Nat
            OBVIOUS
        <3>4. f[n + 1] \in Nat
            BY <3>3, ZenonT(60) DEF IsCount
        <3>5. q <= req + f[n + 1]
            BY <3>4, <1>2, <1>6
        <3> QED
            BY <2>1, <2>3, <3>2, <3>5, <1>8, ZenonT(60)
    <2>4. Len(kept) \in Nat
        BY <1>7
    <2>5. m \in 1 .. Len(kept) \/ m = Len(kept) + 1
        BY <2>4, <1>8, OneMore, ZenonT(60)
    <2> QED
        BY <2>2, <2>3, <2>5, ZenonT(60)
<1> QED
    BY <1>9, ZenonT(60)

\* The entry at which the loop stops is one of the last k that needs one more.
LEMMA ReachedEntry ==
    ASSUME NEW cc \in Seq(Nat \ {0}), NEW k \in Nat, Reached(cc, k) # 0
    PROVE  /\ Reached(cc, k) \in 1 .. Len(cc)
           /\ Reached(cc, k) > Len(cc) - k
           /\ cc[Reached(cc, k)] = 1
<1> DEFINE zero == {i \in 1 .. Len(cc) : i > Len(cc) - k /\ cc[i] = 1}
<1>1. zero # {}
    BY DEF Reached
<1>2. zero \in SUBSET (1 .. Len(cc)) /\ Len(cc) \in Nat
    OBVIOUS
<1>3. \E i \in zero : \A j \in zero : j <= i
    BY <1>1, <1>2, GreatestNumber, ZenonT(60)
<1>4. Reached(cc, k) \in zero
    BY <1>1, <1>3, ZenonT(60) DEF Reached
<1> QED
    BY <1>4

\* Confirming the last k heights counts their entries down by one, so what is
\* kept still makes up q, and the height that is reached has all of q.
LEMMA ConfirmedCounts ==
    ASSUME NEW cc \in Seq(Nat \ {0}), NEW k \in Nat, NEW n \in Nat, Len(cc) <= n,
           NEW q \in Nat, NEW f, IsCount(f), NEW g, IsCount(g),
           Makes(q, cc, f, n), Raised(f, g, n + 1 - k, n)
    PROVE  /\ Makes(q, Confirmed(cc, k), g, n)
           /\ Reached(cc, k) # 0 => q <= g[n - (Len(cc) - Reached(cc, k))]
<1> DEFINE r == Reached(cc, k)
           L == Len(cc)
           d == Confirmed(cc, k)
<1>1. r \in 0 .. L /\ L \in Nat
    <2>1. L \in Nat
        OBVIOUS
    <2> QED
        BY <2>1, ReachedType, ZenonT(60)
<1>2. Len(d) = L - r
    BY ConfirmedType, ZenonT(60)
<1>3. \A j \in 1 .. L - r : d[j] = IF r + j > L - k THEN cc[r + j] - 1 ELSE cc[r + j]
    BY DEF Confirmed
<1>4. ASSUME NEW m \in 1 .. L
      PROVE  /\ n - L + m \in Nat /\ f[n - L + m] \in Nat /\ g[n - L + m] \in Nat
             /\ q <= cc[m] + f[n - L + m] /\ cc[m] \in Nat
             /\ g[n - L + m] >= f[n - L + m]
             /\ m > L - k => g[n - L + m] >= f[n - L + m] + 1
    <2>1. n - L + m \in Nat /\ n - L + m <= n
        OBVIOUS
    <2>2. m > L - k => n + 1 - k <= n - L + m
        OBVIOUS
    <2>3. q <= cc[m] + f[n - L + m] /\ cc[m] \in Nat
        BY DEF Makes
    <2> QED
        BY <2>1, <2>2, <2>3 DEF Raised, IsCount
<1> HIDE DEF r, L, d
<1>5. ASSUME NEW j \in 1 .. Len(d)
      PROVE  q <= d[j] + g[n - Len(d) + j]
    <2>1. r + j \in 1 .. L /\ n - Len(d) + j = n - L + (r + j)
        BY <1>1, <1>2
    <2>2. d[j] = IF r + j > L - k THEN cc[r + j] - 1 ELSE cc[r + j]
        BY <1>2, <1>3
    <2> DEFINE m == r + j
               h == n - L + m
    <2>3. /\ f[h] \in Nat /\ g[h] \in Nat /\ q <= cc[m] + f[h] /\ cc[m] \in Nat
          /\ g[h] >= f[h]
          /\ m > L - k => g[h] >= f[h] + 1
        BY <2>1, <1>4, ZenonT(60)
    <2>4. d[j] = (IF m > L - k THEN cc[m] - 1 ELSE cc[m]) /\ n - Len(d) + j = h
        BY <2>1, <2>2
    <2> HIDE DEF m, h
    <2>5. q <= (IF m > L - k THEN cc[m] - 1 ELSE cc[m]) + g[h]
        BY <2>3, CountDown, ZenonT(60)
    <2> QED
        BY <2>4, <2>5, ZenonT(60)
<1>6. ASSUME r # 0
      PROVE  q <= g[n - (L - r)]
    <2>1. r \in 1 .. L /\ r > L - k /\ cc[r] = 1
        BY <1>6, ReachedEntry DEF r, L
    <2>2. n - (L - r) = n - L + r
        BY <1>1
    <2> DEFINE h == n - L + r
    <2>3. /\ f[h] \in Nat /\ g[h] \in Nat /\ q <= cc[r] + f[h] /\ cc[r] \in Nat
          /\ r > L - k => g[h] >= f[h] + 1
        BY <2>1, <1>4, ZenonT(60)
    <2> HIDE DEF h
    <2>4. q <= (1 - 1) + g[h]
        BY <2>1, <2>3, CountDown, ZenonT(60)
    <2>5. (1 - 1) + g[h] = g[h]
        BY <2>3, CountDown, ZenonT(60)
    <2> QED
        BY <2>2, <2>4, <2>5, ZenonT(60) DEF h
<1> QED
    BY <1>5, <1>6 DEF Makes, r, L, d

\* next() counts exactly: if every height up to that of the block which the
\* block confirms has got one confirmation more, what the entries need still
\* makes up q, and the height that is proposed has got all of q.
LEMMA NextCounts ==
    ASSUME NEW s, IsHeaderState(s), Bounded(s), NEW when, NEW confirm \in Nat, NEW new,
           NEW q \in Nat, q <= required_confs(s),
           NEW f, IsCount(f), NEW g, IsCount(g),
           Makes(q, s.confirm_count, f, s.num),
           Raised(f, g, s.num + 1 - confirm, s.num + 1),
           s.proposed = 0 \/ q <= f[s.proposed]
    PROVE  LET t == next(s, when, confirm, new)
           IN  /\ Makes(q, t.confirm_count, g, t.num)
               /\ t.proposed = 0 \/ q <= g[t.proposed]
<1> DEFINE t == next(s, when, confirm, new)
           cc == Grow(s)
           k == confirm + 1
           r == Reached(cc, k)
<1>1. PICK n \in Nat : n = s.num
    BY DEF IsHeaderState
<1>2. cc \in Seq(Nat \ {0}) /\ Len(cc) <= n + 1 /\ Len(s.confirm_count) <= n
    <2>1. cc \in Seq(Nat \ {0}) /\ Len(cc) \in 1 .. Len(s.confirm_count) + 1
        BY GrowType, ZenonT(60)
    <2>2. Len(s.confirm_count) <= n
        BY <1>1 DEF Bounded
    <2>3. PICK a \in Nat : a = Len(s.confirm_count)
        <3>1. s.confirm_count \in Seq(Nat \ {0})
            BY ZenonT(60) DEF IsHeaderState
        <3> QED
            BY <3>1, LenType, ZenonT(60)
    <2> HIDE DEF cc
    <2> QED
        BY <2>1, <2>2, <2>3, OneMore, ZenonT(60)
<1>3. Makes(q, cc, f, n + 1)
    BY <1>1, <1>2, GrowCounts, ZenonT(60)
<1>4. PICK m \in Nat : m = n + 1
    BY OneMore
<1>5. t.num = m /\ t.confirm_count = Confirmed(cc, k)
    BY <1>1, <1>4, NextFields
<1>6. t.proposed = IF r = 0 THEN s.proposed ELSE m - (Len(cc) - r)
    <2>1. t.proposed = IF r = 0 THEN s.proposed ELSE n + 1 - (Len(cc) - r)
        BY <1>1, NextFields
    <2>2. r \in Nat /\ Len(cc) \in Nat
        <3>1. k \in Nat
            OBVIOUS
        <3>2. r \in 0 .. Len(cc) /\ Len(cc) \in Nat
            BY <3>1, <1>2, ReachedType, LenType, ZenonT(60)
        <3> QED
            BY <3>2
    <2> HIDE DEF t, r, cc
    <2>3. n + 1 - (Len(cc) - r) = m - (Len(cc) - r)
        BY <2>2, <1>4
    <2> QED
        BY <2>1, <2>3, ZenonT(60)
<1>7. k \in Nat /\ m + 1 - k = n + 1 - confirm
    BY <1>4
<1> HIDE DEF cc, k, t
<1>8. /\ Makes(q, Confirmed(cc, k), g, m)
      /\ Reached(cc, k) # 0 => q <= g[m - (Len(cc) - Reached(cc, k))]
    <2>1. Len(cc) <= m /\ Makes(q, cc, f, m) /\ Raised(f, g, m + 1 - k, m)
        BY <1>1, <1>2, <1>3, <1>4, <1>7, ZenonT(60)
    <2> QED
        BY <2>1, <1>2, <1>7, ConfirmedCounts, ZenonT(60)
<1>9. s.proposed \in Nat /\ (s.proposed # 0 => q <= g[s.proposed])
    <2>1. s.proposed \in Nat
        BY DEF IsHeaderState
    <2>2. f[s.proposed] \in Nat /\ g[s.proposed] \in Nat /\ g[s.proposed] >= f[s.proposed]
        BY <2>1 DEF Raised, IsCount
    <2> QED
        BY <2>1, <2>2
<1>10. t.proposed = 0 \/ q <= g[t.proposed]
    BY <1>6, <1>8, <1>9, ZenonT(60)
<1> QED
    BY <1>5, <1>8, <1>10, ZenonT(60) DEF t
=============================================================================
