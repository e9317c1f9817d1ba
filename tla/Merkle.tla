------------------------------- MODULE Merkle -------------------------------
(***************************************************************************)
(* The merkle root of a block's receipts (merkle), and the root of all      *)
(* block identifiers that a header state carries on from block to block     *)
(* without the blocks (incremental_merkle).  A digest of a pair is the pair *)
(* itself, marked with the side each half is on: no two pairs hash alike.   *)
(***************************************************************************)
EXTENDS Integers, Sequences

CONSTANT MaxLeaves  \* bound on the leaves that are appended

VARIABLES
    leaves,  \* every digest that was appended
    tree     \* the incremental_merkle: _node_count and _active_nodes

mvars == <<leaves, tree>>

(* digest_type(): the root of nothing. *)
Zero == <<0>>

(* hash(make_canonical_pair(l, r)) *)
Hash(l, r) == <<"left", l, "right", r>>
-----------------------------------------------------------------------------
(* merkle: one round of the loop per level; an odd level doubles its last. *)
Level(ids) ==
    LET even == IF Len(ids) % 2 = 1 THEN Append(ids, ids[Len(ids)]) ELSE ids
    IN  [i \in 1..(Len(even) \div 2) |-> Hash(even[2 * i - 1], even[2 * i])]

merkle(ids) ==
    LET round[n \in 0..MaxLeaves] ==
            IF n = 0 THEN ids
            ELSE LET below == round[n - 1] IN IF Len(below) > 1 THEN Level(below) ELSE below
    IN  IF ids = <<>> THEN Zero ELSE round[MaxLeaves][1]
-----------------------------------------------------------------------------
(* next_power_of_2 as an exponent: the levels above the leaves. *)
Levels(n) == CHOOSE d \in 0..n : 2^d >= n /\ \A e \in 0..(d - 1) : 2^e < n

calculate_max_depth(n) == IF n = 0 THEN 0 ELSE Levels(n) + 1

(* One step of append's loop: top moves up a level, on the left of an implied
   copy of itself or on the right of the next active node. *)
MutSwapped(s) ==
    IF s.index % 2 = 0
    THEN [s EXCEPT !.updated = IF s.partial THEN @ ELSE Append(@, s.top),
                   !.top = Hash(@, @), !.partial = TRUE, !.index = @ \div 2]
    ELSE [s EXCEPT !.updated = IF s.partial THEN Append(@, Head(s.active)) ELSE @,
                   !.top = Hash(@, Head(s.active)),
                   !.active = Tail(@), !.index = @ \div 2]

Collapse(s) ==
    IF s.index % 2 = 0
    THEN [s EXCEPT !.updated = IF s.partial THEN @ ELSE Append(@, s.top),
                   !.top = Hash(@, @), !.partial = TRUE, !.index = @ \div 2]
    ELSE [s EXCEPT !.updated = IF s.partial THEN Append(@, Head(s.active)) ELSE @,
                   !.top = Hash(Head(s.active), @),
                   !.active = Tail(@), !.index = @ \div 2]

append(t, digest) ==
    LET levels == calculate_max_depth(t.count + 1) - 1
        up[d \in 0..levels] ==
            IF d = 0 THEN [index |-> t.count, top |-> digest, partial |-> FALSE,
                           active |-> t.active, updated |-> <<>>]
            ELSE Collapse(up[d - 1])
    IN  [count |-> t.count + 1, active |-> Append(up[levels].updated, up[levels].top)]

get_root(t) == IF t.count > 0 THEN t.active[Len(t.active)] ELSE Zero
-----------------------------------------------------------------------------
MerkleTypeOK ==
    /\ leaves \in Seq(Nat) /\ Len(leaves) <= MaxLeaves
    /\ tree.count = Len(leaves)

MerkleInit == leaves = <<>> /\ tree = [count |-> 0, active |-> <<>>]

(* block_header_state: the identifier of the block before goes into the tree. *)
next_block ==
    /\ Len(leaves) < MaxLeaves
    /\ leaves' = Append(leaves, Len(leaves) + 1)
    /\ tree' = append(tree, Len(leaves) + 1)

MerkleNext == next_block

MerkleSpec == MerkleInit /\ [][MerkleNext]_mvars
-----------------------------------------------------------------------------
(* The incremental tree, which forgets all leaves but a logarithmic number of
   nodes, has at every length the root that merkle computes from the leaves
   (incremental_merkle_impl::append, merkle). *)
RootIsMerkle == get_root(tree) = merkle(leaves)

(* It keeps one node per bit of the count that is set, and the root: no more
   than its depth (updated_active_nodes.reserve(max_depth)). *)
NodesBounded == Len(tree.active) <= calculate_max_depth(tree.count)
=============================================================================
