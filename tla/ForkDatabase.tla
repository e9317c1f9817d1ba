---------------------------- MODULE ForkDatabase ----------------------------
(***************************************************************************)
(* fork_database (libraries/chain/fork_database.cpp): the tree of block    *)
(* states above the last irreversible block, held in one multi_index.      *)
(*                                                                         *)
(* A fork database is a record                                             *)
(*    root   the block the tree grows from; it is not in the index;        *)
(*    index  the blocks of the tree;                                       *)
(*    valid  the indexed blocks whose `validated` flag is set;             *)
(*    head   the validated block (or the root) the database prefers.       *)
(* Every method that changes it is an operator from records to records; a  *)
(* method that may throw comes with the predicate under which it does not. *)
(*                                                                         *)
(* What a block is never changes, so blocks are constants: their parent,   *)
(* height, the LIB their header state proposes, and the order of their     *)
(* identifiers.                                                            *)
(***************************************************************************)
EXTENDS Naturals

CONSTANTS
    Blocks,     \* the block states that may ever be seen, genesis included
    Genesis,    \* the block of initialize_blockchain_state
    Prev,       \* header.previous (the genesis block is its own)
    Num,        \* block_num
    Lib,        \* dpos_irreversible_blocknum
    Rank,       \* the position of the id in the sha256_less order
    Anc         \* the ancestors of a block, itself included

\* bool first_preferred( lhs, rhs ).
FirstPreferred(lhs, rhs) ==
    \/ Lib[lhs] > Lib[rhs]
    \/ Lib[lhs] = Lib[rhs] /\ Num[lhs] > Num[rhs]

\* The order of the by_lib_block_num index among blocks with the same
\* `validated` flag: first_preferred, ties broken by the identifier.
Before(a, b) ==
    \/ FirstPreferred(a, b)
    \/ Lib[a] = Lib[b] /\ Num[a] = Num[b] /\ Rank[a] < Rank[b]

IsFirst(b, S) == b \in S /\ \A c \in S \ {b} : Before(b, c)

(***************************************************************************)
(* Blocks form a tree whose heights count from the genesis block; a block  *)
(* proposes a LIB below its own height that never falls behind its         *)
(* parent's; and the identifiers make the index order total.  A number is  *)
(* a uint32_t, so that every set of blocks has a lowest and a highest one. *)
(* The facts about Anc and IsFirst follow from the others by induction;    *)
(* they are stated here because a proof has no induction to derive them    *)
(* with.                                                                   *)
(***************************************************************************)
ASSUME TreeAssumption ==
    /\ Genesis \in Blocks
    /\ Prev \in [Blocks -> Blocks]
    /\ Num \in [Blocks -> Nat \ {0}]
    /\ Num[Genesis] = 1
    /\ \A b \in Blocks \ {Genesis} : Num[b] = Num[Prev[b]] + 1
    /\ \A S \in SUBSET Blocks : S # {} =>
          \E low, high \in S : \A b \in S : Num[low] <= Num[b] /\ Num[b] <= Num[high]

ASSUME LibAssumption ==
    /\ Lib \in [Blocks -> Nat]
    /\ \A b \in Blocks : Lib[b] < Num[b]
    /\ \A b \in Blocks \ {Genesis} : Lib[Prev[b]] <= Lib[b]

ASSUME AncAssumption ==
    /\ Anc \in [Blocks -> SUBSET Blocks]
    /\ Anc[Genesis] = {Genesis}
    /\ \A b \in Blocks \ {Genesis} : Anc[b] = Anc[Prev[b]] \cup {b}
    /\ \A b \in Blocks : \A c \in Anc[b] :
          /\ Anc[c] \subseteq Anc[b]
          /\ Num[c] <= Num[b]
    /\ \A b \in Blocks : \A c, d \in Anc[b] : Num[c] = Num[d] => c = d
    /\ \A b \in Blocks : \A n \in 1 .. Num[b] : \E c \in Anc[b] : Num[c] = n

ASSUME OrderAssumption ==
    /\ Rank \in [Blocks -> Nat]
    /\ \A S \in SUBSET Blocks : S # {} => \E b \in S : IsFirst(b, S)

\* indx.begin(), the first element of a part of the index that is not empty.
First(S) == CHOOSE b \in S : IsFirst(b, S)

ForkDb == [root : Blocks, index : SUBSET Blocks, valid : SUBSET Blocks, head : Blocks]

\* void reset( root_bhs ).
reset(b) == [root |-> b, index |-> {}, valid |-> {}, head |-> b]

\* get_block_header( id ) finds the root as well, get_block( id ) does not.
Linked(f) == f.index \cup {f.root}

\* void rollback_head_to_root().
rollback_head_to_root(f) == [f EXCEPT !.valid = {}, !.head = f.root]

\* void add( n, ignore_duplicate ): the new block is not validated; the head
\* becomes the first validated block of the index, if there is one.
CanAdd(f, b) == Prev[b] \in Linked(f) /\ b \notin f.index
add(f, b) ==
    [f EXCEPT !.index = @ \cup {b},
              !.head = IF f.valid = {} THEN @ ELSE First(f.valid)]

\* void mark_valid( h ): the head moves only to a block preferred to it.
mark_valid(f, b) ==
    LET valid     == f.valid \cup {b}
        candidate == First(valid)
    IN  IF b \in f.valid THEN f
        ELSE [f EXCEPT !.valid = valid,
                       !.head = IF FirstPreferred(candidate, @) THEN candidate ELSE @]

\* block_state_ptr pending_head(): the best block not validated yet, if it
\* is preferred to the head.
pending_head(f) ==
    LET waiting == f.index \ f.valid
    IN  IF waiting # {} /\ FirstPreferred(First(waiting), f.head)
        THEN First(waiting)
        ELSE f.head

MutRemoveOne(f, b) == [f EXCEPT !.index = @ \ {b}, !.valid = @ \ {b}]

\* void remove( id ): the block and everything built on it.
Subtree(f, b) == {c \in f.index : b \in Anc[c]}
CanRemove(f, b) == f.head \notin Subtree(f, b)
remove(f, b) ==
    [f EXCEPT !.index = @ \ Subtree(f, b), !.valid = @ \ Subtree(f, b)]

\* void advance_root( id ): only what is built on the new root stays.
CanAdvance(f, b) == b \in f.valid /\ f.root \in Anc[b] /\ b \in Anc[f.head]
advance_root(f, b) ==
    [f EXCEPT !.root = b,
              !.index = Subtree(f, b) \ {b},
              !.valid = @ \cap (Subtree(f, b) \ {b})]

\* branch_type fetch_branch( h, trim_after_block_num ): from h down to the
\* last ancestor found in the index.
fetch_branch(f, h, trim) ==
    {b \in Anc[h] : /\ Num[b] <= trim
                    /\ \A c \in Anc[h] : Num[c] >= Num[b] => c \in f.index}

\* block_state_ptr search_on_branch( h, block_num ), as the set of its result.
search_on_branch(f, h, n) ==
    {b \in fetch_branch(f, h, Num[h]) : Num[b] = n}

\* fetch_branch_from( first, second ): the two branches down to the common
\* ancestor.  It finds every block it asks for when CanFetchFrom.
branch_from(a, b) == Anc[a] \ Anc[b]
CanFetchFrom(f, a, b) ==
    /\ {a, b} \subseteq Linked(f)
    /\ branch_from(a, b) \cup branch_from(b, a) \subseteq f.index
    /\ \E c \in Linked(f) : c \in Anc[a] \cap Anc[b]

\* The merge loop of close() writes the index by increasing (lib, number),
\* and open() adds the blocks in that order: each must find its parent.
Reloads(f) ==
    /\ \A b \in f.index : Prev[b] # f.root => FirstPreferred(b, Prev[b])
    /\ ~ \E b \in f.valid : FirstPreferred(b, f.head)
    /\ f.valid = {} => f.head = f.root
    /\ f.head \in Linked(f)
=============================================================================
