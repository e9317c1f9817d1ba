------------------------------- MODULE Relay -------------------------------
(***************************************************************************)
(* The force.relay contract, for one mapped chain: relayers ("transfers")  *)
(* put down a deposit, commit the blocks of the other chain, and a block   *)
(* that relayers with two thirds of the deposits have committed is handed  *)
(* to the handlers registered for its actions.                             *)
(*                                                                         *)
(* A transaction runs its inline actions after the action that sent them,  *)
(* depth first, and is undone as a whole when one of them throws.  The     *)
(* steps of one transaction are separate actions here; "pending" holds its *)
(* inline actions and "saved" what an exception restores.                  *)
(***************************************************************************)
EXTENDS Integers, Sequences, FiniteSets, TLC, FiniteSetsExt

CONSTANTS
  Relayers,     \* the accounts that may deposit and commit
  Blocks,       \* the block_types that get committed
  Num,          \* Num[b]: the block's number
  Id,           \* Id[b]: its identifier and roots, what operator== compares
  NilBlocks,    \* the blocks a relayer gives with producer 0
  Acts,         \* (account, action name) pairs
  Actions,      \* Actions[b]: the actions committed with the block
  Types,        \* handler names
  Amounts,      \* the amounts a relayer may deposit
  Throws,       \* the actions whose handler throws
  Redeposit,    \* whether a relayer replaces a positive deposit
  SelfCalls,    \* whether the contract's account calls onblock itself
  MaxInline,    \* how many blocks one commit hands over: 8 in the code
  Nil           \* "no block", "no action"

ASSUME RelayAssumption ==
  /\ Num \in [Blocks -> Nat]
  /\ \A b, c \in Blocks : Id[b] = Id[c] => Num[b] = Num[c]
  /\ NilBlocks \subseteq Blocks
  /\ Actions \in [Blocks -> Seq(Acts)]
  /\ Amounts \subseteq Nat
  /\ Throws \subseteq Acts
  /\ Redeposit \in BOOLEAN /\ SelfCalls \in BOOLEAN
  /\ MaxInline \in Nat \ {0}
  /\ Nil \notin Blocks \cup Acts \cup Types

VARIABLES
  channel,      \* BOOLEAN: the channel and its relay statistics exist
  deposit_sum,  \* channel.deposit_sum
  deposit,      \* deposit[t], 0 for an account without a row
  handlers,     \* handlers[type]: the action the handler is for, or Nil
  last,         \* relaystat.last
  unconfirms,   \* relaystat.unconfirms
  pending,      \* the inline actions of the running transaction
  saved,        \* what the running transaction changes, as it was before
  delivered,    \* the "on" actions handlers have executed, oldest first
  nil_relayed   \* history: a block with producer 0 has been relayed

vars == <<channel, deposit_sum, deposit, handlers, last, unconfirms,
          pending, saved, delivered, nil_relayed>>

config == <<channel, deposit_sum, deposit, handlers>>

Idle == pending = <<>>

LastNum == IF last = Nil THEN 0 ELSE Num[last]

\* block_type::is_nil() looks at the producer, which operator== leaves out.
is_nil(b) == b = Nil \/ b \in NilBlocks

\* unconfirm_block
Entry == [base : Blocks, confirm : Nat, confirmeds : SUBSET Relayers]

\* An inline action: onblock, or the "on" (handler_action) of one of its actions.
Inline == [block : Blocks, act : Acts \cup {Nil}, type : Types \cup {Nil}]

IsOnblock(a) == a.act = Nil

TypeOK ==
  /\ channel \in BOOLEAN
  /\ deposit_sum \in Nat
  /\ deposit \in [Relayers -> Nat]
  /\ handlers \in [Types -> Acts \cup {Nil}]
  /\ last \in Blocks \cup {Nil}
  /\ unconfirms \in Seq(Entry)
  /\ pending \in Seq(Inline)
  /\ saved \in [last : Blocks \cup {Nil}, unconfirms : Seq(Entry),
                delivered : Seq(Inline), nil_relayed : BOOLEAN]
  /\ delivered \in Seq(Inline)
  /\ nil_relayed \in BOOLEAN

Init ==
  /\ channel = FALSE
  /\ deposit_sum = 0
  /\ deposit = [t \in Relayers |-> 0]
  /\ handlers = [ty \in Types |-> Nil]
  /\ last = Nil
  /\ unconfirms = <<>>
  /\ pending = <<>>
  /\ saved = [last |-> Nil, unconfirms |-> <<>>, delivered |-> <<>>,
              nil_relayed |-> FALSE]
  /\ delivered = <<>>
  /\ nil_relayed = FALSE

-----------------------------------------------------------------------------
newchannel ==
  /\ Idle
  /\ ~channel
  /\ channel' = TRUE
  /\ UNCHANGED <<deposit_sum, deposit, handlers, last, unconfirms, pending,
                 saved, delivered, nil_relayed>>

newmap(type, act) ==
  /\ Idle
  /\ channel
  /\ \A ty \in Types : handlers[ty] # act
  /\ handlers' = [handlers EXCEPT ![type] = act]
  /\ UNCHANGED <<channel, deposit_sum, deposit, last, unconfirms, pending,
                 saved, delivered, nil_relayed>>

MutSumKeepsOld(t, amount) == deposit_sum + amount

MutSumSwapped(t, amount) == (deposit_sum - amount) - deposit[t]

\* cc.deposit_sum -= old; cc.deposit_sum += deposit
NewSum(t, amount) == (deposit_sum - deposit[t]) + amount

\* ontransfer and new_transfer: the amount replaces the earlier deposit.
new_transfer(t, amount) ==
  /\ Idle
  /\ channel
  /\ deposit[t] <= deposit_sum
  /\ Redeposit \/ deposit[t] = 0
  /\ deposit_sum' = NewSum(t, amount)
  /\ deposit' = [deposit EXCEPT ![t] = amount]
  /\ UNCHANGED <<channel, handlers, last, unconfirms, pending, saved,
                 delivered, nil_relayed>>

-----------------------------------------------------------------------------
MutFactorsSwapped(u) == u.confirm * 2 >= deposit_sum * 3

\* uc.confirm * 3 >= ich->deposit_sum * 2
IsConfirmed(u) == u.confirm * 3 >= deposit_sum * 2

MutUnsorted(s) == TRUE

\* std::sort orders by number only; blocks of one number may come in any order.
SortedByNum(s) ==
  \A i, j \in 1 .. Len(s) : i < j => Num[s[i].base] <= Num[s[j].base]

\* n blocks at the head of the list are confirmed, at most MaxInline of them.
IsPrefixLen(s, n) ==
  /\ n <= MaxInline
  /\ \A i \in 1 .. n : IsConfirmed(s[i])
  /\ n < MaxInline /\ n < Len(s) => ~IsConfirmed(s[n + 1])

OnblockOf(b) == [block |-> b, act |-> Nil, type |-> Nil]

HandOver(s) ==
  /\ unconfirms' = s
  /\ \E n \in 0 .. Len(s) :
       /\ IsPrefixLen(s, n)
       /\ pending' = [i \in 1 .. n |-> OnblockOf(s[i].base)]

MutConfirmAgain(u, t) ==
  [u EXCEPT !.confirm = @ + deposit[t], !.confirmeds = @ \cup {t}]

\* The entry after confirm_by(t), or Nil where its assertion fails.
ConfirmBy(u, t) ==
  IF t \in u.confirmeds
  THEN Nil
  ELSE [u EXCEPT !.confirm = @ + deposit[t], !.confirmeds = @ \cup {t}]

\* The relayer's own row also remembers the block (r.last); nothing reads it.
commit(t, b) ==
  /\ Idle
  /\ deposit[t] > 0
  /\ channel
  /\ deposit_sum > 0
  /\ ~is_nil(last) => LastNum < Num[b]
  /\ saved' = [last |-> last, unconfirms |-> unconfirms,
               delivered |-> delivered, nil_relayed |-> nil_relayed]
  /\ \/ \E i \in 1 .. Len(unconfirms) :
          /\ Id[unconfirms[i].base] = Id[b]
          /\ ConfirmBy(unconfirms[i], t) # Nil
          /\ HandOver([unconfirms EXCEPT ![i] = ConfirmBy(@, t)])
     \/ /\ \A i \in 1 .. Len(unconfirms) : Id[unconfirms[i].base] # Id[b]
        /\ LET s == Append(unconfirms, [base |-> b, confirm |-> deposit[t],
                                        confirmeds |-> {t}])
           IN  \E p \in Bijection(1 .. Len(s), 1 .. Len(s)) :
                 LET u == [i \in 1 .. Len(s) |-> s[p[i]]]
                 IN  SortedByNum(u) /\ HandOver(u)
  /\ UNCHANGED <<config, last, delivered, nil_relayed>>

\* The onblock action sent by the contract's own account.
onblock(b) ==
  /\ SelfCalls
  /\ Idle
  /\ channel
  /\ pending' = <<OnblockOf(b)>>
  /\ saved' = [last |-> last, unconfirms |-> unconfirms,
               delivered |-> delivered, nil_relayed |-> nil_relayed]
  /\ UNCHANGED <<config, last, unconfirms, delivered, nil_relayed>>

\* The increasing enumeration of a set of positions.
Enumerates(f, S) ==
  /\ S = {f[i] : i \in DOMAIN f}
  /\ \A i, j \in DOMAIN f : i < j => f[i] < f[j]

\* The positions of the block's actions that have a handler.
Mapped(b) == {i \in 1 .. Len(Actions[b]) :
                \E ty \in Types : handlers[ty] = Actions[b][i]}

\* onaction: the "on" of one action, for the one handler it has.
OnOf(b, act) == [block |-> b, act |-> act,
                 type |-> CHOOSE ty \in Types : handlers[ty] = act]

\* currrelaystat->last.num >= block.num
AlreadyRelayed(b) == LastNum >= Num[b]

\* The positions that stay when the block is relayed: those of other numbers.
Unhandled(b) == {i \in 1 .. Len(unconfirms) : Num[unconfirms[i].base] # Num[b]}

MutLastStays(b, e) ==
  /\ last' = last
  /\ UNCHANGED nil_relayed
  /\ unconfirms' = SelectSeq(unconfirms, LAMBDA u : Num[u.base] # Num[b])
  /\ \E n \in 0 .. Len(Actions[e]) : \E f \in [1 .. n -> Mapped(e)] :
       /\ Enumerates(f, Mapped(e))
       /\ pending' = [i \in DOMAIN f |-> OnOf(b, Actions[e][f[i]])]
                       \o Tail(pending)

\* Block b is relayed, with the actions of the equal block e in the list.
onblockimp(b, e) ==
  /\ last' = b
  /\ nil_relayed' = (nil_relayed \/ b \in NilBlocks)
  /\ \E n \in 0 .. Len(unconfirms) : \E f \in [1 .. n -> Unhandled(b)] :
       /\ Enumerates(f, Unhandled(b))
       /\ unconfirms' = [i \in DOMAIN f |-> unconfirms[f[i]]]
  /\ \E n \in 0 .. Len(Actions[e]) : \E f \in [1 .. n -> Mapped(e)] :
       /\ Enumerates(f, Mapped(e))
       /\ pending' = [i \in DOMAIN f |-> OnOf(b, Actions[e][f[i]])]
                       \o Tail(pending)

\* uc.base == block and the two thirds
Relayable(b, i) == Id[unconfirms[i].base] = Id[b] /\ IsConfirmed(unconfirms[i])

RunOnblock ==
  /\ ~Idle
  /\ IsOnblock(Head(pending))
  /\ LET b == Head(pending).block
         at == 1 .. Len(unconfirms)
     IN  \/ /\ ~AlreadyRelayed(b)
            /\ deposit_sum > 0
            /\ \E i \in at : Relayable(b, i) /\ onblockimp(b, unconfirms[i].base)
         \/ /\ \/ AlreadyRelayed(b)
               \/ deposit_sum > 0 /\ \A i \in at : ~Relayable(b, i)
            /\ pending' = Tail(pending)
            /\ UNCHANGED <<last, unconfirms, nil_relayed>>
  /\ UNCHANGED <<config, saved, delivered>>

RunOn ==
  /\ ~Idle
  /\ ~IsOnblock(Head(pending))
  /\ Head(pending).act \notin Throws
  /\ delivered' = Append(delivered, Head(pending))
  /\ pending' = Tail(pending)
  /\ UNCHANGED <<config, last, unconfirms, saved, nil_relayed>>

\* An exception in an inline action undoes the transaction.
Undo ==
  /\ ~Idle
  /\ \/ Head(pending).act \in Throws
     \/ /\ IsOnblock(Head(pending))
        /\ ~AlreadyRelayed(Head(pending).block)
        /\ deposit_sum = 0
  /\ last' = saved.last
  /\ unconfirms' = saved.unconfirms
  /\ delivered' = saved.delivered
  /\ nil_relayed' = saved.nil_relayed
  /\ pending' = <<>>
  /\ UNCHANGED <<config, saved>>

Next ==
  \/ newchannel
  \/ \E ty \in Types, a \in Acts : newmap(ty, a)
  \/ \E t \in Relayers, m \in Amounts : new_transfer(t, m)
  \/ \E t \in Relayers, b \in Blocks : commit(t, b)
  \/ \E b \in Blocks : onblock(b)
  \/ RunOnblock
  \/ RunOn
  \/ Undo

Spec == Init /\ [][Next]_vars

\* A transaction runs to its end, and relayers go on committing while a commit would
\* be accepted: other transactions may come first, but not for ever.
FairSpec ==
  /\ Spec
  /\ WF_vars(newchannel)
  /\ WF_vars(RunOnblock \/ RunOn \/ Undo)
  /\ SF_vars(\E t \in Relayers, b \in Blocks : commit(t, b))

-----------------------------------------------------------------------------
(* Properties *)

\* new_transfer keeps channel.deposit_sum, the base of the two thirds, equal
\* to the sum of the deposits of the relayers, whatever they redeposit.
DepositSumExact ==
  deposit_sum = MapThenSumSet(LAMBDA t : deposit[t], Relayers)

\* Handlers never see two blocks of one number, and see the numbers in
\* increasing order, even when two forks are committed and both confirmed: two
\* deliveries are of one block, or the later one is of a higher number.
DeliveredInOrder ==
  \A i, j \in 1 .. Len(delivered) :
    i < j => \/ delivered[i].block = delivered[j].block
             \/ Num[delivered[i].block] < Num[delivered[j].block]

\* As long as no relayed block had producer 0, no block at or below the last
\* relayed number waits in the list between transactions: commit would refuse
\* it, so it could never be confirmed and, being first in the list, it would
\* keep every later block from being relayed.  A block with producer 0 turns
\* commit's check off (is_nil), and lower blocks are then added for good.
NoneStranded ==
  Idle /\ ~nil_relayed =>
    \A i \in 1 .. Len(unconfirms) : LastNum < Num[unconfirms[i].base]

\* While no deposit is replaced, a block's confirm is exactly what its
\* committers have on deposit: no relayer is counted twice (confirm_by).
ConfirmExact ==
  \A i \in 1 .. Len(unconfirms) :
    unconfirms[i].confirm =
      MapThenSumSet(LAMBDA t : deposit[t], unconfirms[i].confirmeds)

\* Once somebody has a deposit, every block number is eventually passed.
AllRelayed ==
  (deposit_sum > 0) ~> (\A b \in Blocks : Num[b] <= LastNum)
=============================================================================
