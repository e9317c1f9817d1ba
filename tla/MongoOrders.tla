----------------------------- MODULE MongoOrders -----------------------------
(***************************************************************************)
(* mongo_db_plugin's collections orderbook and deals, which follow sys.match*)
(* from the traces of its actions alone: morder announces an order, done a  *)
(* deal, cancel and close2 end orders.  What a dropped application wrote     *)
(* stays: that of a block of a branch the node leaves, and, on a producer    *)
(* (whose speculative traces are taken too), that of a pending block.        *)
(* The contract then gives the same ids to other orders and deals.  Prices   *)
(* and fees are left out: which resting orders an order meets is any choice  *)
(* of the other side of its pair.                                            *)
(***************************************************************************)
EXTENDS Integers, Sequences, FiniteSets, SequencesExt, FiniteSetsExt

CONSTANTS
    Maker, Pair, Exchange,
    Quantity,    \* the quantities an order may have
    First,       \* the trace that reaches start_block_num
    MaxTraces    \* bound on the transactions applied, dropped ones included

VARIABLES
    book,      \* the contract's orders: [id, maker, pair, exc, side, left]
    traces,    \* the transactions of sys.match, as the plugin gets them
    orders,    \* the collection orderbook: [id, from, pair, exc, total, matched, status]
    deals,     \* the collection deals: [id, buy, sell, quantity]
    drops,     \* the number of applications that were dropped
    before     \* the contract's orders before each of the traces

ovars == <<book, traces, orders, deals, drops, before>>

Less(x, y) == IF x < y THEN x ELSE y
-----------------------------------------------------------------------------
(* The documents of one id, at most one of them. *)
Of(docs, id) == {d \in docs : d.id = id}

(* ins_order and ins_deal: what is there already is left alone. *)
Inserted(docs, new) == IF Of(docs, new.id) = {} THEN docs \cup {new} ELSE docs

(* One half of upd_order: 3 is complete, 2 is not. *)
MutAlwaysPartial(d, quantity) == [d EXCEPT !.matched = @ + quantity, !.status = 2]

Dealt(d, quantity) ==
    [d EXCEPT !.matched = @ + quantity,
              !.status = IF d.matched + quantity = d.total THEN 3 ELSE 2]

Updated(docs, id, quantity) == {IF d.id = id THEN Dealt(d, quantity) ELSE d : d \in docs}

(* upd_order: nothing for a deal that was processed, and no more once an order
   is not found. *)
MutForgetsDeals(stored, done) == FALSE

Processed(stored, done) == Of(stored, done.id) # {}

upd_order(docs, stored, done) ==
    IF Processed(stored, done) \/ Of(docs, done.buy) = {} THEN docs
    ELSE LET bought == Updated(docs, done.buy, done.quantity)
         IN  IF Of(docs, done.sell) = {} THEN bought ELSE Updated(bought, done.sell, done.quantity)

(* add_match: the orders, then the changes to them, then the deals. *)
add_match(m, t) ==
    [orders |-> FoldLeft(LAMBDA docs, done : upd_order(docs, m.deals, done),
                         Inserted(m.orders, t.order), t.dones),
     deals |-> FoldLeft(Inserted, m.deals, t.dones)]

(* on_cancel: one order, those of a pair or all of a maker, whatever their status. *)
Cancelled(d, t) ==
    d.from = t.maker /\ (t.type = 0 => d.id = t.what) /\ (t.type = 1 => d.pair = t.what)

on_cancel(m, t) ==
    [m EXCEPT !.orders = {IF Cancelled(d, t) THEN [d EXCEPT !.status = 4] ELSE d : d \in @}]

(* on_close2: the open orders of a pair at an exchange. *)
MutClosesComplete(d, t) == d.exc = t.exc /\ d.pair = t.pair

Closed(d, t) == d.exc = t.exc /\ d.pair = t.pair /\ d.status \in {1, 2}

on_close2(m, t) ==
    [m EXCEPT !.orders = {IF Closed(d, t) THEN [d EXCEPT !.status = 5] ELSE d : d \in @}]

add_trade(m, t) ==
    CASE t.kind = "trade"  -> add_match(m, t)
      [] t.kind = "cancel" -> on_cancel(m, t)
      [] t.kind = "close"  -> on_close2(m, t)

(* The traces given to add_trade, in order, once start_block_num is reached. *)
Traced(ts) ==
    LET m == FoldLeft(add_trade, [orders |-> orders, deals |-> deals], ts)
    IN  orders' = m.orders /\ deals' = m.deals

Applied(t) ==
    /\ Len(traces) + drops < MaxTraces
    /\ traces' = Append(traces, t)
    /\ before' = Append(before, book)
    /\ Traced(IF Len(traces) + 1 >= First THEN <<t>> ELSE <<>>)
    /\ UNCHANGED drops
-----------------------------------------------------------------------------
OrdersInit == book = {} /\ traces = <<>> /\ orders = {} /\ deals = {} /\ drops = 0 /\ before = <<>>

(* available_primary_key: on one branch ids are never used again. *)
Trades == {i \in DOMAIN traces : traces[i].kind = "trade"}
DealsMade == FoldLeft(LAMBDA n, t : n + Len(t.dones), 0, SelectSeq(traces, LAMBDA t : t.kind = "trade"))

(* The deals with the resting orders in turn: each takes what it can. *)
Meets(quantity, met) ==
    [i \in 1..Len(met) |->
        LET taken == FoldLeft(LAMBDA n, o : n + o.left, 0, SubSeq(met, 1, i - 1))
        IN  Less(quantity - taken, met[i].left)]

(* exchange::match: morder, then one done per resting order that is met. *)
match(maker, pair, exc, side, quantity, met) ==
    /\ \A o \in Range(met) : o.pair = pair
    /\ IsInjective(met)
    /\ LET id == Cardinality(Trades) + 1
           q == Meets(quantity, met)
           dealt == FoldLeft(LAMBDA n, x : n + x, 0, q)
           done(i) == [id |-> DealsMade + i, quantity |-> q[i],
                       buy |-> IF side = "bid" THEN id ELSE met[i].id,
                       sell |-> IF side = "bid" THEN met[i].id ELSE id]
           order == [id |-> id, from |-> maker, pair |-> pair, exc |-> exc, total |-> quantity,
                     matched |-> 0, status |-> 1]
           rest == {[o EXCEPT !.left = @ - (IF o \in Range(met)
                        THEN q[CHOOSE i \in DOMAIN met : met[i] = o] ELSE 0)] : o \in book}
       IN  /\ \A i \in DOMAIN met : q[i] > 0
           /\ book' = {o \in rest \cup {[id |-> id, maker |-> maker, pair |-> pair, exc |-> exc,
                                         side |-> side, left |-> quantity - dealt]} : o.left > 0}
           /\ Applied([kind |-> "trade", order |-> order, dones |-> [i \in DOMAIN met |-> done(i)]])

(* exchange::cancel *)
cancel(maker, type, what) ==
    LET mine == {o \in book : /\ o.maker = maker
                              /\ type = 0 => o.id = what
                              /\ type = 1 => o.pair = what}
    IN  /\ book # {} /\ (type = 0 => mine # {})
        /\ book' = book \ mine
        /\ Applied([kind |-> "cancel", maker |-> maker, type |-> type, what |-> what])

(* exchange::close and the close2 it sends. *)
close(exc, pair) ==
    /\ book' = {o \in book : ~(o.exc = exc /\ o.pair = pair)}
    /\ Applied([kind |-> "close", exc |-> exc, pair |-> pair])

(* The applications from the i-th on are dropped: the blocks of a branch that
   is left, or a pending block that is aborted.  The start block is older. *)
drop(i) ==
    /\ i \in DOMAIN traces /\ i >= First
    /\ drops' = drops + Len(traces) - i + 1
    /\ book' = before[i]
    /\ traces' = SubSeq(traces, 1, i - 1)
    /\ before' = SubSeq(before, 1, i - 1)
    /\ UNCHANGED <<orders, deals>>

OrdersNext ==
    \/ \E maker \in Maker, pair \in Pair, exc \in Exchange, side \in {"bid", "ask"},
          quantity \in Quantity :
         \E met \in SeqOf({o \in book : o.side # side}, 2) : match(maker, pair, exc, side, quantity, met)
    \/ \E maker \in Maker :
         \/ \E id \in 1..MaxTraces : cancel(maker, 0, id)
         \/ \E pair \in Pair : cancel(maker, 1, pair)
         \/ cancel(maker, 2, 0)
    \/ \E exc \in Exchange, pair \in Pair : close(exc, pair)
    \/ \E i \in 1..MaxTraces : drop(i)

OrdersSpec == OrdersInit /\ [][OrdersNext]_ovars
-----------------------------------------------------------------------------
OrdersTypeOK ==
    /\ \A d \in orders : d.status \in 1..5 /\ Cardinality(Of(orders, d.id)) = 1
    /\ \A d \in deals : d.quantity > 0 /\ Cardinality(Of(deals, d.id)) = 1
    /\ \A o \in book : o.left > 0

(* An order's matched quantity is the sum of the deals stored for it, whatever
   was applied again, dropped or replaced by other orders and deals of the same
   ids; deals whose buy order is missing leave the sell
   order as it is (upd_order, ins_deal). *)
MatchedIsDeals ==
    \A d \in orders :
        d.matched = MapThenSumSet(LAMBDA e : e.quantity,
            {e \in deals : e.buy = d.id \/ (e.sell = d.id /\ Of(orders, e.buy) # {})})

(* While nothing applied is dropped and every order was seen, the open orders
   are those of the contract and what is left of them is the same (add_match,
   on_cancel, on_close2 against sys.match). *)
OpenAgrees ==
    First = 1 /\ drops = 0 =>
        {<<d.id, d.total - d.matched>> : d \in {e \in orders : e.status \in {1, 2}}}
        = {<<o.id, o.left>> : o \in book}

(* An order is complete exactly when its whole quantity is matched, or was
   cancelled since; more than its quantity is matched only where an application
   was dropped: the document of the dropped order then takes the deals of
   another order of its id. *)
CompleteIsMatched ==
    \A d \in orders : /\ drops = 0 => d.matched <= d.total
                      /\ d.status = 3 => d.matched = d.total
                      /\ d.matched = d.total => d.status \in {3, 4}
=============================================================================
