------------------------------ MODULE SysMatch ------------------------------
(***************************************************************************)
(* sys.match: an order book for one trading pair, shared by several        *)
(* exchanges.  Coins reach the contract by a token transfer whose memo     *)
(* says what they are for (inline_match): an order, points, or an          *)
(* exchange's stake.  A new order is matched against the other side of     *)
(* the book, best price first; what is left of it stays in the book.       *)
(*                                                                         *)
(* An action that throws, an inline transfer of nothing included, changes  *)
(* nothing.  Left out: averages of the price (mark, upd_mark), without     *)
(* which points pay no fee; the notices morder and done; symbols, chains   *)
(* and referers.  Base, quote and price have the same precision, Unit.     *)
(***************************************************************************)
EXTENDS Integers, Sequences, FiniteSets, SequencesExt

CONSTANTS
    Trader, Exc,    \* accounts that trade, and exchange accounts
    Started, Staked,\* exchanges that have registered and opened the pair, and
                    \*   those that have staked for it
    Prices, Amounts,\* prices of orders, and amounts of coins sent
    Unit,           \* precision: 10^digits
    PriceWord,      \* 2^32, the width a price is looked up with
    Rates, MaxRate, \* fee rates, and max_fee_rate
    MinQties,       \* what setminordqty sets
    RegStake,       \* REG_STAKE and OPEN__PAIR_STAKE
    MaxOrders,      \* bound on order ids
    MaxOps          \* bound on orders and operations of exchanges

VARIABLES
    book,           \* [orders, accts, fees, escrow, kept]: orderbook, accounts, fees, the
                    \*   contract's balances in the token contracts, and, as history, the
                    \*   refunds it took from a balance and did not pay
    exchanges,      \* [Exc -> [is, frozen]]
    staked,         \* freeze_table
    next_id,        \* ids: the next order's
    paused,         \* history: exchanges whose pair has been frozen
    admin,          \* operations of exchanges, points and withdrawals done
    drawn           \* history: core coins exchanges have withdrawn

match_vars == <<book, exchanges, staked, next_id, paused, admin, drawn>>

Coin == {"base", "quote", "core"}
Native == {"quote", "core"}
Account == Trader \cup Exc
Uses == {"regex", "open"}
Ids == 1..MaxOrders
MoreOps == next_id - 1 + admin < MaxOps

NoFeeInfo == [open |-> FALSE, frozen |-> FALSE, rate |-> 0, min |-> 0, base |-> 0, quote |-> 0]

MatchTypeOK ==
    /\ DOMAIN book.orders \subseteq Ids
    /\ \A id \in DOMAIN book.orders :
          LET o == book.orders[id]
          IN  /\ o.maker \in Trader /\ o.exc \in Exc /\ o.bid \in BOOLEAN
              /\ o.price \in Prices /\ o.base \in Nat
    /\ book.accts \in [Account -> [Coin -> Nat]] /\ book.escrow \in [Coin -> Nat]
    /\ \A e \in Exc : book.fees[e].base \in Nat /\ book.fees[e].quote \in Nat
    /\ exchanges \in [Exc -> [is : BOOLEAN, frozen : BOOLEAN]]
    /\ staked \in [Exc -> [Uses -> Nat]]
    /\ next_id \in 1..MaxOrders + 1
    /\ paused \subseteq Exc
    /\ admin \in 0..MaxOps
    /\ drawn \in [Exc -> Nat] /\ book.kept \in Nat

MatchInit ==
    /\ book = [orders |-> [i \in {} |-> 0],
               accts |-> [a \in Account |->
                            [c \in Coin |-> IF c = "core" /\ a \in Staked THEN 2 * RegStake ELSE 0]],
               escrow |-> [c \in Coin |->
                             IF c = "core" THEN 2 * RegStake * Cardinality(Staked) ELSE 0],
               fees |-> [e \in Exc |-> [NoFeeInfo EXCEPT !.open = (e \in Started)]],
               kept |-> 0]
    /\ exchanges = [e \in Exc |-> [is |-> e \in Started, frozen |-> FALSE]]
    /\ staked = [e \in Exc |-> [u \in Uses |-> IF e \in Staked THEN RegStake ELSE 0]]
    /\ next_id = 1
    /\ paused = {}
    /\ admin = 0
    /\ drawn = [e \in Exc |-> 0]
-----------------------------------------------------------------------------
(* Balances.  Once something has thrown, the rest does not matter.          *)

Throw(s) == [s EXCEPT !.ok = FALSE]

add_balance(s, a, c, q) == [s EXCEPT !.accts[a][c] = @ + q]

(* Mutation: whatever the balance is. *)
MutSubAny(s, a, c, q) == [s EXCEPT !.accts[a][c] = @ - q]

(* An account without a balance has no entry to subtract from. *)
sub_balance(s, a, c, q) ==
    IF s.accts[a][c] > 0 /\ s.accts[a][c] >= q THEN [s EXCEPT !.accts[a][c] = @ - q] ELSE Throw(s)

(* inline_transfer from the escrow: the token contract refuses 0, and more  *)
(* than there is.                                                           *)
inline_transfer(s, c, q) ==
    IF q > 0 /\ q <= s.escrow[c] THEN [s EXCEPT !.escrow[c] = @ - q] ELSE Throw(s)

(* Coins that came with a transfer. *)
Deposit(s, a, c, q) == [add_balance(s, a, c, q) EXCEPT !.escrow[c] = @ + q]

calcfee(q, rate) ==
    LET fee == (q * rate) \div MaxRate
    IN  IF rate > 0 /\ fee < 1 THEN 1 ELSE fee

charge_fee(s, e, side, fee) == [s EXCEPT !.fees[e][side] = @ + fee]

Value(base, price) == (price * base) \div Unit

(* What an order holds of its maker's balance. *)
CoinOf(o) == IF o.bid THEN "quote" ELSE "base"
Reserve(o) == IF o.bid THEN Value(o.base, o.price) ELSE o.base

(* Start from the tables, end with them. *)
Run == [orders |-> book.orders, accts |-> book.accts, fees |-> book.fees, escrow |-> book.escrow,
        kept |-> book.kept, ok |-> TRUE, left |-> 0, got |-> 0, refund |-> 0, filled |-> FALSE]

Tables(s) == [orders |-> s.orders, accts |-> s.accts, fees |-> s.fees, escrow |-> s.escrow,
              kept |-> s.kept]

Without(orders, id) == [i \in DOMAIN orders \ {id} |-> orders[i]]

(* What an order leaves in the book after a deal. *)
Reduced(s, id, deal) ==
    [s EXCEPT !.orders = IF deal < s.orders[id].base
                         THEN [@ EXCEPT ![id].base = @ - deal]
                         ELSE Without(@, id),
              !.filled = (s.left <= s.orders[id].base),
              !.left = @ - deal]
-----------------------------------------------------------------------------
(* match_for_bid and match_for_ask *)

(* Mutation: an ask of the same price is not met. *)
MutStrict(bid, price) ==
    LET hit == {i \in DOMAIN book.orders :
                  /\ book.orders[i].bid = ~bid
                  /\ IF bid THEN book.orders[i].price < price % PriceWord
                     ELSE book.orders[i].price >= price % PriceWord}
    IN  SetToSortSeq(hit, LAMBDA i, j : i < j)

(* The orders a new one of the given price meets, in the order it does: of  *)
(* equal bids the latest comes first.                                       *)
Qualified(bid, price) ==
    LET Key(i) == book.orders[i].price
        hit == {i \in DOMAIN book.orders :
                  /\ book.orders[i].bid = ~bid
                  /\ IF bid THEN Key(i) <= price % PriceWord ELSE Key(i) >= price % PriceWord}
    IN  IF bid THEN SetToSortSeq(hit, LAMBDA i, j : Key(i) < Key(j) \/ (Key(i) = Key(j) /\ i < j))
        ELSE SetToSortSeq(hit, LAMBDA i, j : Key(i) > Key(j) \/ (Key(i) = Key(j) /\ i > j))

(* A bid of taker t at exchange e meets an ask. *)
FillAsk(s, id, t, e, price) ==
    LET o == s.orders[id]
        deal == IF s.left <= o.base THEN s.left ELSE o.base
        value == Value(deal, o.price)
        buy == calcfee(deal, s.fees[e].rate)
        sell == calcfee(value, s.fees[o.exc].rate)
        diff == Value(deal, price - o.price)
        s1 == charge_fee(sub_balance(s, o.maker, "base", deal), e, "base", buy)
        s2 == charge_fee(sub_balance(s1, t, "quote", value), o.exc, "quote", sell)
        s3 == inline_transfer([s2 EXCEPT !.got = @ + deal - buy], "quote", value - sell)
        s4 == IF price > o.price
              THEN [sub_balance(s3, t, "quote", diff) EXCEPT !.refund = @ + diff] ELSE s3
    IN  Reduced(s4, id, deal)

(* Mutation: the maker's fee is charged and not withheld. *)
MutFeeTwice(s, id, t, e) ==
    LET o == s.orders[id]
        deal == IF s.left <= o.base THEN s.left ELSE o.base
        value == Value(deal, o.price)
        sell == calcfee(value, s.fees[e].rate)
        buy == calcfee(deal, s.fees[o.exc].rate)
        s1 == charge_fee(sub_balance(s, o.maker, "quote", value), e, "quote", sell)
        s2 == charge_fee(sub_balance(s1, t, "base", deal), o.exc, "base", buy)
        s3 == inline_transfer([s2 EXCEPT !.got = @ + value - sell], "base", deal)
    IN  Reduced(s3, id, deal)

(* An ask of taker t at exchange e meets a bid, at the bid's price. *)
FillBid(s, id, t, e) ==
    LET o == s.orders[id]
        deal == IF s.left <= o.base THEN s.left ELSE o.base
        value == Value(deal, o.price)
        sell == calcfee(value, s.fees[e].rate)
        buy == calcfee(deal, s.fees[o.exc].rate)
        s1 == charge_fee(sub_balance(s, o.maker, "quote", value), e, "quote", sell)
        s2 == charge_fee(sub_balance(s1, t, "base", deal), o.exc, "base", buy)
        s3 == inline_transfer([s2 EXCEPT !.got = @ + value - sell], "base", deal - buy)
    IN  Reduced(s3, id, deal)

(* walk_table_range: orders of an exchange that froze the pair are passed   *)
(* over.                                                                    *)
walk_table_range(s, ids, Fill(_, _)) ==
    FoldLeft(LAMBDA r, id : IF ~r.ok \/ r.filled \/ r.fees[r.orders[id].exc].frozen THEN r
                            ELSE Fill(r, id),
             s, ids)

(* send_cumulated *)
Sent(s, c, q) == IF q > 0 THEN inline_transfer(s, c, q) ELSE s

insert_order(s, o) ==
    [s EXCEPT !.orders = [i \in DOMAIN @ \cup {next_id} |-> IF i = next_id THEN o ELSE @[i]]]

(* The best ask is looked at with the whole price, the range of asks with   *)
(* its low word: the range may be empty although an ask could be met.       *)
Overlooked(price) ==
    /\ Qualified(TRUE, price) = <<>>
    /\ \E i \in DOMAIN book.orders : ~book.orders[i].bid /\ book.orders[i].price <= price

(* Over an empty range walk_table_range neither inserts the order nor pays  *)
(* the refund.                                                              *)
match_for_bid(t, e, quantity, price) ==
    LET base == (quantity * Unit) \div price
        back == quantity - Value(base, price)
        s == [sub_balance(Deposit(Run, t, "quote", quantity), t, "quote", back)
                EXCEPT !.left = base, !.refund = back]
        r == walk_table_range(s, Qualified(TRUE, price),
                              LAMBDA x, id : FillAsk(x, id, t, e, price))
        done == Sent(Sent(r, "base", r.got), "quote", r.refund)
    IN  IF ~s.ok \/ base < book.fees[e].min THEN Throw(s)
        ELSE IF Overlooked(price) THEN [s EXCEPT !.kept = @ + back]
        ELSE IF done.filled THEN done
        ELSE insert_order(done, [maker |-> t, exc |-> e, bid |-> TRUE, price |-> price,
                                 base |-> done.left])

match_for_ask(t, e, base, price) ==
    LET s == [Deposit(Run, t, "base", base) EXCEPT !.left = base]
        r == walk_table_range(s, Qualified(FALSE, price), LAMBDA x, id : FillBid(x, id, t, e))
        done == Sent(r, "quote", r.got)
    IN  IF base < book.fees[e].min THEN Throw(s)
        ELSE IF done.filled THEN done
        ELSE insert_order(done, [maker |-> t, exc |-> e, bid |-> FALSE, price |-> price,
                                 base |-> done.left])

is_exc_frozen(e) == ~exchanges[e].is \/ exchanges[e].frozen

(* A transfer with memo trade. *)
match(t, e, bid, quantity, price) ==
    LET s == IF bid THEN match_for_bid(t, e, quantity, price)
             ELSE match_for_ask(t, e, quantity, price)
    IN  /\ next_id <= MaxOrders /\ MoreOps
        /\ ~is_exc_frozen(e) /\ book.fees[e].open /\ ~book.fees[e].frozen
        /\ s.ok
        /\ book' = Tables(s)
        /\ next_id' = next_id + 1
        /\ UNCHANGED <<exchanges, staked, paused, admin, drawn>>
-----------------------------------------------------------------------------
(* Cancelling and closing *)

(* The escrow of an order goes back to its maker and the order is erased. *)
Refund(s, id) ==
    LET o == s.orders[id]
        r == sub_balance(inline_transfer(s, CoinOf(o), Reserve(o)), o.maker, CoinOf(o), Reserve(o))
    IN  [r EXCEPT !.orders = Without(@, id)]

RefundAll(ids) == FoldLeft(Refund, Run, SetToSortSeq(ids, LAMBDA i, j : i < j))

cancel(t, ids) ==
    LET s == RefundAll(ids)
    IN  /\ ids # {} /\ s.ok
        /\ book' = Tables(s)
        /\ UNCHANGED <<exchanges, staked, next_id, paused, admin, drawn>>

Own(t) == {i \in DOMAIN book.orders : book.orders[i].maker = t}

cancel_one(t) == \E id \in Own(t) : cancel(t, {id})
cancel_all(t) == cancel(t, Own(t))

(* Mutation: the orders of the exchange are forgotten. *)
MutCloseKeeps(e) ==
    /\ MoreOps
    /\ ~is_exc_frozen(e) /\ book.fees[e].open
    /\ book.fees[e].base = 0 /\ book.fees[e].quote = 0
    /\ book' = [book EXCEPT !.fees[e] = NoFeeInfo]
    /\ admin' = admin + 1
    /\ UNCHANGED <<exchanges, staked, next_id, paused, drawn>>

close2(e) ==
    LET s == RefundAll({i \in DOMAIN book.orders : book.orders[i].exc = e})
    IN  /\ MoreOps
        /\ ~is_exc_frozen(e) /\ book.fees[e].open
        /\ book.fees[e].base = 0 /\ book.fees[e].quote = 0
        /\ s.ok
        /\ book' = [Tables(s) EXCEPT !.fees[e] = NoFeeInfo]
        /\ admin' = admin + 1
        /\ UNCHANGED <<exchanges, staked, next_id, paused, drawn>>

(* Mutation: pending orders are not looked for. *)
MutWithdrawAny(a, c, q) ==
    LET s == sub_balance(inline_transfer(Run, c, q), a, c, q)
    IN  /\ MoreOps
        /\ s.ok
        /\ book' = Tables(s)
        /\ admin' = admin + 1
        /\ UNCHANGED <<exchanges, staked, next_id, paused, drawn>>

withdraw(a, c, q) ==
    LET s == sub_balance(inline_transfer(Run, c, q), a, c, q)
    IN  /\ MoreOps
        /\ c = "quote" => Own(a) = {}
        /\ s.ok
        /\ book' = Tables(s)
        /\ admin' = admin + 1
        /\ drawn' = [x \in Exc |-> drawn[x] + (IF x = a /\ c = "core" THEN q ELSE 0)]
        /\ UNCHANGED <<exchanges, staked, next_id, paused>>

(* A transfer with memo points. *)
points(a, c, q) ==
    /\ MoreOps
    /\ book' = Tables(Deposit(Run, a, c, q))
    /\ admin' = admin + 1
    /\ UNCHANGED <<exchanges, staked, next_id, paused, drawn>>
-----------------------------------------------------------------------------
(* Exchanges *)

Admin ==
    /\ MoreOps
    /\ admin' = admin + 1
    /\ UNCHANGED <<next_id, drawn>>

regex(e) ==
    /\ Admin
    /\ staked[e]["regex"] >= RegStake /\ ~exchanges[e].is
    /\ exchanges' = [exchanges EXCEPT ![e] = [is |-> TRUE, frozen |-> FALSE]]
    /\ UNCHANGED <<book, staked, paused>>

open(e) ==
    /\ Admin
    /\ ~is_exc_frozen(e) /\ staked[e]["open"] >= RegStake /\ ~book.fees[e].open
    /\ book' = [book EXCEPT !.fees[e] = [NoFeeInfo EXCEPT !.open = TRUE]]
    /\ UNCHANGED <<exchanges, staked, paused>>

claim(e) ==
    LET f == book.fees[e]
    IN  /\ Admin
        /\ ~is_exc_frozen(e) /\ f.open /\ ~f.frozen
        /\ f.base > 0 \/ f.quote > 0
        /\ f.base <= book.escrow["base"] /\ f.quote <= book.escrow["quote"]
        /\ book' = [book EXCEPT !.escrow["base"] = @ - f.base,
                                !.escrow["quote"] = @ - f.quote,
                                !.fees[e].base = 0, !.fees[e].quote = 0]
        /\ UNCHANGED <<exchanges, staked, paused>>

freeze(e) ==
    /\ Admin
    /\ ~is_exc_frozen(e) /\ book.fees[e].open
    /\ book' = [book EXCEPT !.fees[e].frozen = TRUE]
    /\ paused' = paused \cup {e}
    /\ UNCHANGED <<exchanges, staked>>

unfreeze(e) ==
    /\ Admin
    /\ ~is_exc_frozen(e) /\ book.fees[e].open /\ staked[e]["open"] >= RegStake
    /\ book' = [book EXCEPT !.fees[e].frozen = FALSE]
    /\ UNCHANGED <<exchanges, staked, paused>>

(* setfee and setminordqty *)
setfee(e, rate) ==
    /\ Admin
    /\ ~is_exc_frozen(e) /\ book.fees[e].open
    /\ book' = [book EXCEPT !.fees[e].rate = rate]
    /\ UNCHANGED <<exchanges, staked, paused>>

setminordqty(e, q) ==
    /\ Admin
    /\ ~is_exc_frozen(e) /\ book.fees[e].open
    /\ book' = [book EXCEPT !.fees[e].min = q]
    /\ UNCHANGED <<exchanges, staked, paused>>

(* A transfer with memo freeze: only a first stake can end a freeze. *)
freeze4(e, use, q) ==
    LET first == staked[e][use] = 0 /\ q >= RegStake
    IN  /\ Admin
        /\ first /\ use = "open" /\ book.fees[e].open => ~is_exc_frozen(e)
        /\ staked' = [staked EXCEPT ![e][use] = @ + q]
        /\ exchanges' = [exchanges EXCEPT ![e].frozen = @ /\ ~(first /\ use = "regex")]
        /\ book' = [Tables(Deposit(Run, e, "core", q)) EXCEPT
                     !.fees[e].frozen = @ /\ ~(first /\ use = "open")]
        /\ UNCHANGED paused

(* Mutation: only when the whole stake is gone. *)
MutOnlyWhenGone(left) == left = 0

(* A stake below the one demanded freezes the exchange, or its pair. *)
Short(left) == left < RegStake

unfreeze4(e, use, q) ==
    LET s == inline_transfer(sub_balance(Run, e, "core", q), "core", q)
        short == Short(staked[e][use] - q)
        freezes == short /\ use = "open" /\ book.fees[e].open
    IN  /\ Admin
        /\ ~is_exc_frozen(e) /\ staked[e][use] >= q
        /\ s.ok
        /\ staked' = [staked EXCEPT ![e][use] = @ - q]
        /\ exchanges' = [exchanges EXCEPT ![e].frozen = @ \/ (short /\ use = "regex")]
        /\ book' = [Tables(s) EXCEPT !.fees[e].frozen = @ \/ freezes]
        /\ paused' = IF freezes THEN paused \cup {e} ELSE paused

MatchNext ==
    \/ \E t \in Trader, e \in Exc, bid \in BOOLEAN, q \in Amounts, p \in Prices : match(t, e, bid, q, p)
    \/ \E t \in Trader : cancel_one(t) \/ cancel_all(t)
    \/ \E a \in Account, c \in Native, q \in Amounts : withdraw(a, c, q)
    \/ \E t \in Trader, c \in Native, q \in Amounts : points(t, c, q)
    \/ \E e \in Exc :
          \/ regex(e) \/ open(e) \/ close2(e) \/ claim(e) \/ freeze(e) \/ unfreeze(e)
          \/ \E r \in Rates : setfee(e, r)
          \/ \E q \in MinQties : setminordqty(e, q)
          \/ \E use \in Uses, q \in Amounts : freeze4(e, use, q) \/ unfreeze4(e, use, q)

MatchSpec == MatchInit /\ [][MatchNext]_match_vars
-----------------------------------------------------------------------------
SumOf(f(_), S) == FoldSet(LAMBDA x, sum : sum + f(x), 0, S)

(* The contract pays out, in transfers, fees and refunds, exactly what it   *)
(* takes from somebody's balance: of each coin it holds what the accounts   *)
(* have in it and the fees of the exchanges; nobody can claim the refund of *)
(* a bid above 2^32 that overlooked the asks.                               *)
EscrowExact ==
    \A c \in Coin :
        book.escrow[c] = SumOf(LAMBDA a : book.accts[a][c], Account)
                         + SumOf(LAMBDA e : IF c = "core" THEN 0 ELSE book.fees[e][c], Exc)
                         + (IF c = "quote" THEN book.kept ELSE 0)

(* However often an order was met in part, and whatever else its maker does, *)
(* the maker's balance covers what is left of all its orders: so no match    *)
(* and no cancel of them throws for want of balance.                         *)
OrdersBacked ==
    \A t \in Trader, c \in Coin :
        book.accts[t][c] >=
            SumOf(LAMBDA i : IF CoinOf(book.orders[i]) = c THEN Reserve(book.orders[i]) ELSE 0, Own(t))

(* The exchange of every order in the book has the pair open: matching      *)
(* looks its fees up without asking.                                        *)
OrdersHaveExchange == \A i \in DOMAIN book.orders : book.fees[book.orders[i].exc].open

(* Orders that could be met are never left standing against each other,     *)
(* unless their exchange has frozen the pair in the meantime, or the bid    *)
(* came later with a price that does not fit the word it is looked up with. *)
NotCrossed ==
    \A i, j \in DOMAIN book.orders :
        book.orders[i].bid /\ ~book.orders[j].bid
        /\ book.orders[i].exc \notin paused /\ book.orders[j].exc \notin paused
        /\ (i > j => book.orders[i].price < PriceWord)
        => book.orders[i].price < book.orders[j].price

(* An exchange that may trade is recorded with the stake regex asks for,    *)
(* and one whose pair is not frozen with the one open asks for.  The coins  *)
(* are in the exchange's ordinary balance: they are there unless it has     *)
(* withdrawn them, which withdraw allows without a look at the record.      *)
StakeHeld ==
    \A e \in Exc :
        /\ ~is_exc_frozen(e) => staked[e]["regex"] >= RegStake
        /\ book.fees[e].open /\ ~book.fees[e].frozen => staked[e]["open"] >= RegStake
        /\ book.accts[e]["core"] + drawn[e] >= staked[e]["regex"] + staked[e]["open"]
=============================================================================
