----------------------------- MODULE SysBridge -----------------------------
(***************************************************************************)
(* sys.bridge: makers keep reserves of two coins in the contract and       *)
(* accounts exchange one coin for the other at a fixed ratio.  The coins   *)
(* arrive by `trade` of a token contract, which transfers them to the      *)
(* bridge and then calls addmortgage or exchange inline; they leave by     *)
(* send_transfer_action.  A transaction whose inline action throws         *)
(* changes nothing, so an action here has the guards of the whole chain.   *)
(*                                                                         *)
(* Base and market coin of a pair are treated alike by every operation:    *)
(* a pair is kept by coin.  The bancor type, which addmarket refuses, and  *)
(* symbols, chains and memos are left out.                                 *)
(***************************************************************************)
EXTENDS Integers, FiniteSets, FiniteSetsExt

CONSTANTS
    Coin,       \* the two coins
    Market,     \* names of markets, each by a maker of its own
    Ratios,     \* weights: a set of functions from Coin
    Fees,       \* fee rules: [kind, fixed, ratio]
    Card,       \* PROPORTION_CARD
    Word,       \* 2^64
    Money,      \* bound on the bridge's coins of a kind, and on a reserve
    MaxFees     \* bound on a pair's uncollected fees and on its overdraft

VARIABLES
    pairs,      \* tradepairs: [open, active, amount, fees, weight, rule]
    custody,    \* the bridge's balance in the token contracts
    transcon,   \* coins whose token contract settranscon has named
    dipped      \* history: some reserve has been below zero

bridge_vars == <<pairs, custody, transcon, dipped>>

Zero == [c \in Coin |-> 0]
NoFee == [kind |-> "fixed", fixed |-> Zero, ratio |-> Zero]
NoPair == [open |-> FALSE, active |-> FALSE, amount |-> Zero, fees |-> Zero,
           weight |-> Zero, rule |-> NoFee]
Other(c) == CHOOSE d \in Coin : d # c
Total(f(_)) == FoldSet(LAMBDA m, sum : sum + f(m), 0, Market)

BridgeTypeOK ==
    /\ \A m \in Market :
          /\ pairs[m].open \in BOOLEAN /\ pairs[m].active \in BOOLEAN
          /\ pairs[m].amount \in [Coin -> Int] /\ pairs[m].fees \in [Coin -> Nat]
          /\ pairs[m].weight \in Ratios \cup {Zero}
    /\ custody \in [Coin -> 0..Money]
    /\ transcon \subseteq Coin
    /\ dipped \in BOOLEAN

BridgeInit ==
    /\ pairs = [m \in Market |-> NoPair]
    /\ custody = Zero
    /\ transcon = {}
    /\ dipped = FALSE
-----------------------------------------------------------------------------
(* send_transfer_action: of a coin with a contract, and, as the token       *)
(* contract demands, of a positive amount that the bridge has.              *)
Sendable(c, q) == c \in transcon /\ q > 0 /\ q <= custody[c]

settranscon(c) ==
    /\ transcon' = transcon \cup {c}
    /\ UNCHANGED <<pairs, custody, dipped>>

addmarket(m, w) ==
    /\ ~pairs[m].open
    /\ pairs' = [pairs EXCEPT ![m] = [NoPair EXCEPT !.open = TRUE, !.active = TRUE, !.weight = w]]
    /\ UNCHANGED <<custody, transcon, dipped>>

(* token trade bridge_addmortgage: transfer, then addmortgage *)
addmortgage(m, c, q) ==
    /\ custody[c] + q <= Money /\ pairs[m].amount[c] + q <= Money
    /\ pairs[m].open
    /\ custody' = [custody EXCEPT ![c] = @ + q]
    /\ pairs' = [pairs EXCEPT ![m].amount[c] = @ + q]
    /\ UNCHANGED <<transcon, dipped>>

claimmortgage(m, c, q) ==
    /\ pairs[m].open /\ q <= pairs[m].amount[c]
    /\ Sendable(c, q)
    /\ custody' = [custody EXCEPT ![c] = @ - q]
    /\ pairs' = [pairs EXCEPT ![m].amount[c] = @ - q]
    /\ UNCHANGED <<transcon, dipped>>

frozenmarket(m) ==
    /\ pairs[m].open /\ pairs[m].active
    /\ pairs' = [pairs EXCEPT ![m].active = FALSE]
    /\ UNCHANGED <<custody, transcon, dipped>>

trawmarket(m) ==
    /\ pairs[m].open /\ ~pairs[m].active
    /\ pairs' = [pairs EXCEPT ![m].active = TRUE]
    /\ UNCHANGED <<custody, transcon, dipped>>

(* setfixedfee, setprofee, setprominfee: each keeps what only another rule  *)
(* uses.                                                                    *)
setfee(m, rule) ==
    /\ pairs[m].open /\ ~pairs[m].active
    /\ LET old == pairs[m].rule
       IN  pairs' = [pairs EXCEPT ![m].rule =
              [kind |-> rule.kind,
               fixed |-> IF rule.kind = "proportion" THEN old.fixed ELSE rule.fixed,
               ratio |-> IF rule.kind = "fixed" THEN old.ratio ELSE rule.ratio]]
    /\ UNCHANGED <<custody, transcon, dipped>>

setweight(m, w) ==
    /\ pairs[m].open /\ ~pairs[m].active
    /\ pairs' = [pairs EXCEPT ![m].weight = w]
    /\ UNCHANGED <<custody, transcon, dipped>>

(* The fee is taken in the coin that is received. *)
FeeOf(rule, d, recv) ==
    LET share == (recv * rule.ratio[d]) \div Card
    IN  CASE rule.kind = "fixed" -> rule.fixed[d]
          [] rule.kind = "proportion" -> share
          [] rule.kind = "proportion_mincost" ->
                IF share > rule.fixed[d] THEN share ELSE rule.fixed[d]

(* Mutation: the fee is noted and stays in the reserve. *)
MutFeeKept(p, c, q, recv, fee) ==
    [p EXCEPT !.amount[c] = @ + q, !.amount[Other(c)] = @ - recv, !.fees[Other(c)] = @ + fee]

(* The pair after an exchange of q of coin c for recv of the other and a fee. *)
Exchanged(p, c, q, recv, fee) ==
    [p EXCEPT !.amount[c] = @ + q, !.amount[Other(c)] = @ - recv - fee, !.fees[Other(c)] = @ + fee]

(* token trade bridge_exchange: transfer, then exchange.  recv_amount is    *)
(* unsigned, and so is its comparison with the reserve.                     *)
exchange(m, c, q) ==
    LET p == pairs[m]
        d == Other(c)
        gross == (q * p.weight[d]) \div p.weight[c]
        fee == FeeOf(p.rule, d, gross)
        recv == gross - fee
    IN  /\ custody[c] + q <= Money /\ p.amount[c] + q <= Money
        /\ p.open /\ p.active
        /\ recv % Word < p.amount[d] % Word
        /\ Sendable(d, recv)
        /\ p.fees[d] + fee <= MaxFees /\ p.amount[d] - gross >= -MaxFees
        /\ pairs' = [pairs EXCEPT ![m] = Exchanged(p, c, q, recv, fee)]
        /\ custody' = [custody EXCEPT ![c] = @ + q, ![d] = @ - recv]
        /\ dipped' = (dipped \/ pairs'[m].amount[d] < 0)
        /\ UNCHANGED transcon

(* removemarket sends what is above zero and drops the pair. *)
removemarket(m) ==
    LET p == pairs[m]
        Out(c) == {x \in {<<"amount", p.amount[c]>>, <<"fees", p.fees[c]>>} : x[2] > 0}
        sum(c) == FoldSet(LAMBDA x, s : s + x[2], 0, Out(c))
    IN  /\ p.open
        /\ \A c \in Coin : Out(c) # {} => Sendable(c, sum(c))
        /\ custody' = [c \in Coin |-> custody[c] - sum(c)]
        /\ pairs' = [pairs EXCEPT ![m] = NoPair]
        /\ UNCHANGED <<transcon, dipped>>

claimfee(m, c) ==
    /\ pairs[m].open
    /\ Sendable(c, pairs[m].fees[c])
    /\ custody' = [custody EXCEPT ![c] = @ - pairs[m].fees[c]]
    /\ pairs' = [pairs EXCEPT ![m].fees[c] = 0]
    /\ UNCHANGED <<transcon, dipped>>

BridgeNext ==
    \/ \E c \in Coin : settranscon(c)
    \/ \E m \in Market :
          \/ frozenmarket(m) \/ trawmarket(m) \/ removemarket(m)
          \/ \E w \in Ratios : addmarket(m, w) \/ setweight(m, w)
          \/ \E rule \in Fees : setfee(m, rule)
          \/ \E c \in Coin : claimfee(m, c)
          \/ \E c \in Coin, q \in 1..Money :
                addmortgage(m, c, q) \/ claimmortgage(m, c, q) \/ exchange(m, c, q)

BridgeSpec == BridgeInit /\ [][BridgeNext]_bridge_vars
-----------------------------------------------------------------------------
(* Until a reserve has been overdrawn, the bridge holds of each coin        *)
(* exactly the reserves and the uncollected fees of all markets, whatever   *)
(* the makers deposit, exchange, claim, freeze and remove: so every maker   *)
(* can always take out what the table says.                                 *)
BooksExact ==
    ~dipped => \A c \in Coin :
                  custody[c] = Total(LAMBDA m : pairs[m].amount[c] + pairs[m].fees[c])
=============================================================================
