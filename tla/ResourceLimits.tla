--------------------------- MODULE ResourceLimits ---------------------------
(***************************************************************************)
(* resource_limits_manager: what accounts may use of CPU and NET, and how  *)
(* transactions and blocks are charged.  Limits set in a block are pending *)
(* until finalize_block folds them into the totals; usage is an average    *)
(* that decays with the time slots; the block limit shrinks and expands    *)
(* with the average use of the blocks.                                     *)
(*                                                                         *)
(* CPU and NET are treated alike by the code, with the one exception that  *)
(* GmrCharged shows.  RAM usage is not in this module.  Every handler is   *)
(* one transaction or one finalize_block; one that throws changes nothing. *)
(***************************************************************************)
EXTENDS Integers, FiniteSets, FiniteSetsExt

CONSTANTS
    Resource,       \* "cpu", "net" or both
    Account,
    Weights,        \* weights an account may be given; -1 is unlimited
    Gmrs,           \* guaranteed minimum resources: a set of [cpu, net]
    Params,         \* elastic limits: [target, max, multiplier]
    Periods,        \* elastic_limit_parameters::periods
    Contract,       \* contract_rate, {99, 100} in the code, and
    Expand,         \* expand_rate, {1000, 999}: [num, den]
    Precision,      \* config::rate_limiting_precision
    Window,         \* account usage average window, in slots
    MaxBlock,       \* bound on block numbers, which are also the slots
    MaxOps          \* bound on the transactions of a block

VARIABLES
    limits,         \* actual resource_limits_object of each account
    pending,        \* the pending ones: a function on some of the accounts
    usage,          \* resource_usage_object: per account and resource
    rstate,         \* resource_limits_state_object
    rconfig,        \* elastic parameters in force and the ones of the chain configuration
    gmr,            \* gmr_config_object and the one finalize_block will copy
    block,          \* number and slot of the block being built
    ops             \* transactions in it

limits_vars == <<limits, pending, usage, rstate, rconfig, gmr, block, ops>>

Zero == [last |-> 0, value |-> 0]
MaxUse == Max({p.max : p \in Params})

LimitsTypeOK ==
    /\ limits \in [Account -> [Resource -> Weights]]
    /\ DOMAIN pending \subseteq Account
    /\ \A a \in DOMAIN pending : pending[a] \in [Resource -> Weights]
    /\ \A a \in Account, r \in Resource :
          usage[a][r].last \in 0..MaxBlock /\ usage[a][r].value \in Nat
    /\ \A r \in Resource :
          /\ rstate[r].total \in Nat /\ rstate[r].pending \in Nat
          /\ rstate[r].virtual \in Nat
          /\ rstate[r].average.last \in 0..MaxBlock /\ rstate[r].average.value \in Nat
    /\ rconfig \in [now : Params, next : Params]
    /\ gmr \in [now : Gmrs, next : Gmrs]
    /\ block \in 1..MaxBlock /\ ops \in 0..MaxOps

LimitsInit ==
    /\ limits = [a \in Account |-> [r \in Resource |-> -1]]
    /\ pending = [a \in {} |-> {}]
    /\ usage = [a \in Account |-> [r \in Resource |-> Zero]]
    /\ \E p \in Params :
          /\ rconfig = [now |-> p, next |-> p]
          /\ rstate = [r \in Resource |->
                         [total |-> 0, pending |-> 0, virtual |-> p.max, average |-> Zero]]
    /\ \E g \in Gmrs : gmr = [now |-> g, next |-> g]
    /\ block = 1 /\ ops = 0
-----------------------------------------------------------------------------
(* exponential_moving_average_accumulator *)

integer_divide_ceil(n, d) == (n + d - 1) \div d

average(acc) == integer_divide_ceil(acc.value, Precision)

decay(acc, ordinal, window) ==
    IF ordinal = acc.last THEN acc.value
    ELSE IF acc.last + window > ordinal
         THEN (acc.value * (window - (ordinal - acc.last))) \div window
         ELSE 0

add(acc, units, ordinal, window) ==
    [last |-> ordinal,
     value |-> decay(acc, ordinal, window) + integer_divide_ceil(units * Precision, window)]

(* Mutation: a limit may shrink below the block's maximum. *)
MutNoFloor(current, used, p) ==
    LET rate == IF used > p.target THEN Contract ELSE Expand
    IN  Min({(current * rate.num) \div rate.den, p.max * p.multiplier})

update_elastic_limit(current, used, p) ==
    LET rate == IF used > p.target THEN Contract ELSE Expand
    IN  Min({Max({(current * rate.num) \div rate.den, p.max}), p.max * p.multiplier})
-----------------------------------------------------------------------------
(* What an account may use. *)

(* get_account_limits: the pending limits if there are some. *)
get_account_limits(a) == IF a \in DOMAIN pending THEN pending[a] ELSE limits[a]

Limited(a, r) == get_account_limits(a)[r] >= 0 /\ rstate[r].total > 0

Share(a, r, capacity) ==
    (capacity * Window * get_account_limits(a)[r]) \div rstate[r].total

(* get_account_cpu_limit and get_account_net_limit, after the usage was     *)
(* brought to the block's slot by update_account_usage.                     *)
GmrReported == [cpu |-> gmr.now.cpu, net |-> gmr.now.net]
get_account_limit(a, r, elastic) ==
    LET used == integer_divide_ceil(decay(usage[a][r], block, Window) * Window, Precision)
        most == Share(a, r, IF elastic THEN rstate[r].virtual ELSE rconfig.now.max)
                + GmrReported[r]
    IN  IF most <= used THEN 0 ELSE most - used

(* max_bandwidth_billed_accounts_can_pay: -1 stands for the large number.   *)
max_bandwidth(accounts, r, greylist) ==
    LET able == {get_account_limit(a, r, a \notin greylist) :
                    a \in {b \in accounts : Limited(b, r)}}
    IN  IF able = {} THEN -1 ELSE Min(able)

(* transaction_context::init and finalize: the largest use of a resource    *)
(* that the block and the billed accounts leave.                            *)
Billable(accounts, r, greylist) ==
    LET left == rconfig.now.max - rstate[r].pending
        able == max_bandwidth(accounts, r, greylist)
    IN  IF able = -1 THEN left ELSE Min({left, able})

(* Mutation: the limits in force are those of before the block. *)
MutActualLimits(a, r) ==
    (rstate[r].virtual * Window * limits[a][r]) \div rstate[r].total + gmr.now.cpu

(* The account check of add_transaction_usage adds gmr.cpu_us for both      *)
(* resources.                                                               *)
GmrCharged(a, r) == Share(a, r, rstate[r].virtual) + gmr.now.cpu

AccountAllows(a, r, units) ==
    Limited(a, r) =>
        (add(usage[a][r], units, block, Window).value * Window) \div Precision
            <= GmrCharged(a, r)
-----------------------------------------------------------------------------
(* Handlers *)

Step == ops < MaxOps /\ ops' = ops + 1

(* A transaction that uses cpu and net and is billed to the accounts.       *)
BilledTo(accounts, greylist, used) ==
    \A r \in Resource : used[r] <= Billable(accounts, r, greylist)

add_transaction_usage(accounts, used) ==
    /\ \A a \in accounts, r \in Resource : AccountAllows(a, r, used[r])
    /\ \A r \in Resource : rstate[r].pending + used[r] <= rconfig.now.max
    /\ usage' = [a \in Account |->
                   IF a \notin accounts THEN usage[a]
                   ELSE [r \in Resource |-> add(usage[a][r], used[r], block, Window)]]
    /\ rstate' = [r \in Resource |-> [rstate[r] EXCEPT !.pending = @ + used[r]]]

transaction(accounts, greylist, used) ==
    /\ Step
    /\ BilledTo(accounts, greylist, used)
    /\ add_transaction_usage(accounts, used)
    /\ UNCHANGED <<limits, pending, rconfig, gmr, block>>

(* set_account_limits finds or creates the pending object and sets all of   *)
(* it.                                                                      *)
set_account_limits(a, w) ==
    /\ Step
    /\ pending' = [b \in DOMAIN pending \cup {a} |-> IF b = a THEN w ELSE pending[b]]
    /\ UNCHANGED <<limits, usage, rstate, rconfig, gmr, block>>

(* setparams and the contract's set_guaranteed_minimum_res: in force from   *)
(* the end of the block.                                                    *)
set_config(p, g) ==
    /\ Step
    /\ rconfig' = [rconfig EXCEPT !.next = p]
    /\ gmr' = [gmr EXCEPT !.next = g]
    /\ UNCHANGED <<limits, pending, usage, rstate, block>>

Positive(w) == Max({w, 0})

(* Mutation: an account that is unlimited counts with its -1. *)
MutCountUnlimited(r) ==
    FoldSet(LAMBDA a, sum : sum - limits[a][r] + pending[a][r], rstate[r].total, DOMAIN pending)

(* process_account_limit_updates: each pending object replaces the actual   *)
(* one and the totals follow.                                               *)
NewTotal(r) ==
    FoldSet(LAMBDA a, sum : sum - Positive(limits[a][r]) + Positive(pending[a][r]),
            rstate[r].total, DOMAIN pending)

(* finalize_block: the limits, then the parameters, then the usage of the   *)
(* block with the parameters just set, then the guaranteed minimum.         *)
finalize_block ==
    /\ block < MaxBlock
    /\ limits' = [a \in Account |-> get_account_limits(a)]
    /\ pending' = [a \in {} |-> {}]
    /\ rconfig' = [rconfig EXCEPT !.now = rconfig.next]
    /\ rstate' = [r \in Resource |->
                    LET acc == add(rstate[r].average, rstate[r].pending, block, Periods)
                    IN  [total   |-> NewTotal(r),
                         pending |-> 0,
                         virtual |-> update_elastic_limit(rstate[r].virtual, average(acc),
                                                          rconfig.next),
                         average |-> acc]]
    /\ gmr' = [gmr EXCEPT !.now = gmr.next]
    /\ block' = block + 1 /\ ops' = 0
    /\ UNCHANGED usage

LimitsNext ==
    \/ \E accounts \in (SUBSET Account) \ {{}}, greylist \in SUBSET Account,
          used \in [Resource -> 1..MaxUse] :
             transaction(accounts, greylist, used)
    \/ \E a \in Account, w \in [Resource -> Weights] : set_account_limits(a, w)
    \/ \E p \in Params, g \in Gmrs : set_config(p, g)
    \/ finalize_block

LimitsSpec == LimitsInit /\ [][LimitsNext]_limits_vars
-----------------------------------------------------------------------------
(* The totals that shares are taken of are the sums of the positive         *)
(* weights, however limits are set, set again and dropped between blocks.   *)
TotalsExact ==
    \A r \in Resource :
        rstate[r].total = FoldSet(LAMBDA a, sum : sum + Positive(limits[a][r]), 0, Account)

(* add_transaction_usage "Should never fail" (transaction_context.cpp:527): *)
(* what finalize found billable for a set of accounts, rounding and decay   *)
(* included, passes the check of each account.  This is about transactions  *)
(* that use some of the resource: one that uses none is refused when its    *)
(* account's weight was lowered below what the account has used.            *)
NeverFails ==
    \A accounts \in (SUBSET Account) \ {{}}, greylist \in SUBSET Account, r \in Resource :
        LET most == Billable(accounts, r, greylist)
        IN  most > 0 => \A a \in accounts : AccountAllows(a, r, most)

(* The elastic limit stays between the block's maximum and its multiple,    *)
(* and a block never uses more than its maximum, also when the parameters   *)
(* change from one block to the next.                                       *)
ElasticBounds ==
    \A r \in Resource :
        /\ rconfig.now.max <= rstate[r].virtual
        /\ rstate[r].virtual <= rconfig.now.max * rconfig.now.multiplier
        /\ rstate[r].pending <= rconfig.now.max
=============================================================================
