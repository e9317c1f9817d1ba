-------------------------- MODULE TransactionLimits -------------------------
(***************************************************************************)
(* The CPU and NET limits of one transaction (transaction_context::init,   *)
(* checktime, pause_billing_timer, finalize): the deadline is the lowest   *)
(* of what the block, the configuration, the transaction's header, the     *)
(* accounts that pay and the caller allow, and the exception says which    *)
(* one was passed.  The producer measures the time and uses lower limits   *)
(* for greylisted accounts; the nodes that validate the block take the     *)
(* time from the receipt.  One billed account; time is in ticks.           *)
(***************************************************************************)
EXTENDS Integers, FiniteSetsExt

CONSTANTS
    BlockCpu, BlockNet,       \* what is left in the block: sets
    MaxTrxCpu, MaxTrxNet,     \* max_transaction_cpu_usage, max_transaction_net_usage
    MinTrxCpu,                \* min_transaction_cpu_usage
    HeaderCpu, HeaderNet,     \* max_cpu_usage_ms and max_net_usage_words: sets, 0 is none
    AccountCpu, AccountNet,   \* what the account may use: sets, -1 is all
    GreyCpu, GreyNet,         \* the same when it is greylisted
    Deadlines,                \* time the caller allows: a set
    FeeLimits,                \* limits [cpu, net] of the actions that have a fee set: a set
    MaxFees,                  \* bound: actions of the transaction with such a limit
    Leeway, NetLeeway,
    Word,                     \* bytes of a word of NET
    Polled,                   \* the deadline timer is too inaccurate
    MaxTime, MaxNet           \* bounds on ticks and bytes

VARIABLES
    limits, \* the limits that hold for this transaction
    ctx,    \* the transaction_context
    now,
    ran     \* ticks that passed while the billing timer ran

tvars == <<limits, ctx, now, ran>>

Start == 1     \* of the transaction; 0 stands for a paused timer
Unlimited == MaxTime + MaxNet + 100

Limits ==
    {l \in [bcpu : BlockCpu, bnet : BlockNet, hcpu : HeaderCpu, hnet : HeaderNet,
            cpu : AccountCpu, net : AccountNet, gcpu : GreyCpu, gnet : GreyNet,
            grey : BOOLEAN, deadline : Deadlines] :
        \* get_account_limit without elasticity is never more than with it
        /\ IF l.cpu = -1 THEN l.gcpu = -1 ELSE l.gcpu \in 0 .. l.cpu
        /\ IF l.net = -1 THEN l.gnet = -1 ELSE l.gnet \in 0 .. l.net}

\* max_bandwidth_billed_accounts_can_pay; a validating node knows no greylist
CanPay(l, producing) ==
    LET grey == producing /\ l.grey
        c == IF grey THEN l.gcpu ELSE l.cpu
        n == IF grey THEN l.gnet ELSE l.net
    IN [cpu |-> IF c >= 0 THEN c ELSE Unlimited, net |-> IF n >= 0 THEN n ELSE Unlimited,
        greycpu |-> grey /\ c >= 0, greynet |-> grey /\ n >= 0]

Lowest(S) == Min(S)

\* the limits of init that do not depend on the accounts
Objective(l) ==
    LET header == IF l.hcpu > 0 THEN {l.hcpu} ELSE {}
        hnet == IF l.hnet > 0 THEN {l.hnet} ELSE {}
        cpu == Lowest({MaxTrxCpu, l.bcpu} \cup header)
        net == Lowest({MaxTrxNet, l.bnet} \cup hnet)
    IN [cpu |-> cpu, net |-> net,
        \* <=: another limit that is as low takes the blame from the block
        code |-> IF cpu \in header \cup {MaxTrxCpu} THEN "tx_cpu_usage_exceeded"
                 ELSE "block_cpu_usage_exceeded",
        due_to_block |-> net \notin hnet \cup {MaxTrxNet}]

\* transaction_context::init on a node that produces
init(l) ==
    LET o == Objective(l)
        pay == CanPay(l, TRUE)
        eager == Lowest({o.net, pay.net + NetLeeway})
        leeway == pay.cpu + Leeway <= o.cpu
        duration == IF leeway THEN pay.cpu + Leeway ELSE o.cpu
        billing == IF leeway THEN "leeway_deadline_exception" ELSE o.code
        caller == Start + l.deadline < Start + duration
    IN [stage |-> "running", objective |-> o.cpu, net_limit |-> o.net,
        eager |-> (eager \div Word) * Word,
        due_to_block |-> o.due_to_block /\ eager = o.net,
        greycpu |-> pay.greycpu, greynet |-> pay.greynet,
        duration |-> duration, billing |-> billing,
        deadline |-> IF caller THEN Start + l.deadline ELSE Start + duration,
        code |-> IF caller THEN "deadline_exception" ELSE billing,
        pseudo_start |-> Start, billed_time |-> 0,
        contract |-> [used |-> 0, cpu |-> 0, net |-> 0],
        expired |-> Polled, net |-> 0, used |-> 0, billed |-> 0]

LimitsInit ==
    /\ limits \in Limits
    /\ ctx = init(limits)
    /\ now = Start /\ ran = 0

Running == ctx.stage = "running"
Paused == ctx.pseudo_start = 0

\* time passes; the timer's signal comes at the deadline
tick ==
    /\ Running /\ now < MaxTime
    /\ now' = now + 1
    /\ ran' = IF Paused THEN ran ELSE ran + 1
    /\ ctx' = [ctx EXCEPT !.expired = @ \/ (~Paused /\ now' >= ctx.deadline)]
    /\ UNCHANGED limits

Stopped(why) ==
    /\ ctx' = [ctx EXCEPT !.stage = why]
    /\ UNCHANGED <<limits, now, ran>>

MutBlameTrx(code, grey) == code

Blame(code, grey) ==
    IF code = "tx_cpu_usage_exceeded" /\ grey THEN "greylist_cpu_usage_exceeded" ELSE code

checktime ==
    /\ Running /\ ctx.expired /\ now > ctx.deadline
    /\ Stopped(Blame(ctx.code, ctx.greycpu))

MutKeepRunning(t) == [t EXCEPT !.pseudo_start = 0, !.billed_time = @]

\* the timer stops; no other exception can be thrown meanwhile
PausedAt(t) ==
    [t EXCEPT !.billed_time = now - t.pseudo_start, !.pseudo_start = 0, !.code = "deadline_exception"]

pause_billing_timer ==
    /\ Running /\ ~Paused
    /\ ctx' = PausedAt(ctx)
    /\ UNCHANGED <<limits, now, ran>>

resume_billing_timer ==
    LET pseudo == now - ctx.billed_time
        billing == pseudo + ctx.duration <= Start + limits.deadline
        deadline == IF billing THEN pseudo + ctx.duration ELSE Start + limits.deadline
    IN /\ Running /\ Paused
       /\ ctx' = [ctx EXCEPT !.pseudo_start = pseudo, !.deadline = deadline,
                             !.code = IF billing THEN ctx.billing ELSE "deadline_exception",
                             !.expired = Polled \/ deadline <= now]
       /\ UNCHANGED <<limits, now, ran>>

NetBlame ==
    CASE ctx.due_to_block -> "block_net_usage_exceeded"
      [] ~ctx.due_to_block /\ ctx.greynet -> "greylist_net_usage_exceeded"
      [] OTHER -> "tx_net_usage_exceeded"

\* add_net_usage with check_net_usage
add_net_usage(n) ==
    /\ Running /\ ctx.net + n <= MaxNet
    /\ ctx' = [ctx EXCEPT !.net = @ + n, !.stage = IF ctx.net + n > ctx.eager THEN NetBlame ELSE @]
    /\ UNCHANGED <<limits, now, ran>>

\* add_limit_by_fee when an action with a fee of its own, inline ones included,
\* is scheduled; used counts them, use_limit_by_contract is used > 0
add_limit_by_fee(f) ==
    /\ Running /\ ctx.contract.used < MaxFees
    /\ ctx' = [ctx EXCEPT !.contract = [used |-> @.used + 1, cpu |-> @.cpu + f.cpu, net |-> @.net + f.net]]
    /\ UNCHANGED <<limits, now, ran>>

\* the limits that finalize checks after those of block and accounts
ByContract ==
    IF ctx.contract.used > 0 THEN [cpu |-> ctx.contract.cpu, net |-> ctx.contract.net]
    ELSE [cpu |-> Unlimited, net |-> Unlimited]

RoundUp(n) == ((n + Word - 1) \div Word) * Word

MutNoMinimum(t) == now - t.pseudo_start

\* update_billed_cpu_time
Billed(t) == Max({now - t.pseudo_start, MinTrxCpu})

MutRoundsLate(net) == net

\* the usage that finalize bills
Rounded(net) == RoundUp(net)

\* finalize: limits of the accounts again, then NET, then CPU, then those of the
\* contracts' fees
finalize ==
    LET pay == CanPay(limits, TRUE)
        net_limit == Lowest({ctx.net_limit, pay.net})
        objective == Lowest({ctx.objective, pay.cpu})
        net == Rounded(ctx.net)
        billed == Billed(ctx)
        blockcpu == ctx.billing = "block_cpu_usage_exceeded" /\ pay.cpu > ctx.objective
    IN /\ Running /\ ~Paused
       /\ ctx' = [ctx EXCEPT
             !.used = net, !.billed = billed, !.net_limit = net_limit, !.objective = objective,
             !.stage = CASE net > net_limit ->
                              IF ctx.due_to_block /\ pay.net > ctx.net_limit THEN "block_net_usage_exceeded"
                              ELSE IF ctx.greynet THEN "greylist_net_usage_exceeded"
                              ELSE "tx_net_usage_exceeded"
                         [] net <= net_limit /\ billed > objective ->
                              IF blockcpu THEN "block_cpu_usage_exceeded"
                              ELSE Blame("tx_cpu_usage_exceeded", ctx.greycpu)
                         [] net <= net_limit /\ billed <= objective /\ billed > ByContract.cpu ->
                              "tx_cpu_usage_exceeded"
                         [] /\ net <= net_limit /\ billed <= objective /\ billed <= ByContract.cpu
                            /\ net > ByContract.net -> "tx_net_usage_exceeded"
                         [] OTHER -> "executed"]
       /\ UNCHANGED <<limits, now, ran>>

LimitsNext ==
    \/ tick
    \/ checktime
    \/ pause_billing_timer
    \/ resume_billing_timer
    \/ \E n \in 1 .. MaxNet : add_net_usage(n)
    \/ \E f \in FeeLimits : add_limit_by_fee(f)
    \/ finalize

LimitsSpec == LimitsInit /\ [][LimitsNext]_tvars
-----------------------------------------------------------------------------
Subjective ==
    {"block_cpu_usage_exceeded", "block_net_usage_exceeded", "deadline_exception",
     "leeway_deadline_exception", "greylist_cpu_usage_exceeded", "greylist_net_usage_exceeded"}

\* the same transaction on a node that validates: the time is given, there is
\* no deadline and no greylist; its actions, and so their fees, are the same
ValidatorAccepts(net, billed) ==
    LET o == Objective(limits)
        pay == CanPay(limits, FALSE)
        eager == Lowest({o.net, pay.net + NetLeeway})
    IN /\ billed <= o.cpu
       /\ net <= (eager \div Word) * Word
       /\ RoundUp(net) <= Lowest({o.net, pay.net})
       /\ billed <= Lowest({o.cpu, pay.cpu}) /\ billed >= MinTrxCpu
       /\ billed <= ByContract.cpu /\ RoundUp(net) <= ByContract.net

(* The state holds values of its types. *)
LimitsTypeOK ==
    /\ ctx.stage \in {"running", "executed", "tx_cpu_usage_exceeded", "tx_net_usage_exceeded"} \cup Subjective
    /\ ctx.objective \in Nat /\ ctx.net_limit \in Nat /\ ctx.billed_time \in Nat

(* A transaction that the producer executed within its limits, and billed  *)
(* as it measured, passes every limit of the nodes that validate the       *)
(* block, whether or not an account was greylisted and the timer paused.   *)
ProducedIsValid == ctx.stage = "executed" => ValidatorAccepts(ctx.net, ctx.billed)

(* A transaction is billed for the time that passed while the timer ran,   *)
(* however often it was paused, and never less than the minimum.           *)
BilledIsRun == ctx.stage = "executed" => ctx.billed = Max({ran, MinTrxCpu})

(* A failure is put down to the transaction, not to this node, only if it  *)
(* used more than a node without greylist or leeway would have allowed:    *)
(* more than the block, the accounts or the fees of its actions allow.     *)
BlameIsObjective ==
    LET o == Objective(limits)
        pay == CanPay(limits, FALSE)
    IN /\ ctx.stage = "tx_cpu_usage_exceeded" => Max({ran, MinTrxCpu}) > Lowest({o.cpu, pay.cpu, ByContract.cpu})
       /\ ctx.stage = "tx_net_usage_exceeded" => RoundUp(ctx.net) > Lowest({o.net, pay.net, ByContract.net})
=============================================================================
