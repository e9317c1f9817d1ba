------------------------------ MODULE Deferred ------------------------------
(***************************************************************************)
(* Generated transactions: how a contract or a delayed input transaction   *)
(* schedules one (apply_context::schedule_deferred_transaction,            *)
(* transaction_context::schedule_transaction), how it is cancelled, and    *)
(* how the node that produces retires it (the scheduled pass of            *)
(* producer_plugin_impl::start_block and                                   *)
(* controller_impl::push_scheduled_transaction).                           *)
(*                                                                         *)
(* A generated transaction takes one unit of RAM of its payer.  Times are  *)
(* block times.  The database is one record, so that an undo session or an *)
(* aborted block puts it back as a whole; the plugin's blacklist and the   *)
(* cursor of its pass are outside of it and are not put back.              *)
(***************************************************************************)
EXTENDS Integers, FiniteSets, FiniteSetsExt

CONSTANTS
    Contract,    \* an account with a contract that sends deferred transactions
    Payer,       \* the accounts RAM is charged to, the contract's included
    SenderId,    \* the ids a contract names its transactions by; 0 stands for those of input ones
    Delays,      \* delay_sec
    Window,      \* deferred_trx_expiration_window
    MaxTrx,      \* bound: transactions generated
    MaxTime      \* bound: block time

VARIABLES
    db,          \* [gto, ram, ram_correction, replace_deferred, next_id, receipts]
    head,        \* the database as of the head block
    now,         \* the pending block's time
    phase,       \* none | scheduled | open: the pending block of this node; applying: a received one
    cursor,      \* where the scheduled pass goes on: [delay_until, id]
    served,      \* the scheduled pass of this block ran to its end
    blacklist,   \* _blacklisted_transactions: [trx_id, expiry]
    made         \* transaction ids given out

deferred_vars == <<db, head, now, phase, cursor, served, blacklist, made>>

NoSender == "none"      \* account_name(): a delayed input transaction

(* Transaction ids given out once the database is d, and the next one. *)
MadeBy(d) == Max({made} \cup {g.trx_id : g \in d.gto})
Fresh(d) == MadeBy(d) + 1

(* The order of the index by_delay. *)
Before(p, q) ==
    p.delay_until < q.delay_until \/ (p.delay_until = q.delay_until /\ p.id < q.id)

Start == [delay_until |-> 0, id |-> 0]

Key(g) == [delay_until |-> g.delay_until, id |-> g.id]

-----------------------------------------------------------------------------
(* What an executing transaction does to the database d. *)

(* Mutation: the RAM stays charged. *)
MutChargeOnly(d, g) == [d EXCEPT !.gto = @ \ {g}]

(* Its RAM goes back to the payer with it: cancel_deferred_transaction,     *)
(* remove_scheduled_transaction.                                            *)
Removed(d, g) ==
    [d EXCEPT !.gto = @ \ {g}, !.ram[g.payer] = @ - 1]

Create(d, trx_id, sender, sender_id, payer, delay) ==
    [d EXCEPT
        !.gto = @ \cup {[id |-> d.next_id, trx_id |-> trx_id, sender |-> sender,
                         sender_id |-> sender_id, payer |-> payer, published |-> now,
                         delay_until |-> now + delay, expiration |-> now + delay + Window]},
        !.next_id = @ + 1,
        !.ram[payer] = @ + 1]

(* The transaction a new one replaces.  Without the protocol feature the RAM *)
(* of the old one is not given back but noted as a correction to make, and   *)
(* the new one keeps the old one's id.                                       *)
Replace(d, old, sender_id, payer, delay) ==
    IF d.replace_deferred
    THEN Create(Removed(d, old), Fresh(d), Contract, sender_id, payer, delay)
    ELSE Create([d EXCEPT !.gto = @ \ {old}, !.ram_correction[old.payer] = @ + 1],
                old.trx_id, Contract, sender_id, payer, delay)

(* A node refuses to build a block in which one is replaced before the      *)
(* feature is active; it applies such a block of another.                   *)
MayReplace(d) == d.replace_deferred \/ phase = "applying"

(* The databases an action of the contract that sends a deferred transaction *)
(* can leave; sending one under an id in use without replace_existing throws. *)
schedule_deferred_transaction(d) ==
    {Create(d, Fresh(d), Contract, s, p, t) :
        s \in {s \in SenderId : \A g \in d.gto : g.sender_id # s}, p \in Payer, t \in Delays}
    \cup {Replace(d, g, g.sender_id, p, t) :
        g \in {g \in d.gto : g.sender = Contract /\ MayReplace(d)}, p \in Payer, t \in Delays}

(* A delayed input transaction: sender_id is derived from its own id, and   *)
(* canceldelay is the only way to reach it.                                 *)
schedule_transaction(d) ==
    {Create(d, Fresh(d), NoSender, 0, p, t) : p \in Payer \ {Contract}, t \in Delays \ {0}}

cancel_deferred_transaction(d) == {Removed(d, g) : g \in d.gto}

(* An action generates or cancels at most one, here. *)
Generates(d) ==
    {d} \cup schedule_deferred_transaction(d) \cup cancel_deferred_transaction(d)

Retired(d, g, status) ==
    [d EXCEPT !.receipts = @ \cup {[trx_id |-> g.trx_id, status |-> status, at |-> now,
                                    published |-> g.published, due |-> g.delay_until,
                                    expiration |-> g.expiration, own |-> phase # "applying"]}]

-----------------------------------------------------------------------------
Due(g) == g.delay_until <= now

Expired(g) == g.expiration < now

(* Expiring, executing, and failing with the sender's onerror handler run.  *)
Retiring(d, g) ==
    IF Expired(g) THEN {Retired(Removed(d, g), g, "expired")}
    ELSE {Retired(e, g, "executed") : e \in Generates(Removed(d, g))}
         \cup {Retired(e, g, "soft_fail") :
                  e \in IF g.sender = NoSender THEN {} ELSE Generates(Removed(d, g))}

(* Mutation: a hard failure leaves the transaction where it was. *)
MutReceiptOnly(d, g) == IF Expired(g) THEN {} ELSE {Retired(d, g, "hard_fail")}

HardFail(d, g) == IF Expired(g) THEN {} ELSE {Retired(Removed(d, g), g, "hard_fail")}

(* controller_impl::push_scheduled_transaction of the one with this trx_id: *)
(* the databases it can leave, each with what start_block makes of the trace *)
(* it returns.  The object is removed first, inside an undo session that a   *)
(* subjective failure lets expire.                                          *)
(*   "applied"   no exception in the trace                                  *)
(*   "failed"    an exception that is no reason to stop: blacklisted        *)
(*   "exhausted" the block is full or the time is up                        *)
(* An id no longer there is an exception the pass logs and drops.           *)
push_scheduled_transaction(d, trx_id) ==
    LET found == {g \in d.gto : g.trx_id = trx_id}
        push(g) ==
            IF ~Due(g) THEN {[db |-> d, as |-> "applied"]}     \* thrown
            ELSE {[db |-> e, as |-> "applied"] : e \in Retiring(d, g)}
                 \cup {[db |-> e, as |-> "failed"] : e \in HardFail(d, g)}
                 \cup (IF Expired(g) THEN {}
                       ELSE {[db |-> d, as |-> a] : a \in {"failed", "exhausted"}})
    IN  IF found = {} THEN {[db |-> d, as |-> "applied"]}
        ELSE UNION {push(g) : g \in found}

-----------------------------------------------------------------------------
(* Blocks. *)

(* The blacklist entries the pass lets go before it starts. *)
Unexpired(b) == {e \in b : e.expiry > now}

(* start_block when it is this node's turn: entries of the blacklist whose  *)
(* time is up are dropped and the scheduled pass begins at the first entry. *)
start_producing(d) ==
    /\ phase' = "scheduled"
    /\ blacklist' = Unexpired(blacklist)
    /\ db' = d
    /\ UNCHANGED <<cursor, served>>

(* start_block when it is not: no scheduled transaction runs. *)
start_speculating(d) ==
    /\ phase' = "open"
    /\ db' = d
    /\ UNCHANGED <<cursor, served, blacklist>>

(* The activation of replace_deferred in a block: the noted corrections are *)
(* taken off the RAM usage, never below zero.                               *)
on_activation(d) ==
    [d EXCEPT !.replace_deferred = TRUE,
              !.ram = [a \in Payer |-> IF d.ram_correction[a] > d.ram[a] THEN 0
                                       ELSE d.ram[a] - d.ram_correction[a]],
              !.ram_correction = [a \in Payer |-> 0]]

(* controller::start_block, after an abort_block of what was pending. *)
start_block ==
    /\ phase = "none"
    /\ \E d \in {head} \cup {on_activation(h) : h \in {h \in {head} : ~h.replace_deferred}} :
          start_producing(d) \/ start_speculating(d)
    /\ UNCHANGED <<head, now, made>>

(* A block arrives or the time passes: the pending block is given up. *)
abort_block ==
    /\ phase # "none"
    /\ phase' = "none"
    /\ db' = head
    /\ now' \in {now, now + 1} \cap 1 .. MaxTime
    /\ cursor' = Start /\ served' = FALSE
    /\ UNCHANGED <<head, blacklist, made>>

(* produce_block, or the end of a received one: the pending block becomes the head. *)
commit_block ==
    /\ phase \in {"open", "applying"}
    /\ now < MaxTime
    /\ phase' = "none"
    /\ head' = db
    /\ now' = now + 1
    /\ served' = FALSE
    /\ UNCHANGED <<db, cursor, blacklist, made>>

-----------------------------------------------------------------------------
(* The scheduled pass. *)

AtOrAfter(d, c) == {g \in d.gto : ~Before(Key(g), c)}

First(S) == CHOOSE g \in S : \A h \in S : g = h \/ Before(Key(g), Key(h))

Blacklisted(g) == \E e \in blacklist : e.trx_id = g.trx_id

(* The pass is over: the rest of the block is open to incoming transactions. *)
PassEnds(full) ==
    /\ phase' = "open"
    /\ served' = full
    /\ cursor' = Start

(* Nothing is left at the cursor, or what is left is not scheduled yet. *)
pass_done ==
    /\ phase = "scheduled"
    /\ \A g \in AtOrAfter(db, cursor) : ~Due(g)
    /\ PassEnds(TRUE)
    /\ UNCHANGED <<db, head, now, blacklist, made>>

(* Mutation: one scheduled in this very block is pushed. *)
MutSkipNone(g) == Blacklisted(g)

(* Scheduled in this very block, or blacklisted: the iterator moves on. *)
Skipped(g) == g.published >= now \/ Blacklisted(g)

Following(g) == AtOrAfter(db, Key(g)) \ {g}

pass_skip ==
    /\ phase = "scheduled"
    /\ AtOrAfter(db, cursor) # {}
    /\ LET g == First(AtOrAfter(db, cursor)) IN
       /\ Due(g) /\ Skipped(g)
       /\ IF Following(g) = {} THEN PassEnds(TRUE)
          ELSE /\ cursor' = Key(First(Following(g)))
               /\ UNCHANGED <<phase, served>>
    /\ UNCHANGED <<db, head, now, blacklist, made>>

(* The deadline of the pass is reached. *)
pass_deadline ==
    /\ phase = "scheduled"
    /\ \E g \in AtOrAfter(db, cursor) : Due(g)
    /\ PassEnds(FALSE)
    /\ UNCHANGED <<db, head, now, blacklist, made>>

(* Mutation: the pass ends when the entry after g is gone. *)
MutStopIfGone(g, d) ==
    IF Following(g) = {} \/ First(Following(g)) \notin d.gto THEN PassEnds(TRUE)
    ELSE /\ cursor' = Key(First(Following(g)))
         /\ UNCHANGED <<phase, served>>

(* Where the pass goes on: the key of the next entry is read before g is    *)
(* pushed, and the entry may be gone afterwards.                            *)
Advance(g, d) ==
    IF Following(g) = {} THEN PassEnds(TRUE)
    ELSE /\ cursor' = Key(First(Following(g)))
         /\ UNCHANGED <<phase, served>>

(* The one at the cursor is pushed, after the incoming transaction that the *)
(* configured ratio may let go first (d is what that one leaves).           *)
pass_push ==
    /\ phase = "scheduled"
    /\ AtOrAfter(db, cursor) # {}
    /\ LET g == First(AtOrAfter(db, cursor)) IN
       /\ Due(g) /\ ~Skipped(g)
       /\ \E d \in Generates(db) :
          /\ \E r \in push_scheduled_transaction(d, g.trx_id) :
             /\ db' = r.db
             /\ made' = MadeBy(r.db)
             /\ made' <= MaxTrx
             /\ blacklist' = IF r.as = "failed"
                             THEN blacklist \cup {[trx_id |-> g.trx_id, expiry |-> now + Window]}
                             ELSE blacklist
             /\ IF r.as = "exhausted" THEN PassEnds(FALSE) ELSE Advance(g, r.db)
    /\ UNCHANGED <<head, now>>

(* An input transaction in the open block. *)
push_transaction ==
    /\ phase = "open"
    /\ db' \in (Generates(db) \cup schedule_transaction(db)) \ {db}
    /\ made' = MadeBy(db')
    /\ made' <= MaxTrx
    /\ UNCHANGED <<head, now, phase, cursor, served, blacklist>>

-----------------------------------------------------------------------------
(* A block of another producer: its transactions, and the receipts by which *)
(* it retires scheduled ones.  A subjective failure makes the block fail.   *)

apply_block ==
    /\ phase = "none"
    /\ phase' = "applying"
    /\ UNCHANGED <<db, head, now, cursor, served, blacklist, made>>

apply_receipt ==
    /\ phase = "applying"
    /\ \E g \in db.gto : Due(g) /\ db' \in Retiring(db, g) \cup HardFail(db, g)
    /\ made' = MadeBy(db')
    /\ made' <= MaxTrx
    /\ UNCHANGED <<head, now, phase, cursor, served, blacklist>>

-----------------------------------------------------------------------------
DeferredInit ==
    /\ db = [gto |-> {}, ram |-> [a \in Payer |-> 0], ram_correction |-> [a \in Payer |-> 0],
             replace_deferred |-> FALSE, next_id |-> 1, receipts |-> {}]
    /\ head = db
    /\ now = 1
    /\ phase = "none"
    /\ cursor = Start
    /\ served = FALSE
    /\ blacklist = {}
    /\ made = 0

DeferredNext ==
    \/ start_block \/ abort_block \/ commit_block
    \/ pass_done \/ pass_skip \/ pass_deadline \/ pass_push
    \/ push_transaction \/ apply_block \/ apply_receipt

DeferredSpec == DeferredInit /\ [][DeferredNext]_deferred_vars

-----------------------------------------------------------------------------
(* The objects of the database and the plugin's state have their types. *)
DeferredTypeOK ==
    /\ \A g \in db.gto :
          /\ g.id < db.next_id /\ g.trx_id \in 1 .. made
          /\ g.payer \in Payer /\ g.sender \in {Contract, NoSender}
          /\ g.published <= g.delay_until /\ g.delay_until < g.expiration
    /\ db.ram \in [Payer -> Int] /\ db.ram_correction \in [Payer -> Nat]
    /\ phase \in {"none", "scheduled", "open", "applying"}
    /\ served \in BOOLEAN /\ now \in 1 .. MaxTime /\ made \in 0 .. MaxTrx

(* A payer is charged for what is scheduled at its expense, and, until the   *)
(* activation of replace_deferred, for the corrections noted, whatever was   *)
(* cancelled, replaced, retired or undone on the way                         *)
(* (remove_scheduled_transaction, add_to_ram_correction, on_activation).     *)
DeferredRamExact ==
    \A a \in Payer :
        /\ db.ram[a] = Cardinality({g \in db.gto : g.payer = a}) + db.ram_correction[a]
        /\ db.replace_deferred => db.ram_correction[a] = 0

(* A generated transaction is retired by one receipt of the chain, and is    *)
(* then no longer scheduled: the removal and the receipt share an undo       *)
(* session (push_scheduled_transaction), so neither stays without the other. *)
RetiredOnce ==
    \A r \in db.receipts :
        /\ \A q \in db.receipts : q.trx_id = r.trx_id => q = r
        /\ \A g \in db.gto : g.trx_id # r.trx_id

(* This node executes none in the block that scheduled it ("do not allow     *)
(* schedule and execute in same block"), although the pass looks up, by an   *)
(* id it copied, what an incoming transaction may have replaced since; none  *)
(* executes before its time or after its expiration.                         *)
RetiredInTime ==
    \A r \in db.receipts :
        /\ r.own => r.published < r.at
        /\ r.due <= r.at
        /\ r.status = "expired" <=> r.expiration < r.at

(* A pass that ran to its end left nothing behind that was due: the key of   *)
(* the next entry is saved before each push, so what a pushed transaction    *)
(* cancels or adds makes the pass neither skip nor stop early.  What stays   *)
(* is on the blacklist, or newer than the block's start.                     *)
PassServesAll ==
    (phase = "open" /\ served) =>
        \A g \in db.gto : Due(g) => g.published >= now \/ Blacklisted(g)
=============================================================================
