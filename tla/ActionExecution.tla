-------------------------- MODULE ActionExecution ---------------------------
(***************************************************************************)
(* How a transaction runs its actions (transaction_context::exec,          *)
(* apply_context::exec): the action itself, then the accounts its code     *)
(* notified, then the inline actions all of them sent, one inside another, *)
(* with a receipt and sequence numbers for each, and at last the action    *)
(* that pays the fee where the chain is built with fees.                   *)
(*                                                                         *)
(* The code of a contract is any sequence of calls.  Deadlines, limits and *)
(* white lists are "may throw".                                            *)
(***************************************************************************)
EXTENDS Integers, Sequences, FiniteSets, SequencesExt, FiniteSetsExt, Functions, TLC

CONSTANTS
    Account,
    Actions,     \* inline actions: [account, auth]; auth is a sequence of actors
    FreeActions, \* context free actions, without auth
    Transactions, \* [free, acts]: sequences of actions
    Privileged,  \* privileged accounts
    Allowed,     \* <<receiver, actor>>: the actor's permission names receiver@code
    Fee,         \* account -> fee of its actions
    FeeModel,    \* RESOURCE_MODEL is RESOURCE_MODEL_FEE
    Token,       \* the account of the fee action, whose other actions are left out
    max_inline_action_depth,
    MaxTraces,   \* bound on the action traces of a transaction
    MaxTrx       \* bound on the transactions

VARIABLES
    seqs,     \* global_action_sequence, and recv_sequence and auth_sequence of accounts
    undo,     \* seqs before the transaction
    trx,      \* the transaction: its stage, next action, fee_payer, fee_costed and what
              \* the fee action pays
    traces,   \* action_traces; the index is the ordinal
    contexts, \* apply_contexts, the innermost last
    executed, \* receipts of the transaction
    block     \* receipts of the transactions before

avars == <<seqs, undo, trx, traces, contexts, executed, block>>

NoTrx == [stage |-> "none", next |-> 0, last |-> 0, payer |-> "", fee |-> 0, paid |-> 0,
          count |-> 0]

Here == Last(contexts)
Running == contexts # <<>> /\ Here.phase = "code"
At == Here.ordinal
Act(o) == traces[o].act

MutAncestorIsCreator(act, receiver, free, creator, ancestor) ==
    Append(traces, [act |-> act, receiver |-> receiver, free |-> free,
                    creator |-> creator, ancestor |-> creator])

\* transaction_context::schedule_action; the new ordinal is the length
schedule_action(act, receiver, free, creator, ancestor) ==
    Append(traces, [act |-> act, receiver |-> receiver, free |-> free,
                    creator |-> creator, ancestor |-> ancestor])

\* process_fee_cost
Cost(act) == IF trx.payer # "" /\ act.account # Token THEN Fee[act.account] ELSE 0
-----------------------------------------------------------------------------
\* push_transaction up to the loop of exec: context free actions come first
push_transaction(t) ==
    LET all == t.free \o t.acts
        payer == IF FeeModel THEN t.acts[1].auth[1] ELSE ""
        charged == {i \in DOMAIN all : FeeModel /\ all[i].account # Token}
    IN /\ trx.stage = "none" /\ trx.count < MaxTrx
       /\ trx' = [stage |-> "exec", next |-> 1, last |-> Len(all), payer |-> payer,
                  fee |-> MapThenSumSet(LAMBDA i : Fee[all[i].account], charged), paid |-> 0,
                  count |-> trx.count + 1]
       /\ traces' = [i \in DOMAIN all |-> [act |-> all[i], receiver |-> all[i].account,
                                           free |-> i <= Len(t.free), creator |-> 0, ancestor |-> 0]]
       /\ undo' = seqs /\ executed' = <<>> /\ contexts' = <<>>
       /\ UNCHANGED <<seqs, block>>

\* a new apply_context, at the start of exec
Context(o, depth) ==
    [first |-> o, ordinal |-> o, notified |-> <<o>>, at |-> 1, depth |-> depth,
     free |-> <<>>, inline |-> <<>>, phase |-> "code"]

\* the loop of transaction_context::exec
execute_action ==
    /\ trx.stage = "exec" /\ contexts = <<>> /\ trx.next <= trx.last
    /\ contexts' = <<Context(trx.next, 0)>>
    /\ trx' = [trx EXCEPT !.next = @ + 1]
    /\ UNCHANGED <<seqs, undo, traces, executed, block>>

\* Mutation: the fee of the inline actions is left out.
MutFeeOfOriginal ==
    /\ trx.stage = "exec" /\ contexts = <<>> /\ trx.next > trx.last
    /\ IF trx.payer = "" THEN UNCHANGED <<traces, contexts>>
       ELSE LET ts == schedule_action([account |-> Token, auth |-> <<trx.payer>>], trx.payer, FALSE, 0, 0)
            IN traces' = ts /\ contexts' = <<Context(Len(ts), 0)>>
    /\ trx' = [trx EXCEPT !.stage = "fee",
                          !.paid = MapThenSumSet(LAMBDA i : Cost(Act(i)), 1 .. trx.last)]
    /\ UNCHANGED <<seqs, undo, executed, block>>

\* schedule_fee_action: fee_costed is packed before the action runs; its receiver
\* is the payer
schedule_fee_action ==
    /\ trx.stage = "exec" /\ contexts = <<>> /\ trx.next > trx.last
    /\ IF trx.payer = "" THEN UNCHANGED <<traces, contexts>>
       ELSE LET ts == schedule_action([account |-> Token, auth |-> <<trx.payer>>], trx.payer, FALSE, 0, 0)
            IN traces' = ts /\ contexts' = <<Context(Len(ts), 0)>>
    /\ trx' = [trx EXCEPT !.stage = "fee", !.paid = trx.fee]
    /\ UNCHANGED <<seqs, undo, executed, block>>
-----------------------------------------------------------------------------
(* What the running code may call. *)

Calls == Running /\ Len(traces) < MaxTraces

has_recipient(r) == \E o \in Range(Here.notified) : traces[o].receiver = r

\* require_recipient, which context free code cannot call
require_recipient(r) ==
    /\ Calls /\ ~traces[At].free
    /\ ~has_recipient(r)
    /\ traces' = schedule_action(Act(At), r, FALSE, At, Here.first)
    /\ contexts' = [contexts EXCEPT ![Len(contexts)].notified = Append(@, Len(traces) + 1)]
    /\ UNCHANGED <<seqs, undo, trx, executed, block>>

\* check_authorization of an inline action, with the receiver's code as authority
Authorized(a) ==
    LET r == traces[At].receiver IN
    r \in Privileged \/ \A actor \in Range(a.auth) : <<r, actor>> \in Allowed

execute_inline(a) ==
    /\ Calls /\ ~traces[At].free
    /\ Authorized(a)
    /\ traces' = schedule_action(a, a.account, FALSE, At, Here.first)
    /\ contexts' = [contexts EXCEPT ![Len(contexts)].inline = Append(@, Len(traces) + 1)]
    /\ trx' = [trx EXCEPT !.fee = @ + Cost(a)]
    /\ UNCHANGED <<seqs, undo, executed, block>>

execute_context_free_inline(a) ==
    /\ Calls /\ ~traces[At].free
    /\ a.auth = <<>>
    /\ traces' = schedule_action(a, a.account, TRUE, At, Here.first)
    /\ contexts' = [contexts EXCEPT ![Len(contexts)].free = Append(@, Len(traces) + 1)]
    /\ trx' = [trx EXCEPT !.fee = @ + Cost(a)]
    /\ UNCHANGED <<seqs, undo, executed, block>>
-----------------------------------------------------------------------------
Times(seq, x) == Cardinality({i \in DOMAIN seq : seq[i] = x})

MutOncePerActor(auth) ==
    [a \in Account |-> seqs.auth[a] + IF a \in Range(auth) THEN 1 ELSE 0]

\* next_auth_sequence for every authorization of the action
AuthCounted(auth) == [a \in Account |-> seqs.auth[a] + Times(auth, a)]

\* the code returns: exec_one makes the receipt, and exec goes on to the next
\* notified account or to the inline actions
exec_one ==
    LET o == At
        r == traces[o].receiver
        auths == AuthCounted(Act(o).auth)
        more == Here.at < Len(Here.notified)
        n == Len(contexts)
    IN /\ Running
       /\ seqs' = [global |-> seqs.global + 1, recv |-> [seqs.recv EXCEPT ![r] = @ + 1], auth |-> auths]
       /\ executed' = Append(executed, [ordinal |-> o, receiver |-> r, auth |-> Act(o).auth,
                         global_sequence |-> seqs.global + 1, recv_sequence |-> seqs.recv[r] + 1,
                         auth_sequence |-> [a \in Range(Act(o).auth) |-> auths[a]]])
       /\ contexts' = IF more THEN [contexts EXCEPT ![n].at = @ + 1,
                                                    ![n].ordinal = Here.notified[Here.at + 1]]
                      ELSE [contexts EXCEPT ![n].phase = "inline"]
       /\ UNCHANGED <<undo, trx, traces, block>>

MutInlineFirst(c) == c.inline \o c.free

\* the order in which exec runs what was sent
Sent(c) == c.free \o c.inline

MutTooDeep == Sent(Here) # <<>> /\ Here.depth > max_inline_action_depth

TooDeep == Sent(Here) # <<>> /\ Here.depth >= max_inline_action_depth

\* the loops at the end of exec
exec_inline ==
    LET todo == SelectSeq(Sent(Here), LAMBDA o : \A r \in Range(executed) : r.ordinal # o)
    IN /\ contexts # <<>> /\ Here.phase = "inline" /\ ~TooDeep
       /\ contexts' = IF todo = <<>> THEN Front(contexts)
                      ELSE Append(contexts, Context(Head(todo), Here.depth + 1))
       /\ UNCHANGED <<seqs, undo, trx, traces, executed, block>>

\* finalize succeeds: the receipts go to the pending block
commits ==
    /\ trx.stage = "fee" /\ contexts = <<>>
    /\ block' = block \o executed
    /\ trx' = [NoTrx EXCEPT !.count = trx.count]
    /\ traces' = <<>> /\ executed' = <<>>
    /\ UNCHANGED <<seqs, undo, contexts>>

MutForgetsUndo == seqs

\* transaction_context::undo
Undone == undo

\* any call throws, inline actions are too deep, or finalize finds a limit passed
throws ==
    /\ trx.stage # "none"
    /\ seqs' = Undone
    /\ trx' = [NoTrx EXCEPT !.count = trx.count]
    /\ traces' = <<>> /\ contexts' = <<>> /\ executed' = <<>>
    /\ UNCHANGED <<undo, block>>
-----------------------------------------------------------------------------
ActionInit ==
    /\ seqs = [global |-> 0, recv |-> [a \in Account |-> 0], auth |-> [a \in Account |-> 0]]
    /\ undo = seqs
    /\ trx = NoTrx
    /\ traces = <<>> /\ contexts = <<>> /\ executed = <<>> /\ block = <<>>

ActionNext ==
    \/ \E t \in Transactions : push_transaction(t)
    \/ execute_action
    \/ schedule_fee_action
    \/ \E r \in Account : require_recipient(r)
    \/ \E a \in Actions : execute_inline(a)
    \/ \E a \in FreeActions : execute_context_free_inline(a)
    \/ exec_one
    \/ exec_inline
    \/ commits
    \/ throws

ActionSpec == ActionInit /\ [][ActionNext]_avars
-----------------------------------------------------------------------------
(* The state holds values of its types. *)
ActionTypeOK ==
    /\ seqs.global \in Nat /\ DOMAIN seqs.recv = Account /\ DOMAIN seqs.auth = Account
    /\ trx.stage \in {"none", "exec", "fee"} /\ trx.fee \in Nat
    /\ \A o \in DOMAIN traces : traces[o].creator \in 0 .. o - 1 /\ traces[o].ancestor \in 0 .. o - 1
    /\ \A c \in Range(contexts) : c.depth \in 0 .. max_inline_action_depth /\ c.phase \in {"code", "inline"}

(* The sequence numbers count what ran and was kept, in whatever order     *)
(* code sent, notified and threw: the receipts carry the global numbers    *)
(* 1, 2, ... and each account's own numbers without a gap, where every     *)
(* authorization counts and a receipt names the last; a transaction that   *)
(* throws takes all its numbers back.                                      *)
SequencesExact ==
    LET all == block \o executed
        To(a, i) == Cardinality({j \in 1 .. i : all[j].receiver = a})
        By(a, i) == FoldFunctionOnSet(+, 0, [j \in DOMAIN all |-> Times(all[j].auth, a)], 1 .. i)
    IN /\ seqs.global = Len(all)
       /\ \A a \in Account : seqs.recv[a] = To(a, Len(all)) /\ seqs.auth[a] = By(a, Len(all))
       /\ \A i \in DOMAIN all :
             /\ all[i].global_sequence = i
             /\ all[i].recv_sequence = To(all[i].receiver, i)
             /\ \A a \in Range(all[i].auth) : all[i].auth_sequence[a] = By(a, i)

Position(o) == CHOOSE i \in DOMAIN executed : executed[i].ordinal = o
Done(o) == \E r \in Range(executed) : r.ordinal = o

\* o was created by p, or by an action p created, ...
From(p, o) ==
    LET up[k \in 0 .. Len(traces)] == k = p \/ (k > 0 /\ up[traces[k].creator]) IN up[o]

Notified(o) ==
    traces[o].creator > 0 /\ (traces[o].receiver # traces[o].act.account \/ traces[o].act.account = Token)

(* When a transaction has run, every action and notification it scheduled  *)
(* has run exactly once; each ran after the one that created it; context   *)
(* free inline actions ran before the others of the same context, and all  *)
(* that came of one inline action ran before the next one started.         *)
RunsInOrder ==
    /\ \A i, j \in DOMAIN executed : executed[i].ordinal = executed[j].ordinal => i = j
    /\ trx.stage = "fee" /\ contexts = <<>> => \A o \in DOMAIN traces : Done(o)
    /\ \A o \in DOMAIN traces : Done(o) /\ traces[o].creator > 0 =>
          Done(traces[o].creator) /\ Position(traces[o].creator) < Position(o)
    /\ \A o, p \in DOMAIN traces :
          /\ traces[o].ancestor = traces[p].ancestor /\ traces[o].ancestor > 0
          /\ ~Notified(o) /\ ~Notified(p)
          /\ (traces[o].free = traces[p].free /\ o < p) \/ (traces[o].free /\ ~traces[p].free)
          /\ Done(p)
          => \A q \in DOMAIN traces : From(o, q) => Done(q) /\ Position(q) < Position(p)

(* get_sender and the history of a transaction rely on the ordinals: the   *)
(* closest unnotified ancestor of an action is one that ran its own code,  *)
(* and the creator is that action or an account notified of it.            *)
AncestorsRight ==
    \A o \in DOMAIN traces :
        /\ (traces[o].creator = 0) = (traces[o].ancestor = 0)
        /\ traces[o].creator > 0 =>
              LET a == traces[o].ancestor IN
              /\ traces[a].receiver = traces[a].act.account \/ traces[a].act.account = Token
              /\ \/ traces[o].creator = a
                 \/ /\ traces[traces[o].creator].ancestor = a
                    /\ traces[traces[o].creator].act = traces[a].act
              /\ \A p \in DOMAIN traces :
                    traces[p].ancestor = a /\ Notified(p) /\ Notified(o)
                    /\ traces[o].receiver = traces[p].receiver => o = p

(* The fee that is paid is that of every action that ran its own code,     *)
(* inline ones included, and of no notification; only what the payer's     *)
(* code sends while it runs for the fee action itself is not in it, for    *)
(* the amount is fixed before that.                                        *)
FeeIsSum ==
    trx.stage = "fee" /\ trx.payer # "" =>
        LET fee == CHOOSE o \in DOMAIN traces : traces[o].act.account = Token /\ traces[o].creator = 0
        IN  trx.paid = FoldFunctionOnSet(+, 0, [o \in DOMAIN traces |-> Fee[traces[o].act.account]],
                           {o \in DOMAIN traces : /\ ~Notified(o) /\ traces[o].act.account # Token
                                                  /\ ~From(fee, o)})
=============================================================================
