----------------------------- MODULE Controller -----------------------------
(***************************************************************************)
(* controller_impl (libraries/chain/controller.cpp): one node's chain.     *)
(*                                                                         *)
(* The controller keeps five records of the chain that must agree: the     *)
(* fork database, its own `head`, the state database with one undo session *)
(* per reversible block, the reversible block store and the block log.     *)
(* All its methods run on the application's main thread, one at a time,    *)
(* but a method is a long run of small changes: it can throw between two   *)
(* of them, and the process can die between any two.  So each method is    *)
(* modelled by the steps it takes, and `job` says where it is.             *)
(*                                                                         *)
(* EOS_ASSERTs on the agreement of the five records are modelled by Check: *)
(* `fault` names the first one that failed.                                *)
(***************************************************************************)
EXTENDS ForkDatabase, Sequences, FiniteSets

CONSTANTS
    Bad,        \* blocks that apply_block rejects (good header, bad content)
    Trx,        \* transactions
    TrxOf,      \* the transactions of a block
    Own,        \* blocks this node may produce
    Modes,      \* read modes the node may be started in
    Crashes,    \* how often the process may die
    Reopens,    \* how often it may be stopped and started again
    AppendFails \* whether blog.append may throw

\* A block that repeats a transaction of the chain it builds on is rejected
\* (tx_duplicate): on a chain without bad blocks no transaction is twice.
ASSUME ControllerAssumption ==
    /\ Bad \subseteq Blocks \ {Genesis}
    /\ TrxOf \in [Blocks -> SUBSET Trx]
    /\ \A b \in Blocks : Anc[b] \cap Bad = {} =>
          \A c \in Anc[b] \ {b} : TrxOf[b] \cap TrxOf[c] = {}
    /\ Own \subseteq Blocks \ ({Genesis} \cup Bad)
    /\ Modes \subseteq {"SPECULATIVE", "HEAD", "READ_ONLY", "IRREVERSIBLE"}
    /\ Modes # {}
    /\ Crashes \in Nat
    /\ Reopens \in Nat
    /\ AppendFails \in BOOLEAN

VARIABLES
    fork_db,
    head,       \* controller_impl::head
    db,         \* the blocks whose effects the state database holds, in order
    committed,  \* the revision below which the state database cannot undo
    reversible, \* reversible_blocks, unique by number
    blog,       \* the block log
    pending,    \* the pending block: whether there is one, and its trx_metas
    unapplied,  \* unapplied_transactions
    metas,      \* block states whose `trxs` vector was filled
    read_mode,
    job,        \* the method in progress
    fault,      \* the first consistency assertion that failed
    budget      \* the crashes and restarts left

chainVars == <<fork_db, head, db, committed, reversible, blog>>
trxVars   == <<pending, unapplied, metas>>
vars      == <<chainVars, trxVars, read_mode, job, fault, budget>>

(***************************************************************************)
(* Where a method is:                                                      *)
(*   extend   maybe_switch_forks applies the one block on top of the head  *)
(*   pop, apply, unwind, restore    the loops of a fork switch             *)
(*   lib, log, trim                 log_irreversible                       *)
(*   replay, rereplay, best, loop   init                                   *)
(*   down     init threw and the process ended                             *)
(* `first` and `second` are what is left of the two branches of a switch   *)
(* (in log, `first` is what is left to append); `n` counts the blocks left *)
(* to pop, or the blocks of the new branch applied so far; `from` is the   *)
(* caller, and `goal` the block a replay should reach.                     *)
(***************************************************************************)
Steps == {"idle", "extend", "pop", "apply", "unwind", "restore", "lib", "log",
          "trim", "replay", "rereplay", "best", "loop", "down"}
Callers == {"push", "commit", "replay", "best"}
Job == [pc : Steps, first : SUBSET Blocks, second : SUBSET Blocks, n : Nat,
        from : Callers, goal : Blocks]
Idle == [pc |-> "idle", first |-> {}, second |-> {}, n |-> 0,
         from |-> "push", goal |-> Genesis]

NoPending == [on |-> FALSE, trxs |-> {}]
Up == fault = "none"
Faults == {"unlinked", "revision", "unmarked", "duplicate", "beyond", "out of sync",
           "restore", "remove", "not head", "root", "advance", "reload", "log", "state",
           "gap", "last", "mismatch", "replay"}

TypeOK ==
    /\ fork_db \in ForkDb
    /\ head \in Blocks
    /\ db \in Seq(Blocks)
    /\ committed \in Nat
    /\ reversible \subseteq Blocks
    /\ blog \in Seq(Blocks)
    /\ pending \in [on : BOOLEAN, trxs : SUBSET Trx]
    /\ unapplied \subseteq Trx
    /\ metas \subseteq Blocks
    /\ read_mode \in Modes
    /\ job \in Job
    /\ fault \in Faults \cup {"none"}
    /\ budget \in [crashes : Nat, reopens : Nat]

\* A node whose genesis state and block log were written by
\* initialize_blockchain_state and blog.reset.
Init ==
    /\ fork_db = reset(Genesis)
    /\ head = Genesis
    /\ db = <<Genesis>>
    /\ committed = 1
    /\ reversible = {}
    /\ blog = <<Genesis>>
    /\ pending = NoPending
    /\ unapplied = {}
    /\ metas = {}
    /\ read_mode \in Modes
    /\ job = Idle
    /\ fault = "none"
    /\ budget = [crashes |-> Crashes, reopens |-> Reopens]

\* EOS_ASSERT( cond, ... ) on the agreement of the records.
Check(cond, name) == fault' = IF cond THEN "none" ELSE name

LogHead == blog[Len(blog)]
Irreversible == read_mode = "IRREVERSIBLE"
\* reversible_blocks has a unique index on the number.
Fresh(b) == \A r \in reversible : Num[r] # Num[b]
Recaptured(trxs) == IF read_mode = "SPECULATIVE" THEN trxs ELSE {}
\* Branches are stored newest first and walked from rbegin().
Lowest(S) == CHOOSE b \in S : \A c \in S : Num[b] <= Num[c]
Highest(S) == CHOOSE b \in S : \A c \in S : Num[c] <= Num[b]
-----------------------------------------------------------------------------
(***************************************************************************)
(* The pending block.                                                      *)
(***************************************************************************)

\* void start_block( ... ).
start_block ==
    /\ Up /\ job.pc = "idle" /\ ~pending.on /\ read_mode # "READ_ONLY"
    /\ Check(Len(db) = Num[head], "revision")
    /\ pending' = [on |-> TRUE, trxs |-> {}]
    /\ UNCHANGED <<chainVars, unapplied, metas, read_mode, job, budget>>

\* push_transaction( trx, ... ) that executes; outside speculative mode its
\* effects and its receipt are undone at once.
push_transaction(t) ==
    /\ Up /\ job.pc = "idle" /\ pending.on /\ t \notin pending.trxs
    /\ \A i \in 1 .. Len(db) : t \notin TrxOf[db[i]]
    /\ pending' = [pending EXCEPT !.trxs = @ \cup Recaptured({t})]
    /\ unapplied' = unapplied \ {t}
    /\ UNCHANGED <<chainVars, metas, read_mode, job, fault, budget>>

\* push_transaction( trx, ... ) that fails for a reason that is not subjective.
drop_transaction(t) ==
    /\ Up /\ job.pc = "idle" /\ pending.on /\ t \in unapplied
    /\ unapplied' = unapplied \ {t}
    /\ UNCHANGED <<chainVars, pending, metas, read_mode, job, fault, budget>>

\* void abort_block().
abort_block ==
    /\ Up /\ job.pc = "idle" /\ pending.on
    /\ unapplied' = unapplied \cup Recaptured(pending.trxs)
    /\ pending' = NoPending
    /\ UNCHANGED <<chainVars, metas, read_mode, job, fault, budget>>

\* finalize_block and commit_block( true ), up to the call of
\* log_irreversible.  Only a node in speculative mode produces.
commit_block(b) ==
    LET f == mark_valid(add(fork_db, b), b) IN
    /\ Up /\ job.pc = "idle" /\ pending.on /\ read_mode = "SPECULATIVE"
    /\ b \in Own /\ Prev[b] = head /\ CanAdd(fork_db, b)
    /\ pending.trxs = TrxOf[b]
    /\ fork_db' = f
    /\ head' = f.head
    /\ Check(f.head = b /\ Fresh(b), IF f.head = b THEN "duplicate" ELSE "not head")
    /\ reversible' = reversible \cup {b}
    /\ metas' = metas \cup {b}
    /\ job' = [Idle EXCEPT !.pc = "lib", !.from = "commit"]
    /\ UNCHANGED <<db, committed, blog, pending, unapplied, read_mode, budget>>
-----------------------------------------------------------------------------
(***************************************************************************)
(* Fork switching.                                                         *)
(***************************************************************************)

\* Where control goes when the method called by `from` is over.
Return(from) ==
    CASE from = "replay" -> [job EXCEPT !.pc = "rereplay", !.first = {}, !.second = {}, !.n = 0]
      [] from = "best"   -> [Idle EXCEPT !.pc = "loop", !.from = "best"]
      [] OTHER           -> Idle

\* An exception leaves push_block to its caller, which logs it, but ends init.
Throw(from) == IF from \in {"push", "commit"} THEN Idle ELSE [Idle EXCEPT !.pc = "down"]

\* The length of the branch from a down to where it meets the one of b.
branch_size(a, b) == Num[a] - Num[Highest(Anc[a] \cap Anc[b])]

\* void maybe_switch_forks( new_head, s ), up to its loops.
maybe_switch_forks(new_head, from) ==
    IF new_head = head THEN Return(from)
    ELSE IF Prev[new_head] = head
    THEN [job EXCEPT !.pc = "extend", !.first = {new_head}, !.from = from]
    ELSE [job EXCEPT !.pc = "pop",
                     !.first = branch_from(new_head, head),
                     !.second = branch_from(head, new_head),
                     !.n = branch_size(head, new_head),
                     !.from = from]

\* What fetch_branch_from asserts when it is called.
CanSwitch(f, new_head) ==
    head \notin {new_head, Prev[new_head]} => CanFetchFrom(f, new_head, head)

\* on_incoming_block( block ) and push_block( future ): a block that is not
\* known and whose parent is, after the pending block was aborted.
push_block(b) ==
    LET f == add(fork_db, b)
        n == pending_head(f)
    IN
    /\ Up /\ job.pc = "idle" /\ b # Genesis
    /\ CanAdd(fork_db, b)
    /\ fork_db' = f
    /\ unapplied' = unapplied \cup Recaptured(pending.trxs)
    /\ pending' = NoPending
    /\ metas' = metas \ {b}
    /\ IF Irreversible
       THEN /\ job' = [Idle EXCEPT !.pc = "lib"]
            /\ UNCHANGED fault
       ELSE /\ job' = maybe_switch_forks(n, "push")
            /\ Check(CanSwitch(f, n), "unlinked")
    /\ UNCHANGED <<head, db, committed, reversible, blog, read_mode, budget>>

MutUndoNothing == db

\* db.undo(), which does nothing once every session was committed.
Undone == IF Len(db) > committed THEN SubSeq(db, 1, Len(db) - 1) ELSE db

MutPopKeepsReversible ==
    /\ head' = Prev[head]
    /\ db' = Undone
    /\ unapplied' = unapplied \cup Recaptured(IF head \in metas THEN TrxOf[head] ELSE {})
    /\ UNCHANGED <<fork_db, committed, reversible, blog, pending, metas,
                   read_mode, budget>>

\* void pop_block().  What it recaptures are the `trxs` of the block state.
pop_block ==
    /\ reversible' = {b \in reversible : Num[b] # Num[head]}
    /\ head' = Prev[head]
    /\ db' = Undone
    /\ unapplied' = unapplied \cup Recaptured(IF head \in metas THEN TrxOf[head] ELSE {})
    /\ UNCHANGED <<fork_db, committed, blog, pending, metas, read_mode, budget>>

MutApplyKeepsUnapplied(b, f, store) ==
    /\ fork_db' = f
    /\ db' = Append(db, b)
    /\ head' = b
    /\ reversible' = IF store THEN reversible \cup {b} ELSE reversible
    /\ UNCHANGED <<pending, unapplied, read_mode, budget>>

\* apply_block( bsp, s ) that passes, with what its caller does to the fork
\* database, and the assignment of head.  commit_block( false ) stores the
\* block among the reversible ones, unless a replay or irreversible mode is on.
apply_block(b, f, store) ==
    /\ fork_db' = f
    /\ db' = Append(db, b)
    /\ head' = b
    /\ reversible' = IF store THEN reversible \cup {b} ELSE reversible
    /\ unapplied' = unapplied \ TrxOf[b]
    /\ UNCHANGED <<pending, read_mode, budget>>

MutApplyUnchecked(b) == Prev[b] = head

\* apply_block rejects a block that does not build on the head (its id would
\* differ), and one whose content is bad.
Applies(b) == b \notin Bad /\ Prev[b] = head

\* What start_block and reversible_blocks.create assert meanwhile; `marks` is
\* whether mark_valid is called, which asserts that it finds the block.
CheckApply(b, marks) ==
    Check(/\ Len(db) = Num[head]
          /\ Fresh(b)
          /\ marks => b \in fork_db.index,
          CASE Len(db) # Num[head] -> "revision"
            [] ~Fresh(b)           -> "duplicate"
            [] OTHER               -> "unmarked")

\* apply_block( bsp, s ) that throws: abort_block recaptures the transactions
\* that had executed; the one that failed, if one did, is forgotten.  One that
\* the chain has already does not execute.
apply_fails(b) ==
    /\ \E done \in SUBSET {t \in TrxOf[b] : \A i \in 1 .. Len(db) : t \notin TrxOf[db[i]]} :
       \E failed \in SUBSET (TrxOf[b] \ done) :
          /\ Cardinality(failed) <= 1
          /\ unapplied' = (unapplied \ failed) \cup Recaptured(done)
    /\ UNCHANGED <<head, db, reversible, blog, metas, read_mode, budget>>

\* The block on top of the head is applied and marked valid.
Extend ==
    \E b \in job.first :
       /\ Up /\ job.pc = "extend" /\ Applies(b)
       /\ CheckApply(b, TRUE)
       /\ apply_block(b, mark_valid(fork_db, b), TRUE)
       /\ job' = [job EXCEPT !.pc = "lib", !.first = {}]
       /\ UNCHANGED <<committed, blog, metas>>

\* The block on top of the head is rejected and removed.
ExtendFails ==
    \E b \in job.first :
       /\ Up /\ job.pc = "extend" /\ ~Applies(b)
       /\ apply_fails(b)
       /\ fork_db' = remove(fork_db, b)
       /\ Check(CanRemove(fork_db, b), "remove")
       /\ job' = Throw(job.from)
       /\ UNCHANGED <<committed, pending>>

\* The first loop of a switch: as many pops as the old branch has blocks.
PopOld ==
    /\ Up /\ job.pc = "pop" /\ job.n > 0
    /\ pop_block
    /\ job' = [job EXCEPT !.n = @ - 1]
    /\ Check(Prev[head] \in Linked(fork_db), "beyond")

\* They must have led to the common ancestor.
Popped ==
    /\ Up /\ job.pc = "pop" /\ job.n = 0
    /\ job' = [job EXCEPT !.pc = "apply"]
    /\ Check(job.second # {} => head = Prev[Lowest(job.second)], "out of sync")
    /\ UNCHANGED <<chainVars, trxVars, read_mode, budget>>

\* The second loop: the blocks of the new branch, oldest first.
ApplyNew ==
    LET b == Lowest(job.first) IN
    /\ Up /\ job.pc = "apply" /\ job.first # {} /\ Applies(b)
    /\ CheckApply(b, TRUE)
    /\ apply_block(b, mark_valid(fork_db, b), TRUE)
    /\ job' = [job EXCEPT !.first = @ \ {b}, !.n = @ + 1]
    /\ UNCHANGED <<committed, blog, metas>>

\* The switch succeeded.
Switched ==
    /\ Up /\ job.pc = "apply" /\ job.first = {}
    /\ job' = [job EXCEPT !.pc = "lib", !.second = {}, !.n = 0]
    /\ UNCHANGED <<chainVars, trxVars, read_mode, fault, budget>>

\* A block of the new branch is rejected: it and what is built on it leave
\* the fork database, and the switch has to be undone.
ApplyNewFails ==
    LET b == Lowest(job.first) IN
    /\ Up /\ job.pc = "apply" /\ job.first # {} /\ ~Applies(b)
    /\ apply_fails(b)
    /\ fork_db' = remove(fork_db, b)
    /\ Check(CanRemove(fork_db, b), "remove")
    /\ job' = [job EXCEPT !.pc = "unwind", !.first = {}]
    /\ UNCHANGED <<committed, pending>>

MutUnwindTooFar ==
    /\ Up /\ job.pc = "unwind"
    /\ pop_block
    /\ job' = [job EXCEPT !.n = @ - 1]
    /\ Check(Prev[head] \in Linked(fork_db), "beyond")

\* The blocks of the new branch that were applied are popped.
Unwind ==
    /\ Up /\ job.pc = "unwind" /\ job.n > 0
    /\ pop_block
    /\ job' = [job EXCEPT !.n = @ - 1]
    /\ Check(Prev[head] \in Linked(fork_db), "beyond")

\* The assertion that reads branches.second.back(), a block that does not
\* exist when the switch popped nothing.
Unwound ==
    /\ Up /\ job.pc = "unwind" /\ job.n = 0
    /\ job' = [job EXCEPT !.pc = "restore"]
    /\ Check(job.second # {} /\ head = Prev[Lowest(job.second)], "out of sync")
    /\ UNCHANGED <<chainVars, trxVars, read_mode, budget>>

\* The old branch is applied again.  A block that would not apply leaves the
\* node on neither branch.
Restore ==
    LET b == Lowest(job.second) IN
    /\ Up /\ job.pc = "restore" /\ job.second # {}
    /\ IF Applies(b) THEN CheckApply(b, FALSE) ELSE fault' = "restore"
    /\ apply_block(b, fork_db, TRUE)
    /\ job' = [job EXCEPT !.second = @ \ {b}]
    /\ UNCHANGED <<committed, blog, metas>>

\* The exception of the failed switch goes on its way.
Restored ==
    /\ Up /\ job.pc = "restore" /\ job.second = {}
    /\ job' = Throw(job.from)
    /\ UNCHANGED <<chainVars, trxVars, read_mode, fault, budget>>
-----------------------------------------------------------------------------
(***************************************************************************)
(* log_irreversible().                                                     *)
(***************************************************************************)

\* Mutation: the root may be ahead of the log.
MutNoRootCheck ==
    LET fork_head == IF Irreversible THEN pending_head(fork_db) ELSE fork_db.head IN
    /\ Up /\ job.pc = "lib"
    /\ job' = [job EXCEPT !.pc = "log",
                          !.first = IF Lib[fork_head] <= Len(blog) THEN {}
                                    ELSE fetch_branch(fork_db, fork_head, Lib[fork_head])]
    /\ UNCHANGED <<chainVars, trxVars, read_mode, budget, fault>>

\* The part before its loop: the branch up to the LIB of the fork head.
LogBegin ==
    LET fork_head == IF Irreversible THEN pending_head(fork_db) ELSE fork_db.head IN
    /\ Up /\ job.pc = "lib"
    /\ Check(fork_db.root = LogHead, "root")
    /\ job' = [job EXCEPT !.pc = "log",
                          !.first = IF Lib[fork_head] <= Len(blog) THEN {}
                                    ELSE fetch_branch(fork_db, fork_head, Lib[fork_head])]
    /\ UNCHANGED <<chainVars, trxVars, read_mode, budget>>

\* db.commit( num ).
Commit(b) == committed' = IF Num[b] > committed THEN Num[b] ELSE committed

\* One turn of the loop up to blog.append.  In irreversible mode the block is
\* applied only now.
LogAppend ==
    LET b == Lowest(job.first) IN
    /\ Up /\ job.pc = "log" /\ job.first # {}
    /\ IF Irreversible
       THEN /\ Applies(b)
            /\ Check(Len(db) = Num[head], "revision")
            /\ apply_block(b, mark_valid(fork_db, b), FALSE)
       ELSE UNCHANGED <<fork_db, db, head, reversible, pending, unapplied,
                        read_mode, budget, fault>>
    /\ Commit(b)
    /\ blog' = Append(blog, b)
    /\ job' = [job EXCEPT !.pc = "trim"]
    /\ UNCHANGED metas

MutTrimKeepsLast ==
    /\ Up /\ job.pc = "trim"
    /\ reversible' = {b \in reversible : Num[b] >= Num[LogHead]}
    /\ job' = [job EXCEPT !.pc = "log", !.first = @ \ {LogHead}]
    /\ UNCHANGED <<fork_db, head, db, committed, blog, trxVars, read_mode, fault, budget>>

MutTrimForever ==
    /\ Up /\ job.pc = "trim"
    /\ reversible' = {b \in reversible : Num[b] > Num[LogHead]}
    /\ UNCHANGED <<fork_db, head, db, committed, blog, trxVars, read_mode, job, fault, budget>>

\* The rest of the turn: reversible blocks up to the one logged go.
LogTrim ==
    /\ Up /\ job.pc = "trim"
    /\ reversible' = {b \in reversible : Num[b] > Num[LogHead]}
    /\ job' = [job EXCEPT !.pc = "log", !.first = @ \ {LogHead}]
    /\ UNCHANGED <<fork_db, head, db, committed, blog, trxVars, read_mode, fault, budget>>

MutRootStays(f, b) == f

\* The root follows the log.
RootTo(f, b) == IF b = f.root THEN f ELSE advance_root(f, b)
CanRootTo(f, b) == b = f.root \/ CanAdvance(f, b)

\* log_irreversible returns; commit_block, if it is the caller, pushes the
\* session of the pending block.
LogEnd ==
    /\ Up /\ job.pc = "log" /\ job.first = {}
    /\ fork_db' = RootTo(fork_db, LogHead)
    /\ Check(CanRootTo(fork_db, LogHead), "advance")
    /\ db' = IF job.from = "commit" THEN Append(db, head) ELSE db
    /\ pending' = NoPending
    /\ job' = Return(job.from)
    /\ UNCHANGED <<head, committed, reversible, blog, unapplied, metas,
                   read_mode, budget>>

\* apply_block throws in irreversible mode: the root follows what was logged.
LogApplyFails ==
    LET b == Lowest(job.first) IN
    /\ Up /\ job.pc = "log" /\ job.first # {} /\ Irreversible /\ ~Applies(b)
    /\ apply_fails(b)
    /\ fork_db' = RootTo(fork_db, LogHead)
    /\ Check(CanRootTo(fork_db, LogHead), "advance")
    /\ job' = Throw(job.from)
    /\ UNCHANGED <<committed, pending>>

\* blog.append throws: root_id was set to the block before it was appended.
\* commit_block aborts its pending block.
LogAppendFails ==
    LET b == Lowest(job.first)
        f == IF Irreversible THEN mark_valid(fork_db, b) ELSE fork_db
    IN
    /\ AppendFails
    /\ Up /\ job.pc = "log" /\ job.first # {}
    /\ Irreversible => Applies(b)
    /\ head' = IF Irreversible THEN b ELSE head
    /\ db' = IF Irreversible THEN Append(db, b) ELSE db
    /\ fork_db' = RootTo(f, b)
    /\ Check(CanRootTo(f, b), "advance")
    /\ Commit(b)
    /\ unapplied' = unapplied \cup Recaptured(pending.trxs)
    /\ pending' = NoPending
    /\ job' = Throw(job.from)
    /\ UNCHANGED <<reversible, blog, metas, read_mode, budget>>
-----------------------------------------------------------------------------
(***************************************************************************)
(* init( ... ) and replay( ... ): after a clean stop, and after the death  *)
(* of the process, when the state has to be replayed from the genesis      *)
(* block because neither the state nor the fork database survives.         *)
(***************************************************************************)

\* Reversible blocks that are not in the block log.
Unlogged(m) == IF m = "IRREVERSIBLE" THEN {}
               ELSE {b \in reversible : Num[b] > Len(blog)}

\* The block stored last.
Stored(rev) == IF rev = {} THEN LogHead ELSE Highest(rev)

\* Where init goes on from the block h it starts with: blocks of the log and
\* reversible blocks above h are replayed.
AfterChecks(h, rev) ==
    [Idle EXCEPT !.pc = IF Num[h] < Len(blog) THEN "replay"
                        ELSE IF Num[h] < Num[Stored(rev)] THEN "rereplay" ELSE "best",
                 !.from = "replay",
                 !.goal = Stored(rev)]

NoGap(rev) == rev = {} \/ \E b \in rev : Num[b] = Len(blog) + 1

\* The checks of init between the fork database and the reversible blocks.
Matches(f, rev) ==
    LET p == pending_head(f)
        last == Num[Stored(rev)]
    IN  rev # {} /\ Len(blog) < Num[p] =>
           IF Num[p] <= last THEN p \in rev
           ELSE search_on_branch(f, p, last) = {Stored(rev)}

\* The process dies at any step; it is started with an empty state directory.
Crash(m) ==
    LET rev == Unlogged(m) IN
    /\ Up /\ budget.crashes > 0
    /\ budget' = [budget EXCEPT !.crashes = @ - 1]
    /\ read_mode' = m
    /\ fork_db' = reset(Genesis)
    /\ head' = Genesis
    /\ db' = <<Genesis>>
    /\ committed' = 1
    /\ reversible' = rev
    /\ Check(NoGap(rev), "gap")
    /\ job' = AfterChecks(Genesis, rev)
    /\ pending' = NoPending
    /\ unapplied' = {} /\ metas' = {}
    /\ UNCHANGED blog

\* The first of init's assertions that fails after a clean stop, if any.
ReopenFault(f, rev) ==
    CASE ~Reloads(fork_db)                      -> "reload"
      [] Num[fork_db.root] > Len(blog)          -> "log"
      [] Len(db) < Num[f.head]                  -> "state"
      [] ~NoGap(rev)                            -> "gap"
      [] Num[f.head] > Num[Stored(rev)]         -> "last"
      [] ~Matches(f, rev)                       -> "mismatch"
      [] OTHER                                  -> "none"

\* The node is stopped between two methods and started again in mode m.  The
\* fork database is read back with the transactions of its blocks; the state
\* database undoes what is above the head.
Reopen(m) ==
    LET f == IF m = "IRREVERSIBLE" /\ fork_db.head # fork_db.root THEN rollback_head_to_root(fork_db)
             ELSE fork_db
        rev == Unlogged(m)
        top == IF Num[f.head] > committed THEN Num[f.head] ELSE committed
    IN
    /\ Up /\ job.pc \in {"idle", "down"} /\ budget.reopens > 0
    /\ budget' = [budget EXCEPT !.reopens = @ - 1]
    /\ read_mode' = m
    /\ fork_db' = f
    /\ head' = f.head
    /\ db' = IF Len(db) > top THEN SubSeq(db, 1, top) ELSE db
    /\ reversible' = rev
    /\ fault' = ReopenFault(f, rev)
    /\ job' = AfterChecks(f.head, rev)
    /\ pending' = NoPending
    /\ unapplied' = {} /\ metas' = fork_db.index
    /\ UNCHANGED <<committed, blog>>

\* replay: one irreversible block.
ReplayLog ==
    LET b == blog[Num[head] + 1] IN
    /\ Up /\ job.pc = "replay" /\ Num[head] < Len(blog)
    /\ Check(Applies(b), "replay")
    /\ apply_block(b, fork_db, FALSE)
    /\ Commit(b)
    /\ UNCHANGED <<blog, job, metas>>

\* replay: the fork database starts again from the last irreversible block.
ReplayLogDone ==
    LET p == pending_head(fork_db)
        found == search_on_branch(fork_db, p, Num[head])
        marked == mark_valid(fork_db, head)
    IN
    /\ Up /\ job.pc = "replay" /\ Num[head] >= Len(blog)
    /\ IF Num[p] < Num[head] \/ Num[head] < Num[fork_db.root]
       THEN fork_db' = reset(head) /\ UNCHANGED fault
       ELSE IF Num[head] = Num[fork_db.root]
       THEN UNCHANGED <<fork_db, fault>>
       ELSE /\ fork_db' = advance_root(marked, head)
            /\ Check(found = {head} /\ CanAdvance(marked, head), "replay")
    /\ job' = [job EXCEPT !.pc = "rereplay"]
    /\ UNCHANGED <<head, db, committed, reversible, blog, trxVars, read_mode, budget>>

\* replay: one reversible block, with log_irreversible after it.
ReplayReversible ==
    \E b \in reversible :
       LET f == IF b \in fork_db.index THEN fork_db ELSE add(fork_db, b) IN
       /\ Up /\ job.pc = "rereplay" /\ Num[b] = Num[head] + 1
       /\ Check(/\ Applies(b)
                /\ b \in fork_db.index \/ Prev[b] \in Linked(fork_db), "replay")
       /\ apply_block(b, mark_valid(f, b), FALSE)
       /\ metas' = metas \ {b}
       /\ job' = [job EXCEPT !.pc = "lib"]
       /\ UNCHANGED <<committed, blog>>

MutReplayStopsEarly ==
    /\ Up /\ job.pc = "rereplay"
    /\ job' = [job EXCEPT !.pc = "best"]
    /\ UNCHANGED <<chainVars, trxVars, read_mode, fault, budget>>

\* replay is over.
ReplayDone ==
    /\ Up /\ job.pc = "rereplay"
    /\ \A b \in reversible : Num[b] # Num[head] + 1
    /\ job' = [job EXCEPT !.pc = "best"]
    /\ UNCHANGED <<chainVars, trxVars, read_mode, fault, budget>>

\* The end of init: does the best branch wait to be applied?
InitBest ==
    /\ Up /\ job.pc = "best"
    /\ job' = IF /\ ~Irreversible
                 /\ pending_head(fork_db) # fork_db.head
                 /\ fork_db.head = fork_db.root
              THEN [Idle EXCEPT !.pc = "loop", !.from = "best"]
              ELSE Idle
    /\ UNCHANGED <<chainVars, trxVars, read_mode, fault, budget>>

\* The loop that applies it.
BestBranch ==
    LET p == pending_head(fork_db) IN
    /\ Up /\ job.pc = "loop"
    /\ IF p = fork_db.head
       THEN job' = Idle /\ UNCHANGED fault
       ELSE /\ job' = maybe_switch_forks(p, "best")
            /\ Check(CanSwitch(fork_db, p), "unlinked")
    /\ UNCHANGED <<chainVars, trxVars, read_mode, budget>>
-----------------------------------------------------------------------------
\* The steps of a method that has begun.
Step ==
    \/ Extend \/ ExtendFails
    \/ PopOld \/ Popped \/ ApplyNew \/ Switched
    \/ ApplyNewFails \/ Unwind \/ Unwound \/ Restore \/ Restored
    \/ LogBegin \/ LogAppend \/ LogTrim \/ LogEnd \/ LogApplyFails \/ LogAppendFails
    \/ ReplayLog \/ ReplayLogDone \/ ReplayReversible \/ ReplayDone
    \/ InitBest \/ BestBranch

Next ==
    \/ Step
    \/ start_block \/ abort_block
    \/ \E t \in Trx : push_transaction(t) \/ drop_transaction(t)
    \/ \E b \in Blocks : commit_block(b) \/ push_block(b)
    \/ \E m \in Modes : Crash(m) \/ Reopen(m)

Spec == Init /\ [][Next]_vars

\* A method that has begun runs to its end.
FairSpec == Spec /\ WF_vars(Step)
-----------------------------------------------------------------------------
(***************************************************************************)
(* Properties.                                                             *)
(***************************************************************************)

\* None of the assertions by which the controller checks that its records
\* agree ever fails: whatever the order of blocks, the forks, the rejected
\* blocks and the restarts, pop_block never goes beyond the root, the state's
\* revision is the head's number when a block is started, the loops of a fork
\* switch end at the common ancestor, the committed block becomes the head of
\* the fork database, the root is the head of the block log, and init accepts
\* what was stored.
InSync == fault = "none"

\* Between two changes of the head, and between two methods, the state
\* database holds the effects of exactly the blocks that lead to the head:
\* pop_block's undo and apply_block's session never drift apart, also when a
\* fork switch fails half-way.
StateOfHead ==
    Up /\ job.pc \in {"idle", "extend", "pop", "apply", "unwind", "restore"} =>
       /\ Len(db) = Num[head]
       /\ \A i \in 1 .. Len(db) : db[i] \in Anc[head]

\* Between two methods the reversible block store holds exactly the blocks of
\* the head's branch that are not in the block log: it is what a replay has
\* to find after the process died.
ReversibleIsBranch ==
    Up /\ job.pc = "idle" /\ ~Irreversible =>
       reversible = {b \in Anc[head] : Num[b] > Len(blog)}

\* The five records of the chain agree: the three statements above, of the
\* head, the state, the fork database, the reversible blocks and the log.
RecordsAgree == InSync /\ StateOfHead /\ ReversibleIsBranch

\* Between two methods no block the node knows is preferred to its head: a
\* better branch was tried as soon as it was complete, and either became the
\* chain or was removed from the fork database with everything built on it.
BestHead ==
    Up /\ job.pc = "idle" /\ ~Irreversible =>
       ~ \E b \in fork_db.index : FirstPreferred(b, head)

\* Replaying the log and the reversible blocks after the process died at any
\* step (a half-done fork switch, a block logged but not yet dropped from the
\* reversible ones) ends at the last block that was stored.
RecoversHead == Up /\ job.pc = "best" => head = job.goal

\* A block that apply_block rejects never gets into the block log.
NothingBadIsFinal == \A i \in 1 .. Len(blog) : blog[i] \notin Bad

\* In irreversible mode, between two methods, the head is the last
\* irreversible block: the head of the block log and the root of the fork
\* database, whose own head is at least as high.
IrreversibleHead ==
    Up /\ job.pc = "idle" /\ Irreversible =>
       /\ head = LogHead /\ fork_db.root = LogHead
       /\ Num[pending_head(fork_db)] >= Num[head]

\* A transaction waiting to be applied again is in no block of the chain and
\* not in the pending block: recapturing (pop_block, abort_block) and erasing
\* (push_transaction) stay in balance through fork switches that fail.
UnappliedIsNew ==
    Up /\ job.pc = "idle" =>
       \A t \in unapplied : /\ t \notin pending.trxs
                            /\ \A i \in 1 .. Len(db) : t \notin TrxOf[db[i]]

Final == INSTANCE FinalLog WITH log <- blog

\* The block log is one chain that only ever grows, child by child, through
\* forks, rejected blocks, failing appends, crashes and restarts.
FinalLogSpec == Final!Spec

\* Every method that begins comes to its end, unless an assertion fails.
Settles == []<>(job.pc \in {"idle", "down"} \/ ~Up)
-----------------------------------------------------------------------------
(***************************************************************************)
(* What comments and assertions of the source say, and the code does not   *)
(* keep.                                                                   *)
(***************************************************************************)

\* "loss of sync between fork_db and chainbase during fork switch reversal":
\* the assertion that "_should_ never fail" is about a block that exists.
ReversalInSync == fault # "out of sync"

\* The block the fork database prefers after a clean restart is the one in
\* the reversible block store ("mismatch in block id of pending head block").
ReopenMatches == fault # "mismatch"
=============================================================================
