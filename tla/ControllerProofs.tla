-------------------------- MODULE ControllerProofs --------------------------
(***************************************************************************)
(* Proofs about the controller, for every tree of blocks, every set of bad *)
(* and of own blocks, and any number of crashes and restarts.              *)
(***************************************************************************)
EXTENDS Controller, Integers, TLAPS

-----------------------------------------------------------------------------
(***************************************************************************)
(* Blocks and sets of blocks.                                              *)
(***************************************************************************)

\* What the assumptions say of one block.
LEMMA BlockFacts ==
    ASSUME NEW b \in Blocks
    PROVE  /\ Genesis \in Blocks
           /\ Prev[b] \in Blocks
           /\ Num[b] \in Nat
           /\ Lib[b] \in Nat
           /\ Anc[b] \in SUBSET Blocks
           /\ TrxOf[b] \in SUBSET Trx
    BY TreeAssumption, LibAssumption, AncAssumption, ControllerAssumption

\* A loop over a branch that is not empty starts with its lowest block.
LEMMA LowestIn ==
    ASSUME NEW S \in SUBSET Blocks, S # {}
    PROVE  /\ Lowest(S) \in S
           /\ \A c \in S : Num[Lowest(S)] <= Num[c]
<1>1. \E b \in S : \A c \in S : Num[b] <= Num[c]
    BY TreeAssumption
<1> QED
    BY <1>1 DEF Lowest

\* The last block stored exists.
LEMMA HighestIn ==
    ASSUME NEW S \in SUBSET Blocks, S # {}
    PROVE  /\ Highest(S) \in S
           /\ \A c \in S : Num[c] <= Num[Highest(S)]
<1>1. \E b \in S : \A c \in S : Num[c] <= Num[b]
    BY TreeAssumption
<1> QED
    BY <1>1 DEF Highest

\* Every branch starts with the genesis block.
LEMMA GenesisIn ==
    ASSUME NEW b \in Blocks
    PROVE  Genesis \in Anc[b]
<1>1. PICK c \in Anc[b] : Num[c] = 1
    <2>1. 1 \in 1 .. Num[b]
        BY TreeAssumption
    <2> QED
        BY <2>1, AncAssumption
<1>2. c \in Blocks
    BY AncAssumption
<1>3. c = Genesis
    <2>1. c # Genesis => Num[c] = Num[Prev[c]] + 1 /\ Num[Prev[c]] \in Nat \ {0}
        BY <1>2, TreeAssumption
    <2> QED
        BY <1>1, <2>1
<1> QED
    BY <1>1, <1>3

\* indx.begin() of a part of the index that is not empty is one of its blocks.
LEMMA FirstIn ==
    ASSUME NEW S \in SUBSET Blocks, S # {}
    PROVE  First(S) \in S
<1>1. \E b \in S : IsFirst(b, S)
    BY OrderAssumption
<1> QED
    BY <1>1 DEF First
-----------------------------------------------------------------------------
(***************************************************************************)
(* The methods of the fork database return fork databases.                 *)
(***************************************************************************)

LEMMA ResetType ==
    ASSUME NEW b \in Blocks
    PROVE  reset(b) \in ForkDb
    BY DEF reset, ForkDb

LEMMA AddType ==
    ASSUME NEW f \in ForkDb, NEW b \in Blocks
    PROVE  add(f, b) \in ForkDb
<1>1. f.valid # {} => First(f.valid) \in Blocks
    BY FirstIn DEF ForkDb
<1> QED
    BY <1>1, ZenonT(60) DEF add, ForkDb

LEMMA MarkValidType ==
    ASSUME NEW f \in ForkDb, NEW b \in Blocks
    PROVE  mark_valid(f, b) \in ForkDb
<1>1. f.valid \cup {b} \in SUBSET Blocks /\ f.valid \cup {b} # {}
    BY DEF ForkDb
<1>2. First(f.valid \cup {b}) \in Blocks
    BY <1>1, FirstIn
<1> QED
    BY <1>1, <1>2, ZenonT(60) DEF mark_valid, ForkDb

LEMMA PendingHeadType ==
    ASSUME NEW f \in ForkDb
    PROVE  pending_head(f) \in Blocks
<1>1. f.index \ f.valid # {} => First(f.index \ f.valid) \in Blocks
    BY FirstIn DEF ForkDb
<1> QED
    BY <1>1 DEF pending_head, ForkDb

LEMMA RemoveType ==
    ASSUME NEW f \in ForkDb, NEW b \in Blocks
    PROVE  remove(f, b) \in ForkDb
    BY ZenonT(60) DEF remove, Subtree, ForkDb

LEMMA RootToType ==
    ASSUME NEW f \in ForkDb, NEW b \in Blocks
    PROVE  advance_root(f, b) \in ForkDb /\ RootTo(f, b) \in ForkDb
    BY ZenonT(60) DEF RootTo, advance_root, Subtree, ForkDb

LEMMA RollbackType ==
    ASSUME NEW f \in ForkDb
    PROVE  rollback_head_to_root(f) \in ForkDb
    BY ZenonT(60) DEF rollback_head_to_root, ForkDb
-----------------------------------------------------------------------------
(***************************************************************************)
(* Type correctness.                                                       *)
(***************************************************************************)

\* EOS_ASSERT leaves `fault` one of its values, whatever it asserts.
LEMMA CheckType ==
    ASSUME NEW c, NEW name \in Faults, Check(c, name)
    PROVE  fault' \in Faults \cup {"none"}
    BY DEF Check

LEMMA IdleType == Idle \in Job
    BY BlockFacts, TreeAssumption DEF Idle, Job, Steps, Callers

\* Where control goes after a method is a job again.
LEMMA ReturnType ==
    ASSUME TypeOK, NEW from \in Callers
    PROVE  Return(from) \in Job /\ Throw(from) \in Job
    BY TreeAssumption, ZenonT(60) DEF TypeOK, Return, Throw, Idle, Job, Steps, Callers

\* Two branches meet in a block that belongs to both.
LEMMA BranchFrom ==
    ASSUME NEW a \in Blocks, NEW b \in Blocks
    PROVE  /\ branch_from(a, b) \in SUBSET Blocks
           /\ branch_size(a, b) \in Nat
<1>1. branch_from(a, b) \in SUBSET Blocks
    BY BlockFacts DEF branch_from
<1>2. PICK m \in Anc[a] \cap Anc[b] : branch_size(a, b) = Num[a] - Num[m]
    <2>1. Anc[a] \cap Anc[b] \in SUBSET Blocks /\ Anc[a] \cap Anc[b] # {}
        BY BlockFacts, GenesisIn
    <2> QED
        BY <2>1, HighestIn DEF branch_size
<1>3. Num[a] \in Nat /\ Num[m] \in Nat /\ Num[m] <= Num[a]
    BY BlockFacts, AncAssumption
<1> QED
    BY <1>1, <1>2, <1>3

\* maybe_switch_forks starts one of its loops, or nothing.
LEMMA SwitchType ==
    ASSUME TypeOK, NEW new_head \in Blocks, NEW from \in Callers
    PROVE  maybe_switch_forks(new_head, from) \in Job
<1>1. head \in Blocks /\ job \in Job
    BY DEF TypeOK
<1>2. /\ branch_from(new_head, head) \in SUBSET Blocks
      /\ branch_from(head, new_head) \in SUBSET Blocks
      /\ branch_size(head, new_head) \in Nat
    BY <1>1, BranchFrom
<1>3. Return(from) \in Job
    BY ReturnType
<1> QED
    BY <1>1, <1>2, <1>3, ZenonT(60) DEF maybe_switch_forks, Job, Steps

LEMMA RecapturedType ==
    ASSUME NEW T \in SUBSET Trx
    PROVE  Recaptured(T) \in SUBSET Trx
    BY DEF Recaptured

\* The part of TypeOK that apply_block, pop_block and apply_fails determine.
BaseType ==
    /\ fork_db \in ForkDb
    /\ head \in Blocks
    /\ db \in Seq(Blocks)
    /\ reversible \subseteq Blocks
    /\ unapplied \subseteq Trx
    /\ read_mode \in Modes
    /\ budget \in [crashes : Nat, reopens : Nat]

LEMMA ApplyBlockType ==
    ASSUME TypeOK, NEW b \in Blocks, NEW f \in ForkDb, NEW store \in BOOLEAN,
           apply_block(b, f, store)
    PROVE  BaseType' /\ pending' = pending
    BY DEF TypeOK, BaseType, apply_block

LEMMA UndoneType ==
    ASSUME TypeOK
    PROVE  Undone \in Seq(Blocks)
    BY DEF TypeOK, Undone

LEMMA PopBlockType ==
    ASSUME TypeOK, pop_block
    PROVE  BaseType' /\ UNCHANGED <<committed, blog, pending, metas>>
<1>1. head \in Blocks /\ Prev[head] \in Blocks /\ TrxOf[head] \in SUBSET Trx
    BY BlockFacts DEF TypeOK
<1>2. Recaptured(IF head \in metas THEN TrxOf[head] ELSE {}) \in SUBSET Trx
    BY <1>1, RecapturedType
<1>3. Undone \in Seq(Blocks)
    BY UndoneType
<1> QED
    BY <1>1, <1>2, <1>3 DEF TypeOK, BaseType, pop_block

LEMMA ApplyFailsType ==
    ASSUME TypeOK, NEW b \in Blocks, apply_fails(b), fork_db' \in ForkDb
    PROVE  BaseType' /\ UNCHANGED <<blog, metas>>
<1> DEFINE New == {t \in TrxOf[b] : \A i \in 1 .. Len(db) : t \notin TrxOf[db[i]]}
<1>0. PICK done \in SUBSET New : \E failed \in SUBSET (TrxOf[b] \ done) :
          unapplied' = (unapplied \ failed) \cup Recaptured(done)
    BY ZenonT(60) DEF apply_fails
<1>1. /\ done \in SUBSET TrxOf[b]
      /\ \E failed : unapplied' = (unapplied \ failed) \cup Recaptured(done)
    BY <1>0, ZenonT(60)
<1>2. Recaptured(done) \in SUBSET Trx
    BY <1>1, BlockFacts, RecapturedType
<1>3. unapplied' \subseteq Trx
    BY <1>1, <1>2 DEF TypeOK
<1> QED
    BY <1>3 DEF TypeOK, BaseType, apply_fails

\* CheckApply leaves `fault` one of its values.
LEMMA CheckApplyType ==
    ASSUME NEW b, NEW marks, CheckApply(b, marks)
    PROVE  fault' \in Faults \cup {"none"}
    BY DEF CheckApply, Check, Faults

\* What is stored last is a block.
LEMMA StoredType ==
    ASSUME TypeOK, blog # <<>>, NEW rev \in SUBSET Blocks
    PROVE  LogHead \in Blocks /\ Stored(rev) \in Blocks
<1>1. LogHead \in Blocks
    BY DEF TypeOK, LogHead
<1>2. rev # {} => Highest(rev) \in Blocks
    BY HighestIn
<1> QED
    BY <1>1, <1>2 DEF Stored

LEMMA AfterChecksType ==
    ASSUME TypeOK, blog # <<>>, NEW rev \in SUBSET Blocks, NEW h \in Blocks
    PROVE  AfterChecks(h, rev) \in Job
<1>1. Stored(rev) \in Blocks
    BY StoredType
<1> QED
    BY <1>1, IdleType, ZenonT(60) DEF AfterChecks, Job, Steps, Callers
-----------------------------------------------------------------------------
\* The log always has the genesis block: its head exists.
TypeInv == TypeOK /\ blog # <<>>

\* No transaction that is pushed leaves the types.
LEMMA PendingTypesOfTrx ==
    ASSUME TypeInv, NEW t \in Trx, push_transaction(t) \/ drop_transaction(t)
    PROVE  TypeInv'
<1>1. Recaptured({t}) \in SUBSET Trx
    BY RecapturedType
<1> QED
    BY <1>1, ZenonT(60) DEF TypeInv, TypeOK, push_transaction, drop_transaction, chainVars

\* No operation that starts or ends a pending block leaves the types.
LEMMA PendingTypesOfBlock ==
    ASSUME TypeInv, NEW b \in Blocks,
           start_block \/ abort_block \/ commit_block(b) \/ push_block(b)
    PROVE  TypeInv'
<1> USE DEF TypeInv
<1>r. Recaptured(pending.trxs) \in SUBSET Trx
    BY RecapturedType DEF TypeOK
<1>a. add(fork_db, b) \in ForkDb /\ pending_head(add(fork_db, b)) \in Blocks
    BY AddType, PendingHeadType DEF TypeOK
<1>1. CASE start_block
    <2>1. fault' \in Faults \cup {"none"}
        BY <1>1, CheckType, ZenonT(60) DEF start_block, Faults
    <2> QED
        BY <1>1, <2>1 DEF TypeOK, start_block, chainVars
<1>2. CASE abort_block
    BY <1>2, <1>r DEF TypeOK, abort_block, NoPending, chainVars
<1>3. CASE commit_block(b)
    <2>1. mark_valid(add(fork_db, b), b) \in ForkDb
        BY <1>a, MarkValidType
    <2>2. fault' \in Faults \cup {"none"}
        BY <1>3, ZenonT(60) DEF commit_block, Check, Faults
    <2>3. [Idle EXCEPT !.pc = "lib", !.from = "commit"] \in Job
        BY IdleType, ZenonT(60) DEF Job, Steps, Callers
    <2>4. mark_valid(add(fork_db, b), b).head \in Blocks
        BY <2>1 DEF ForkDb
    <2> QED
        BY <1>3, <2>1, <2>2, <2>3, <2>4, ZenonT(60) DEF TypeOK, commit_block
<1>4. CASE push_block(b)
    <2>1. fault' \in Faults \cup {"none"}
        BY <1>4, ZenonT(60) DEF push_block, Check, Faults, TypeOK
    <2>2. [Idle EXCEPT !.pc = "lib"] \in Job
        BY IdleType DEF Job, Steps
    <2>3. maybe_switch_forks(pending_head(add(fork_db, b)), "push") \in Job
        BY <1>a, SwitchType DEF Callers
    <2>4. job' \in Job
        BY <1>4, <2>2, <2>3 DEF push_block
    <2> QED
        BY <1>4, <1>a, <1>r, <2>1, <2>4 DEF TypeOK, push_block, NoPending
<1> QED
    BY <1>1, <1>2, <1>3, <1>4

\* No step of maybe_switch_forks leaves the types.
LEMMA SwitchTypes ==
    ASSUME TypeInv,
           Extend \/ ExtendFails \/ PopOld \/ Popped \/ ApplyNew \/ Switched
             \/ ApplyNewFails \/ Unwind \/ Unwound \/ Restore \/ Restored
    PROVE  TypeInv'
<1> USE DEF TypeInv
<1>j. /\ job \in Job /\ job.from \in Callers
      /\ job.first \in SUBSET Blocks /\ job.second \in SUBSET Blocks
      /\ fork_db \in ForkDb
    BY DEF TypeOK, Job
<1>t. Throw(job.from) \in Job
    BY <1>j, ReturnType
<1>l. /\ job.first # {} => Lowest(job.first) \in Blocks
      /\ job.second # {} => Lowest(job.second) \in Blocks
    BY <1>j, LowestIn
<1>1. CASE Extend
    <2>1. PICK b \in job.first :
              /\ CheckApply(b, TRUE)
              /\ apply_block(b, mark_valid(fork_db, b), TRUE)
              /\ job' = [job EXCEPT !.pc = "lib", !.first = {}]
              /\ UNCHANGED <<committed, blog, metas>>
        BY <1>1, ZenonT(60) DEF Extend
    <2>2. b \in Blocks /\ mark_valid(fork_db, b) \in ForkDb
        BY <1>j, MarkValidType
    <2>3. BaseType' /\ pending' = pending
        BY <2>1, <2>2, ApplyBlockType, ZenonT(60)
    <2>4. fault' \in Faults \cup {"none"}
        BY <2>1, CheckApplyType, ZenonT(60)
    <2>5. job' \in Job
        BY <2>1, <1>j, ZenonT(60) DEF Job, Steps
    <2> QED
        BY <2>1, <2>3, <2>4, <2>5 DEF TypeOK, BaseType
<1>2. CASE ExtendFails
    <2>1. PICK b \in job.first :
              /\ apply_fails(b)
              /\ fork_db' = remove(fork_db, b)
              /\ Check(CanRemove(fork_db, b), "remove")
              /\ job' = Throw(job.from)
              /\ UNCHANGED <<committed, pending>>
        BY <1>2 DEF ExtendFails
    <2>2. b \in Blocks /\ remove(fork_db, b) \in ForkDb
        BY <1>j, RemoveType
    <2>3. BaseType' /\ UNCHANGED <<blog, metas>>
        BY <2>1, <2>2, ApplyFailsType
    <2>4. fault' \in Faults \cup {"none"}
        BY <2>1 DEF Check, Faults
    <2> QED
        BY <2>1, <2>3, <2>4, <1>t DEF TypeOK, BaseType
<1>3. CASE PopOld
    <2>1. BaseType' /\ UNCHANGED <<committed, blog, pending, metas>>
        BY <1>3, PopBlockType DEF PopOld
    <2>2. fault' \in Faults \cup {"none"}
        BY <1>3 DEF PopOld, Check, Faults
    <2>3. job' \in Job
        BY <1>3, <1>j DEF PopOld, Job
    <2> QED
        BY <2>1, <2>2, <2>3 DEF TypeOK, BaseType
<1>4. CASE Popped
    <2>1. fault' \in Faults \cup {"none"}
        BY <1>4, ZenonT(60) DEF Popped, Check, Faults
    <2>2. job' \in Job
        BY <1>4, <1>j, ZenonT(60) DEF Popped, Job, Steps
    <2> QED
        BY <1>4, <2>1, <2>2, ZenonT(60) DEF Popped, TypeOK, chainVars, trxVars
<1>5. CASE ApplyNew
    <2>1. Lowest(job.first) \in Blocks /\ mark_valid(fork_db, Lowest(job.first)) \in ForkDb
        BY <1>5, <1>j, <1>l, MarkValidType DEF ApplyNew
    <2>2. BaseType' /\ pending' = pending
        BY <1>5, <2>1, ApplyBlockType, ZenonT(60) DEF ApplyNew
    <2>3. fault' \in Faults \cup {"none"}
        BY <1>5, CheckApplyType, ZenonT(60) DEF ApplyNew
    <2>4. job' \in Job
        <3>1. job' = [job EXCEPT !.first = @ \ {Lowest(job.first)}, !.n = @ + 1]
            BY <1>5 DEF ApplyNew
        <3>2. job.first \ {Lowest(job.first)} \in SUBSET Blocks /\ job.n + 1 \in Nat
            BY <1>j DEF Job
        <3> QED
            BY <1>j, <3>1, <3>2, ZenonT(60) DEF Job
    <2> QED
        BY <1>5, <2>2, <2>3, <2>4 DEF ApplyNew, TypeOK, BaseType
<1>6. CASE Switched
    <2>1. job' \in Job
        BY <1>6, <1>j, ZenonT(60) DEF Switched, Job, Steps
    <2> QED
        BY <1>6, <2>1 DEF Switched, TypeOK, chainVars, trxVars
<1>7. CASE ApplyNewFails
    <2>1. Lowest(job.first) \in Blocks /\ remove(fork_db, Lowest(job.first)) \in ForkDb
        BY <1>7, <1>j, <1>l, RemoveType DEF ApplyNewFails
    <2>2. BaseType' /\ UNCHANGED <<blog, metas>>
        BY <1>7, <2>1, ApplyFailsType DEF ApplyNewFails
    <2>3. fault' \in Faults \cup {"none"}
        BY <1>7 DEF ApplyNewFails, Check, Faults
    <2>4. job' \in Job
        BY <1>7, <1>j, ZenonT(60) DEF ApplyNewFails, Job, Steps
    <2> QED
        BY <1>7, <2>2, <2>3, <2>4 DEF ApplyNewFails, TypeOK, BaseType
<1>8. CASE Unwind
    <2>1. BaseType' /\ UNCHANGED <<committed, blog, pending, metas>>
        BY <1>8, PopBlockType DEF Unwind
    <2>2. fault' \in Faults \cup {"none"}
        BY <1>8 DEF Unwind, Check, Faults
    <2>3. job' \in Job
        BY <1>8, <1>j DEF Unwind, Job
    <2> QED
        BY <2>1, <2>2, <2>3 DEF TypeOK, BaseType
<1>9. CASE Unwound
    <2>1. fault' \in Faults \cup {"none"}
        BY <1>9, ZenonT(60) DEF Unwound, Check, Faults
    <2>2. job' \in Job
        BY <1>9, <1>j, ZenonT(60) DEF Unwound, Job, Steps
    <2> QED
        BY <1>9, <2>1, <2>2, ZenonT(60) DEF Unwound, TypeOK, chainVars, trxVars
<1>10. CASE Restore
    <2>1. Lowest(job.second) \in Blocks
        BY <1>10, <1>l DEF Restore
    <2>2. BaseType' /\ pending' = pending
        BY <1>10, <1>j, <2>1, ApplyBlockType, ZenonT(60) DEF Restore
    <2>3. fault' \in Faults \cup {"none"}
        BY <1>10, CheckApplyType, ZenonT(60) DEF Restore, Faults
    <2>4. job' \in Job
        BY <1>10, <1>j DEF Restore, Job
    <2> QED
        BY <1>10, <2>2, <2>3, <2>4 DEF Restore, TypeOK, BaseType
<1>11. CASE Restored
    BY <1>11, <1>t DEF Restored, TypeOK, chainVars, trxVars
<1> QED
    BY <1>1, <1>2, <1>3, <1>4, <1>5, <1>6, <1>7, <1>8, <1>9, <1>10, <1>11
\* No step of log_irreversible leaves the types.
LEMMA LogTypes ==
    ASSUME TypeInv,
           LogBegin \/ LogAppend \/ LogTrim \/ LogEnd \/ LogApplyFails \/ LogAppendFails
    PROVE  TypeInv'
<1> USE DEF TypeInv
<1>j. /\ job \in Job /\ job.from \in Callers /\ job.first \in SUBSET Blocks
      /\ fork_db \in ForkDb /\ head \in Blocks /\ db \in Seq(Blocks)
      /\ blog \in Seq(Blocks) /\ LogHead \in Blocks
    BY StoredType, ZenonT(60) DEF TypeOK, Job
<1>t. Throw(job.from) \in Job /\ Return(job.from) \in Job
    BY <1>j, ReturnType
<1>l. job.first # {} => Lowest(job.first) \in Blocks
    BY <1>j, LowestIn
<1>r. RootTo(fork_db, LogHead) \in ForkDb
    BY <1>j, RootToType
<1>c. ASSUME NEW b \in Blocks, Commit(b)
      PROVE  committed' \in Nat
    BY <1>c, BlockFacts DEF Commit, TypeOK
<1>1. CASE LogBegin
    <2> DEFINE h == IF Irreversible THEN pending_head(fork_db) ELSE fork_db.head
    <2>1. h \in Blocks
        BY <1>j, PendingHeadType DEF ForkDb
    <2>2. fetch_branch(fork_db, h, Lib[h]) \in SUBSET Blocks
        BY <2>1, BlockFacts DEF fetch_branch
    <2>3. fault' \in Faults \cup {"none"}
        BY <1>1 DEF LogBegin, Check, Faults
    <2>4. (IF Lib[h] <= Len(blog) THEN {} ELSE fetch_branch(fork_db, h, Lib[h])) \in SUBSET Blocks
        BY <2>2
    <2>5. job' = [job EXCEPT !.pc = "log",
                             !.first = IF Lib[h] <= Len(blog) THEN {}
                                       ELSE fetch_branch(fork_db, h, Lib[h])]
        BY <1>1 DEF LogBegin
    <2>6. job' \in Job
        <3> HIDE DEF h
        <3> QED
            BY <1>j, <2>4, <2>5, ZenonT(60) DEF Job, Steps
    <2> QED
        BY <1>1, <2>3, <2>6 DEF LogBegin, TypeOK, chainVars, trxVars
<1>2. CASE LogAppend
    <2>1. Lowest(job.first) \in Blocks
        BY <1>2, <1>l DEF LogAppend
    <2>2. committed' \in Nat /\ blog' \in Seq(Blocks) /\ blog' # <<>> /\ metas' = metas
        BY <1>2, <2>1, <1>j, <1>c DEF LogAppend
    <2>3. job' \in Job
        BY <1>2, <1>j, ZenonT(60) DEF LogAppend, Job, Steps
    <2>4. BaseType' /\ pending' = pending /\ fault' \in Faults \cup {"none"}
        <3>1. CASE Irreversible
            <4>1. mark_valid(fork_db, Lowest(job.first)) \in ForkDb
                BY <1>j, <2>1, MarkValidType
            <4>2. apply_block(Lowest(job.first), mark_valid(fork_db, Lowest(job.first)), FALSE)
                BY <1>2, <3>1, ZenonT(60) DEF LogAppend
            <4>3. fault' \in Faults \cup {"none"}
                BY <1>2, <3>1, ZenonT(60) DEF LogAppend, Check, Faults
            <4> QED
                BY <2>1, <4>1, <4>2, <4>3, ApplyBlockType, ZenonT(60)
        <3>2. CASE ~Irreversible
            BY <1>2, <3>2 DEF LogAppend, TypeOK, BaseType
        <3> QED
            BY <3>1, <3>2
    <2> QED
        BY <2>2, <2>3, <2>4 DEF TypeOK, BaseType
<1>3. CASE LogTrim
    <2>1. job' \in Job
        BY <1>3, <1>j, ZenonT(60) DEF LogTrim, Job, Steps
    <2> QED
        BY <1>3, <2>1 DEF LogTrim, TypeOK, trxVars
<1>4. CASE LogEnd
    <2>1. fault' \in Faults \cup {"none"}
        BY <1>4 DEF LogEnd, Check, Faults
    <2>2. db' \in Seq(Blocks)
        BY <1>4, <1>j DEF LogEnd
    <2> QED
        BY <1>4, <1>t, <1>r, <2>1, <2>2 DEF LogEnd, TypeOK, NoPending
<1>5. CASE LogApplyFails
    <2>1. Lowest(job.first) \in Blocks
        BY <1>5, <1>l DEF LogApplyFails
    <2>2. BaseType' /\ UNCHANGED <<blog, metas>>
        BY <1>5, <2>1, <1>r, ApplyFailsType DEF LogApplyFails
    <2>3. fault' \in Faults \cup {"none"}
        BY <1>5 DEF LogApplyFails, Check, Faults
    <2> QED
        BY <1>5, <1>t, <2>2, <2>3 DEF LogApplyFails, TypeOK, BaseType
<1>6. CASE LogAppendFails
    <2> DEFINE b == Lowest(job.first)
               f == IF Irreversible THEN mark_valid(fork_db, b) ELSE fork_db
    <2>1. b \in Blocks
        BY <1>6, <1>l DEF LogAppendFails
    <2>2. f \in ForkDb
        BY <1>j, <2>1, MarkValidType
    <2>3. /\ head' = IF Irreversible THEN b ELSE head
          /\ db' = IF Irreversible THEN Append(db, b) ELSE db
          /\ fork_db' = RootTo(f, b)
          /\ Check(CanRootTo(f, b), "advance")
          /\ Commit(b)
          /\ unapplied' = unapplied \cup Recaptured(pending.trxs)
          /\ pending' = NoPending
          /\ job' = Throw(job.from)
          /\ UNCHANGED <<reversible, blog, metas, read_mode, budget>>
        BY <1>6 DEF LogAppendFails
    <2> HIDE DEF b, f
    <2>4. fork_db' \in ForkDb /\ committed' \in Nat
        BY <2>1, <2>2, <2>3, RootToType, <1>c
    <2>5. fault' \in Faults \cup {"none"}
        BY <2>3 DEF Check, Faults
    <2>6. Recaptured(pending.trxs) \in SUBSET Trx
        BY RecapturedType DEF TypeOK
    <2>7. head' \in Blocks /\ db' \in Seq(Blocks)
        BY <1>j, <2>1, <2>3
    <2> QED
        BY <1>t, <2>3, <2>4, <2>5, <2>6, <2>7 DEF TypeOK, NoPending
<1> QED
    BY <1>1, <1>2, <1>3, <1>4, <1>5, <1>6
\* No step of init, of replay, and no restart leaves the types.
LEMMA InitTypes ==
    ASSUME TypeInv, NEW m \in Modes,
           Crash(m) \/ Reopen(m) \/ ReplayLog \/ ReplayLogDone \/ ReplayReversible
             \/ ReplayDone \/ InitBest \/ BestBranch
    PROVE  TypeInv'
<1> USE DEF TypeInv
<1>j. /\ job \in Job /\ fork_db \in ForkDb /\ head \in Blocks /\ db \in Seq(Blocks)
      /\ blog \in Seq(Blocks) /\ reversible \in SUBSET Blocks /\ committed \in Nat
    BY DEF TypeOK
<1>b. /\ Genesis \in Blocks /\ Num[head] \in Nat
      /\ budget \in [crashes : Nat, reopens : Nat]
    BY <1>j, BlockFacts DEF TypeOK
<1>u. Unlogged(m) \in SUBSET Blocks
    BY <1>j DEF Unlogged
<1>1. CASE Crash(m)
    <2>1. AfterChecks(Genesis, Unlogged(m)) \in Job
        BY <1>b, <1>u, AfterChecksType
    <2>2. fault' \in Faults \cup {"none"}
        BY <1>1 DEF Crash, Check, Faults
    <2>3. budget' \in [crashes : Nat, reopens : Nat]
        BY <1>1, <1>b DEF Crash
    <2>4. reset(Genesis) \in ForkDb /\ <<Genesis>> \in Seq(Blocks)
        BY <1>b, ResetType
    <2> QED
        BY <1>1, <1>b, <1>u, <2>1, <2>2, <2>3, <2>4 DEF Crash, TypeOK, NoPending
<1>2. CASE Reopen(m)
    <2> DEFINE f == IF m = "IRREVERSIBLE" /\ fork_db.head # fork_db.root
                    THEN rollback_head_to_root(fork_db) ELSE fork_db
               top == IF Num[f.head] > committed THEN Num[f.head] ELSE committed
    <2>1. f \in ForkDb /\ f.head \in Blocks
        BY <1>j, RollbackType DEF ForkDb
    <2>2. top \in Nat
        BY <1>j, <2>1, BlockFacts
    <2>3. /\ budget' = [budget EXCEPT !.reopens = @ - 1] /\ budget.reopens > 0
          /\ read_mode' = m
          /\ fork_db' = f
          /\ head' = f.head
          /\ db' = IF Len(db) > top THEN SubSeq(db, 1, top) ELSE db
          /\ reversible' = Unlogged(m)
          /\ fault' = ReopenFault(f, Unlogged(m))
          /\ job' = AfterChecks(f.head, Unlogged(m))
          /\ pending' = NoPending
          /\ unapplied' = {} /\ metas' = fork_db.index
          /\ UNCHANGED <<committed, blog>>
        BY <1>2 DEF Reopen
    <2> HIDE DEF f, top
    <2>4. job' \in Job
        BY <1>u, <2>1, <2>3, AfterChecksType
    <2>5. fault' \in Faults \cup {"none"}
        BY <2>3 DEF ReopenFault, Faults
    <2>6. budget' \in [crashes : Nat, reopens : Nat]
        BY <2>3, <1>b
    <2>7. db' \in Seq(Blocks)
        BY <1>j, <2>2, <2>3
    <2>8. metas' \subseteq Blocks
        BY <1>j, <2>3 DEF ForkDb
    <2> QED
        BY <1>u, <2>1, <2>3, <2>4, <2>5, <2>6, <2>7, <2>8 DEF TypeOK, NoPending
<1>3. CASE ReplayLog
    <2>1. blog[Num[head] + 1] \in Blocks
        BY <1>3, <1>j, <1>b DEF ReplayLog
    <2>2. BaseType' /\ pending' = pending
        BY <1>3, <1>j, <2>1, ApplyBlockType, ZenonT(60) DEF ReplayLog
    <2>3. committed' \in Nat
        BY <1>3, <1>j, <2>1, BlockFacts DEF ReplayLog, Commit
    <2>4. fault' \in Faults \cup {"none"}
        BY <1>3 DEF ReplayLog, Check, Faults
    <2> QED
        BY <1>3, <2>2, <2>3, <2>4 DEF ReplayLog, TypeOK, BaseType
<1>4. CASE ReplayLogDone
    <2>1. /\ reset(head) \in ForkDb
          /\ mark_valid(fork_db, head) \in ForkDb
        BY <1>j, ResetType, MarkValidType
    <2>2. advance_root(mark_valid(fork_db, head), head) \in ForkDb
        BY <1>j, <2>1, RootToType
    <2>3. fork_db' \in ForkDb
        BY <1>4, <1>j, <2>1, <2>2 DEF ReplayLogDone
    <2>4. fault' \in Faults \cup {"none"}
        BY <1>4, ZenonT(60) DEF ReplayLogDone, Check, Faults, TypeOK
    <2>5. job' \in Job
        BY <1>4, <1>j, ZenonT(60) DEF ReplayLogDone, Job, Steps
    <2> QED
        BY <1>4, <2>3, <2>4, <2>5 DEF ReplayLogDone, TypeOK, trxVars
<1>5. CASE ReplayReversible
    <2>1. PICK b \in reversible :
              /\ apply_block(b, mark_valid(IF b \in fork_db.index THEN fork_db
                                           ELSE add(fork_db, b), b), FALSE)
              /\ fault' \in Faults \cup {"none"}
              /\ metas' = metas \ {b}
              /\ job' = [job EXCEPT !.pc = "lib"]
              /\ UNCHANGED <<committed, blog>>
        BY <1>5, ZenonT(60) DEF ReplayReversible, Check, Faults
    <2>2. (IF b \in fork_db.index THEN fork_db ELSE add(fork_db, b)) \in ForkDb
        BY <1>j, AddType
    <2>3. mark_valid(IF b \in fork_db.index THEN fork_db ELSE add(fork_db, b), b) \in ForkDb
        BY <1>j, <2>2, MarkValidType
    <2>4. BaseType' /\ pending' = pending
        BY <1>j, <2>1, <2>3, ApplyBlockType, ZenonT(60)
    <2>5. job' \in Job
        BY <2>1, <1>j DEF Job, Steps
    <2> QED
        BY <2>1, <2>4, <2>5 DEF TypeOK, BaseType
<1>6. CASE ReplayDone
    <2>1. job' \in Job
        BY <1>6, <1>j DEF ReplayDone, Job, Steps
    <2> QED
        BY <1>6, <2>1 DEF ReplayDone, TypeOK, chainVars, trxVars
<1>i. [Idle EXCEPT !.pc = "loop", !.from = "best"] \in Job
    BY IdleType, ZenonT(60) DEF Job, Steps, Callers
<1>7. CASE InitBest
    <2>1. job' \in Job
        BY <1>7, <1>i, IdleType DEF InitBest
    <2> QED
        BY <1>7, <2>1 DEF InitBest, TypeOK, chainVars, trxVars
<1>8. CASE BestBranch
    <2>1. maybe_switch_forks(pending_head(fork_db), "best") \in Job
        BY <1>j, PendingHeadType, SwitchType DEF Callers
    <2>2. job' \in Job
        BY <1>8, <2>1, IdleType DEF BestBranch
    <2>3. fault' \in Faults \cup {"none"}
        BY <1>8, ZenonT(60) DEF BestBranch, Check, Faults, TypeOK
    <2> QED
        BY <1>8, <2>2, <2>3 DEF BestBranch, TypeOK, chainVars, trxVars
<1> QED
    BY <1>1, <1>2, <1>3, <1>4, <1>5, <1>6, <1>7, <1>8

LEMMA TypeInit == Init => TypeInv
<1> SUFFICES ASSUME Init
             PROVE  TypeInv
    OBVIOUS
<1>1. Genesis \in Blocks
    BY TreeAssumption
<1>2. fork_db \in ForkDb /\ job \in Job
    BY <1>1, ResetType, IdleType DEF Init
<1>3. db \in Seq(Blocks) /\ blog \in Seq(Blocks) /\ blog # <<>>
    BY <1>1 DEF Init
<1>4. pending \in [on : BOOLEAN, trxs : SUBSET Trx]
    BY DEF Init, NoPending
<1>5. budget \in [crashes : Nat, reopens : Nat]
    BY ControllerAssumption DEF Init
<1> QED
    BY <1>1, <1>2, <1>3, <1>4, <1>5 DEF Init, TypeInv, TypeOK

LEMMA TypeStep == TypeInv /\ [Next]_vars => TypeInv'
<1> SUFFICES ASSUME TypeInv, [Next]_vars
             PROVE  TypeInv'
    OBVIOUS
<1>1. CASE Step
    <2>1. PICK m \in Modes : TRUE
        BY ControllerAssumption, ZenonT(60)
    <2> QED
        BY <1>1, <2>1, SwitchTypes, LogTypes, InitTypes DEF Step
<1>2. CASE start_block \/ abort_block \/ \E b \in Blocks : commit_block(b) \/ push_block(b)
    <2>1. CASE start_block \/ abort_block
        <3>1. Genesis \in Blocks
            BY TreeAssumption
        <3> QED
            BY <2>1, <3>1, PendingTypesOfBlock, ZenonT(60)
    <2>2. CASE \E b \in Blocks : commit_block(b) \/ push_block(b)
        <3>1. PICK b \in Blocks : commit_block(b) \/ push_block(b)
            BY <2>2
        <3> QED
            BY <3>1, PendingTypesOfBlock, ZenonT(60)
    <2> QED
        BY <1>2, <2>1, <2>2
<1>3. CASE \E t \in Trx : push_transaction(t) \/ drop_transaction(t)
    BY <1>3, PendingTypesOfTrx
<1>4. CASE \E m \in Modes : Crash(m) \/ Reopen(m)
    BY <1>4, InitTypes
<1>5. CASE UNCHANGED vars
    BY <1>5 DEF TypeInv, TypeOK, vars, chainVars, trxVars
<1> QED
    BY <1>1, <1>2, <1>3, <1>4, <1>5 DEF Next

\* Every variable of the controller keeps its type: in particular the counters
\* of the fork switch never run below zero, whatever fails in between.
THEOREM ControllerTypeCorrect == Spec => []TypeOK
<1>1. TypeInv => TypeOK
    BY DEF TypeInv
<1> QED
    BY <1>1, TypeInit, TypeStep, PTL DEF Spec
-----------------------------------------------------------------------------
(***************************************************************************)
(* The block log is one growing chain.                                     *)
(*                                                                         *)
(* That the next block appended is a child of the last one rests on two    *)
(* facts.  The fork database is linked: every indexed block has its parent *)
(* in the index or at the root, so that the branch log_irreversible walks  *)
(* ends at the root, which it asserts to be the head of the log.  And what *)
(* is left of that branch always grows on the head of the log.             *)
(***************************************************************************)

ForkLinked(f) == \A b \in f.index : b # Genesis /\ Prev[b] \in Linked(f)

GrowsOn(S, h) ==
    /\ \A b \in S : b # Genesis /\ Prev[b] \in S \cup {h}
    /\ \A b, c \in S : Num[b] = Num[c] => b = c

LogInv ==
    Up => /\ ForkLinked(fork_db)
          /\ job.pc = "log" => GrowsOn(job.first, LogHead)
          /\ job.pc = "trim" => GrowsOn(job.first \ {LogHead}, LogHead)

LEMMA ResetLinked ==
    ASSUME NEW b \in Blocks
    PROVE  ForkLinked(reset(b))
    BY DEF ForkLinked, reset

LEMMA AddLinked ==
    ASSUME NEW f \in ForkDb, ForkLinked(f), NEW b \in Blocks, b # Genesis,
           Prev[b] \in Linked(f)
    PROVE  ForkLinked(add(f, b))
    BY DEF ForkLinked, add, Linked, ForkDb

LEMMA MarkValidLinked ==
    ASSUME NEW f \in ForkDb, ForkLinked(f), NEW b \in Blocks
    PROVE  ForkLinked(mark_valid(f, b))
<1>1. mark_valid(f, b).index = f.index /\ mark_valid(f, b).root = f.root
    BY DEF mark_valid, ForkDb
<1> QED
    BY <1>1 DEF ForkLinked, Linked

LEMMA RollbackLinked ==
    ASSUME NEW f \in ForkDb, ForkLinked(f)
    PROVE  ForkLinked(rollback_head_to_root(f))
    BY DEF ForkLinked, Linked, rollback_head_to_root, ForkDb

\* remove takes a block's descendants with it, so that no orphan stays.
LEMMA RemoveLinked ==
    ASSUME NEW f \in ForkDb, ForkLinked(f), NEW b \in Blocks
    PROVE  ForkLinked(remove(f, b))
<1>1. remove(f, b).index = f.index \ Subtree(f, b) /\ remove(f, b).root = f.root
    BY DEF remove, ForkDb
<1>2. SUFFICES ASSUME NEW c \in f.index \ Subtree(f, b)
               PROVE  c # Genesis /\ Prev[c] \in (f.index \ Subtree(f, b)) \cup {f.root}
    BY <1>1 DEF ForkLinked, Linked
<1>3. c \in Blocks /\ c # Genesis /\ Prev[c] \in f.index \cup {f.root}
    BY DEF ForkLinked, Linked, ForkDb
<1>4. Anc[c] = Anc[Prev[c]] \cup {c}
    BY <1>3, AncAssumption
<1>5. b \notin Anc[c]
    BY DEF Subtree
<1>6. Prev[c] \notin Subtree(f, b)
    BY <1>4, <1>5 DEF Subtree
<1> QED
    BY <1>3, <1>6

\* advance_root keeps what is built on the new root.
LEMMA AdvanceLinked ==
    ASSUME NEW f \in ForkDb, ForkLinked(f), NEW b \in Blocks, b # f.root, CanAdvance(f, b)
    PROVE  ForkLinked(advance_root(f, b))
<1>1. advance_root(f, b).index = Subtree(f, b) \ {b} /\ advance_root(f, b).root = b
    BY DEF advance_root, ForkDb
<1>2. SUFFICES ASSUME NEW c \in Subtree(f, b) \ {b}
               PROVE  c # Genesis /\ Prev[c] \in Subtree(f, b) \cup {b}
    BY <1>1 DEF ForkLinked, Linked
<1>3. c \in Blocks /\ c # Genesis /\ Prev[c] \in f.index \cup {f.root} /\ b \in Anc[c]
    BY DEF ForkLinked, Linked, ForkDb, Subtree
<1>4. b \in Anc[Prev[c]]
    BY <1>2, <1>3, AncAssumption
<1>5. Prev[c] # f.root
    <2>1. SUFFICES ASSUME b \in Anc[f.root]
                   PROVE  FALSE
        BY <1>4
    <2>2. f.root \in Blocks /\ f.root \in Anc[b]
        BY DEF CanAdvance, ForkDb
    <2>3. Num[b] <= Num[f.root] /\ Num[f.root] <= Num[b]
        BY <2>1, <2>2, AncAssumption
    <2>4. Num[b] = Num[f.root]
        BY <2>2, <2>3, BlockFacts
    <2>5. b \in Anc[b]
        BY AncAssumption
    <2> QED
        BY <2>2, <2>4, <2>5, AncAssumption
<1> QED
    BY <1>3, <1>4, <1>5 DEF Subtree

LEMMA RootToLinked ==
    ASSUME NEW f \in ForkDb, ForkLinked(f), NEW b \in Blocks, CanRootTo(f, b)
    PROVE  ForkLinked(RootTo(f, b))
    BY AdvanceLinked DEF RootTo, CanRootTo

\* The branch that fetch_branch returns grows on the root.
LEMMA BranchGrows ==
    ASSUME NEW f \in ForkDb, ForkLinked(f), NEW h \in Blocks, NEW trim \in Nat
    PROVE  GrowsOn(fetch_branch(f, h, trim), f.root)
<1> DEFINE S == fetch_branch(f, h, trim)
<1>1. \A b \in S : /\ b \in Anc[h] /\ Num[b] <= trim
                   /\ \A c \in Anc[h] : Num[c] >= Num[b] => c \in f.index
    BY DEF fetch_branch
<1>2. Anc[h] \in SUBSET Blocks
    BY BlockFacts
<1>3. ASSUME NEW b \in S
      PROVE  b # Genesis /\ Prev[b] \in S \cup {f.root}
    <2>1. b \in Blocks /\ b \in Anc[h] /\ b \in f.index /\ Num[b] \in Nat
        <3>1. b \in Blocks /\ b \in Anc[h] /\ Num[b] \in Nat
            BY <1>1, <1>2, BlockFacts
        <3> QED
            BY <3>1, <1>1
    <2>2. b # Genesis /\ Prev[b] \in f.index \cup {f.root} /\ Prev[b] \in Blocks
        BY <2>1, BlockFacts DEF ForkLinked, Linked
    <2>3. Num[b] = Num[Prev[b]] + 1 /\ Num[Prev[b]] \in Nat
        BY <2>1, <2>2, TreeAssumption, BlockFacts
    <2>4. Prev[b] \in Anc[h]
        <3>1. Prev[b] \in Anc[Prev[b]]
            BY <2>2, AncAssumption
        <3>2. Prev[b] \in Anc[b]
            BY <2>1, <2>2, <3>1, AncAssumption
        <3> QED
            BY <2>1, <3>2, AncAssumption
    <2>5. CASE Prev[b] \in f.index
        <3>1. ASSUME NEW c \in Anc[h], Num[c] >= Num[Prev[b]]
              PROVE  c \in f.index
            <4>1. Num[c] \in Nat
                BY <1>2, BlockFacts
            <4>2. CASE Num[c] >= Num[b]
                BY <4>2, <1>1
            <4>3. CASE Num[c] = Num[Prev[b]]
                BY <4>3, <2>4, <2>5, AncAssumption
            <4> QED
                BY <3>1, <4>1, <4>2, <4>3, <2>3, <2>1
        <3>2. Num[Prev[b]] <= trim
            BY <1>1, <2>3
        <3> QED
            BY <2>2, <2>4, <3>1, <3>2 DEF fetch_branch
    <2> QED
        BY <2>2, <2>5
<1>4. \A b, c \in S : Num[b] = Num[c] => b = c
    BY <1>1, AncAssumption
<1> QED
    BY <1>3, <1>4 DEF GrowsOn

\* The block appended next is a child of the head of the log, and what is left
\* of the branch grows on it.
LEMMA LowestGrows ==
    ASSUME NEW S \in SUBSET Blocks, S # {}, NEW h \in Blocks, GrowsOn(S, h)
    PROVE  Prev[Lowest(S)] = h /\ GrowsOn(S \ {Lowest(S)}, Lowest(S))
<1> DEFINE b == Lowest(S)
<1>1. b \in S /\ b \in Blocks /\ \A c \in S : Num[b] <= Num[c]
    BY LowestIn
<1> HIDE DEF b
<1>2. \A c \in S : c \in Blocks /\ c # Genesis /\ Num[c] = Num[Prev[c]] + 1 /\ Num[Prev[c]] \in Nat
    BY TreeAssumption, BlockFacts DEF GrowsOn
<1>3. Prev[b] \notin S
    BY <1>1, <1>2
<1>4. Prev[b] = h
    BY <1>1, <1>3 DEF GrowsOn
<1>5. ASSUME NEW c \in S \ {b}
      PROVE  Prev[c] \in (S \ {b}) \cup {b}
    <2>1. Prev[c] # h
        BY <1>1, <1>2, <1>4 DEF GrowsOn
    <2> QED
        BY <2>1, <1>1 DEF GrowsOn
<1>6. GrowsOn(S \ {b}, b)
    BY <1>5 DEF GrowsOn
<1> QED
    BY <1>4, <1>6 DEF b

\* A method that ends, throws or starts to switch is not in log_irreversible.
LEMMA ElsewhereThanLog ==
    ASSUME TypeOK, NEW from \in Callers, NEW new_head \in Blocks, NEW h, NEW rev
    PROVE  /\ Return(from).pc \notin {"log", "trim"}
           /\ Throw(from).pc \notin {"log", "trim"}
           /\ maybe_switch_forks(new_head, from).pc \notin {"log", "trim"}
           /\ AfterChecks(h, rev).pc \notin {"log", "trim"}
<1>1. /\ Return(from).pc \notin {"log", "trim"}
      /\ Throw(from).pc \notin {"log", "trim"}
    BY DEF Return, Throw, Idle, TypeOK, Job
<1>2. maybe_switch_forks(new_head, from).pc \notin {"log", "trim"}
    BY <1>1 DEF maybe_switch_forks, TypeOK, Job
<1>3. AfterChecks(h, rev).pc \notin {"log", "trim"}
    BY DEF AfterChecks, Idle
<1> QED
    BY <1>1, <1>2, <1>3

\* Outside log_irreversible only the links of the fork database matter.
LEMMA LinkedSuffices ==
    ASSUME fault' = "none" => ForkLinked(fork_db'),
           fault' = "none" => job'.pc \notin {"log", "trim"}
    PROVE  LogInv'
    BY DEF LogInv, Up

LEMMA LogInvPending ==
    ASSUME TypeInv, LogInv, NEW b \in Blocks,
           start_block \/ abort_block \/ commit_block(b) \/ push_block(b)
    PROVE  LogInv' /\ blog' = blog
<1>f. /\ Up /\ ForkLinked(fork_db) /\ fork_db \in ForkDb /\ job \in Job /\ job.pc = "idle"
    BY DEF LogInv, TypeInv, TypeOK, start_block, abort_block, commit_block, push_block
<1>1. CASE start_block \/ abort_block
    <2>1. UNCHANGED <<fork_db, blog, job>>
        BY <1>1 DEF start_block, abort_block, chainVars
    <2> QED
        BY <1>f, <2>1, LinkedSuffices
<1>2. CASE commit_block(b)
    <2>1. b # Genesis /\ Prev[b] \in Linked(fork_db)
        BY <1>2, ControllerAssumption DEF commit_block, CanAdd
    <2>2. add(fork_db, b) \in ForkDb /\ ForkLinked(add(fork_db, b))
        BY <1>f, <2>1, AddType, AddLinked
    <2>3. ForkLinked(mark_valid(add(fork_db, b), b))
        BY <2>2, MarkValidLinked
    <2>4. job'.pc = "lib" /\ fork_db' = mark_valid(add(fork_db, b), b) /\ blog' = blog
        BY <1>2 DEF commit_block, Idle
    <2> QED
        BY <2>3, <2>4, LinkedSuffices
<1>3. CASE push_block(b)
    <2>1. b # Genesis /\ Prev[b] \in Linked(fork_db)
        BY <1>3 DEF push_block, CanAdd
    <2>2. add(fork_db, b) \in ForkDb /\ ForkLinked(add(fork_db, b))
        BY <1>f, <2>1, AddType, AddLinked
    <2>3. pending_head(add(fork_db, b)) \in Blocks
        BY <2>2, PendingHeadType
    <2>4. maybe_switch_forks(pending_head(add(fork_db, b)), "push").pc \notin {"log", "trim"}
        BY <2>3, ElsewhereThanLog DEF TypeInv, Callers
    <2>5. job'.pc \notin {"log", "trim"} /\ fork_db' = add(fork_db, b) /\ blog' = blog
        BY <1>3, <2>4 DEF push_block, Idle
    <2> QED
        BY <2>2, <2>5, LinkedSuffices
<1> QED
    BY <1>1, <1>2, <1>3

LEMMA LogInvSwitch ==
    ASSUME TypeInv, LogInv,
           Extend \/ ExtendFails \/ PopOld \/ Popped \/ ApplyNew \/ Switched
             \/ ApplyNewFails \/ Unwind \/ Unwound \/ Restore \/ Restored
    PROVE  LogInv' /\ blog' = blog
<1>j. /\ job \in Job /\ job.from \in Callers /\ job.first \in SUBSET Blocks
      /\ fork_db \in ForkDb
    BY DEF TypeInv, TypeOK, Job
<1>f. Up /\ ForkLinked(fork_db)
    BY DEF LogInv, Extend, ExtendFails, PopOld, Popped, ApplyNew, Switched,
           ApplyNewFails, Unwind, Unwound, Restore, Restored
<1>t. Throw(job.from).pc \notin {"log", "trim"}
    BY <1>j, TreeAssumption, ElsewhereThanLog, ZenonT(60) DEF TypeInv
<1>1. CASE Extend
    <2>1. PICK b \in job.first : fork_db' = mark_valid(fork_db, b)
        BY <1>1 DEF Extend, apply_block
    <2>2. ForkLinked(fork_db')
        BY <1>j, <1>f, <2>1, MarkValidLinked
    <2>3. job'.pc = "lib" /\ blog' = blog
        BY <1>1, <1>j DEF Extend, Job
    <2> QED
        BY <2>2, <2>3, LinkedSuffices
<1>2. CASE ExtendFails
    <2>1. PICK b \in job.first : fork_db' = remove(fork_db, b)
        BY <1>2 DEF ExtendFails
    <2>2. ForkLinked(fork_db')
        BY <1>j, <1>f, <2>1, RemoveLinked
    <2>3. job' = Throw(job.from) /\ blog' = blog
        BY <1>2 DEF ExtendFails, apply_fails
    <2> QED
        BY <1>t, <2>2, <2>3, LinkedSuffices
<1>3. CASE PopOld \/ Unwind
    <2>1. fork_db' = fork_db /\ blog' = blog /\ job'.pc \in {"pop", "unwind"}
        BY <1>3, <1>j DEF PopOld, Unwind, pop_block, Job
    <2> QED
        BY <1>f, <2>1, LinkedSuffices
<1>4. CASE Popped \/ Switched \/ Unwound
    <2>1. fork_db' = fork_db /\ blog' = blog /\ job'.pc \in {"apply", "lib", "restore"}
        BY <1>4, <1>j DEF Popped, Switched, Unwound, Job, chainVars
    <2> QED
        BY <1>f, <2>1, LinkedSuffices
<1>5. CASE ApplyNew
    <2>1. Lowest(job.first) \in Blocks
        BY <1>5, <1>j, LowestIn DEF ApplyNew
    <2>2. fork_db' = mark_valid(fork_db, Lowest(job.first)) /\ blog' = blog
        BY <1>5 DEF ApplyNew, apply_block
    <2>3. job'.pc = "apply"
        BY <1>5, <1>j DEF ApplyNew, Job
    <2>4. ForkLinked(fork_db')
        BY <1>j, <1>f, <2>1, <2>2, MarkValidLinked
    <2> QED
        BY <2>2, <2>3, <2>4, LinkedSuffices
<1>6. CASE ApplyNewFails
    <2>1. Lowest(job.first) \in Blocks
        BY <1>6, <1>j, LowestIn DEF ApplyNewFails
    <2>2. fork_db' = remove(fork_db, Lowest(job.first)) /\ blog' = blog
        BY <1>6 DEF ApplyNewFails, apply_fails
    <2>3. job'.pc = "unwind"
        BY <1>6, <1>j DEF ApplyNewFails, Job
    <2>4. ForkLinked(fork_db')
        BY <1>j, <1>f, <2>1, <2>2, RemoveLinked
    <2> QED
        BY <2>2, <2>3, <2>4, LinkedSuffices
<1>7. CASE Restore
    <2>1. fork_db' = fork_db /\ blog' = blog /\ job'.pc = "restore"
        BY <1>7, <1>j DEF Restore, apply_block, Job
    <2> QED
        BY <1>f, <2>1, LinkedSuffices
<1>8. CASE Restored
    <2>1. fork_db' = fork_db /\ blog' = blog /\ job' = Throw(job.from)
        BY <1>8 DEF Restored, chainVars
    <2> QED
        BY <1>f, <1>t, <2>1, LinkedSuffices
<1> QED
    BY <1>1, <1>2, <1>3, <1>4, <1>5, <1>6, <1>7, <1>8

\* log_irreversible: only LogAppend touches the log, and appends a child.
LEMMA LogInvLog ==
    ASSUME TypeInv, LogInv,
           LogBegin \/ LogAppend \/ LogTrim \/ LogEnd \/ LogApplyFails \/ LogAppendFails
    PROVE  LogInv' /\ (blog' = blog \/ \E b \in Blocks : Final!Finalise(b))
<1>j. /\ job \in Job /\ job.from \in Callers /\ job.first \in SUBSET Blocks
      /\ fork_db \in ForkDb /\ blog \in Seq(Blocks) /\ blog # <<>> /\ LogHead \in Blocks
    BY StoredType DEF TypeInv, TypeOK, Job
<1>f. Up /\ ForkLinked(fork_db)
    BY ZenonT(60) DEF LogInv, LogBegin, LogAppend, LogTrim, LogEnd, LogApplyFails, LogAppendFails
<1>t. Throw(job.from).pc \notin {"log", "trim"} /\ Return(job.from).pc \notin {"log", "trim"}
    BY <1>j, TreeAssumption, ElsewhereThanLog, ZenonT(60) DEF TypeInv
<1>l. job.first # {} => Lowest(job.first) \in Blocks
    BY <1>j, LowestIn
<1>1. CASE LogBegin
    <2> DEFINE h == IF Irreversible THEN pending_head(fork_db) ELSE fork_db.head
    <2>1. h \in Blocks /\ Lib[h] \in Nat
        BY <1>j, PendingHeadType, BlockFacts DEF ForkDb
    <2>2. /\ job'.pc = "log"
          /\ job'.first = IF Lib[h] <= Len(blog) THEN {}
                          ELSE fetch_branch(fork_db, h, Lib[h])
          /\ fault' = "none" => fork_db.root = LogHead
          /\ UNCHANGED <<fork_db, blog>>
        BY <1>1, <1>j DEF LogBegin, Job, Check, chainVars
    <2> HIDE DEF h
    <2>3. GrowsOn(fetch_branch(fork_db, h, Lib[h]), fork_db.root)
        BY <1>j, <1>f, <2>1, BranchGrows
    <2>4. GrowsOn(job'.first, fork_db.root)
        BY <2>2, <2>3 DEF GrowsOn
    <2>5. LogHead' = LogHead
        BY <2>2 DEF LogHead
    <2>6. fault' = "none" => GrowsOn(job'.first, LogHead')
        BY <2>2, <2>4, <2>5
    <2> QED
        BY <1>f, <2>2, <2>6 DEF LogInv, Up
<1>2. CASE LogAppend
    <2> DEFINE b == Lowest(job.first)
    <2>1. b \in Blocks /\ job.first # {} /\ job.pc = "log"
        BY <1>2, <1>l DEF LogAppend
    <2>2. GrowsOn(job.first, LogHead)
        BY <1>f, <2>1 DEF LogInv
    <2>3. Prev[b] = LogHead /\ GrowsOn(job.first \ {b}, b)
        BY <1>j, <2>1, <2>2, LowestGrows, ZenonT(60)
    <2>4. /\ blog' = Append(blog, b)
          /\ job'.pc = "trim" /\ job'.first = job.first
          /\ fork_db' \in {fork_db, mark_valid(fork_db, b)}
        BY <1>2, <1>j DEF LogAppend, apply_block, Job
    <2> HIDE DEF b
    <2>5. LogHead' = b
        BY <1>j, <2>1, <2>4 DEF LogHead
    <2>6. ForkLinked(fork_db')
        BY <1>j, <1>f, <2>1, <2>4, MarkValidLinked
    <2>7. GrowsOn((job.first \ {LogHead})', LogHead')
        BY <2>3, <2>4, <2>5
    <2>8. Final!Finalise(b)
        BY <2>3, <2>4 DEF Final!Finalise, LogHead
    <2> QED
        BY <2>1, <2>4, <2>6, <2>7, <2>8 DEF LogInv
<1>3. CASE LogTrim
    <2>1. /\ job'.pc = "log" /\ job'.first = job.first \ {LogHead}
          /\ job.pc = "trim" /\ UNCHANGED <<fork_db, blog>>
        BY <1>3, <1>j DEF LogTrim, Job
    <2>2. GrowsOn(job.first \ {LogHead}, LogHead)
        BY <1>f, <2>1 DEF LogInv
    <2>3. LogHead' = LogHead
        BY <2>1 DEF LogHead
    <2> QED
        BY <1>f, <2>1, <2>2, <2>3 DEF LogInv
<1>4. CASE LogEnd \/ LogApplyFails
    <2>1. /\ fork_db' = RootTo(fork_db, LogHead) /\ blog' = blog
          /\ fault' = "none" => CanRootTo(fork_db, LogHead)
          /\ job' \in {Throw(job.from), Return(job.from)}
        BY <1>4 DEF LogEnd, LogApplyFails, apply_fails, Check
    <2>2. fault' = "none" => ForkLinked(fork_db')
        BY <1>j, <1>f, <2>1, RootToLinked
    <2> QED
        BY <1>t, <2>1, <2>2, LinkedSuffices
<1>5. CASE LogAppendFails
    <2> DEFINE b == Lowest(job.first)
               f == IF Irreversible THEN mark_valid(fork_db, b) ELSE fork_db
    <2>1. b \in Blocks
        BY <1>5, <1>l, ZenonT(60) DEF LogAppendFails
    <2>2. f \in ForkDb /\ ForkLinked(f)
        BY <1>j, <1>f, <2>1, MarkValidType, MarkValidLinked
    <2>3. /\ fork_db' = RootTo(f, b) /\ blog' = blog
          /\ fault' = "none" => CanRootTo(f, b)
          /\ job' = Throw(job.from)
        BY <1>5, ZenonT(60) DEF LogAppendFails, Check
    <2> HIDE DEF b, f
    <2>4. fault' = "none" => ForkLinked(fork_db')
        BY <2>1, <2>2, <2>3, RootToLinked
    <2> QED
        BY <1>t, <2>3, <2>4, LinkedSuffices
<1> QED
    BY <1>1, <1>2, <1>3, <1>4, <1>5

LEMMA LogInvInit ==
    ASSUME TypeInv, LogInv, NEW m \in Modes,
           Crash(m) \/ Reopen(m) \/ ReplayLog \/ ReplayLogDone \/ ReplayReversible
             \/ ReplayDone \/ InitBest \/ BestBranch
    PROVE  LogInv' /\ blog' = blog
<1>j. /\ job \in Job /\ fork_db \in ForkDb /\ head \in Blocks
      /\ reversible \in SUBSET Blocks /\ Genesis \in Blocks
    BY TreeAssumption DEF TypeInv, TypeOK
<1>f. Up /\ ForkLinked(fork_db)
    BY ZenonT(60) DEF LogInv, Crash, Reopen, ReplayLog, ReplayLogDone, ReplayReversible,
           ReplayDone, InitBest, BestBranch
<1>1. CASE Crash(m)
    <2>1. fork_db' = reset(Genesis) /\ blog' = blog /\ job' = AfterChecks(Genesis, Unlogged(m))
        BY <1>1 DEF Crash
    <2>2. job'.pc \notin {"log", "trim"}
        BY <1>j, <2>1, ElsewhereThanLog DEF TypeInv, Callers
    <2> QED
        BY <1>j, <2>1, <2>2, ResetLinked, LinkedSuffices
<1>2. CASE Reopen(m)
    <2>1. PICK h : job' = AfterChecks(h, Unlogged(m))
        BY <1>2 DEF Reopen
    <2>2. job'.pc \notin {"log", "trim"}
        BY <1>j, <2>1, ElsewhereThanLog DEF TypeInv, Callers
    <2>3. fork_db' \in {fork_db, rollback_head_to_root(fork_db)} /\ blog' = blog
        BY <1>2 DEF Reopen
    <2>4. ForkLinked(fork_db')
        BY <1>j, <1>f, <2>3, RollbackLinked
    <2> QED
        BY <2>2, <2>3, <2>4, LinkedSuffices
<1>3. CASE ReplayLog
    <2>1. fork_db' = fork_db /\ blog' = blog /\ job'.pc = "replay"
        BY <1>3, ZenonT(60) DEF ReplayLog, apply_block
    <2> QED
        BY <1>f, <2>1, LinkedSuffices
<1>4. CASE ReplayLogDone
    <2> DEFINE marked == mark_valid(fork_db, head)
    <2>1. job'.pc = "rereplay" /\ blog' = blog
        BY <1>4, <1>j DEF ReplayLogDone, Job
    <2>2. \/ fork_db' = reset(head)
          \/ fork_db' = fork_db
          \/ /\ fork_db' = advance_root(marked, head)
             /\ Num[head] # Num[fork_db.root]
             /\ fault' = "none" => CanAdvance(marked, head)
        BY <1>4 DEF ReplayLogDone, Check
    <2>3. marked \in ForkDb /\ ForkLinked(marked) /\ marked.root = fork_db.root
        BY <1>j, <1>f, MarkValidType, MarkValidLinked, ZenonT(60) DEF mark_valid, ForkDb
    <2> HIDE DEF marked
    <2>4. fault' = "none" => ForkLinked(fork_db')
        BY <1>j, <1>f, <2>2, <2>3, ResetLinked, AdvanceLinked
    <2> QED
        BY <2>1, <2>4, LinkedSuffices
<1>5. CASE ReplayReversible
    <2>1. PICK b \in reversible :
              LET f == IF b \in fork_db.index THEN fork_db ELSE add(fork_db, b) IN
              /\ fork_db' = mark_valid(f, b)
              /\ Num[b] = Num[head] + 1
              /\ fault' = "none" => b \in fork_db.index \/ Prev[b] \in Linked(fork_db)
        BY <1>5 DEF ReplayReversible, apply_block, Check
    <2>2. b \in Blocks /\ b # Genesis
        BY <1>j, <2>1, TreeAssumption
    <2>3. b \notin fork_db.index /\ Prev[b] \in Linked(fork_db) =>
              add(fork_db, b) \in ForkDb /\ ForkLinked(add(fork_db, b))
        BY <1>j, <1>f, <2>2, AddType, AddLinked
    <2>4. fault' = "none" => ForkLinked(fork_db')
        BY <1>j, <1>f, <2>1, <2>2, <2>3, MarkValidLinked
    <2>5. job'.pc = "lib" /\ blog' = blog
        BY <1>5, <1>j DEF ReplayReversible, Job
    <2> QED
        BY <2>4, <2>5, LinkedSuffices
<1>6. CASE ReplayDone \/ InitBest
    <2>1. fork_db' = fork_db /\ blog' = blog
        BY <1>6 DEF ReplayDone, InitBest, chainVars
    <2>2. ReplayDone => job'.pc = "best"
        BY <1>j DEF ReplayDone, Job
    <2>3. InitBest => job'.pc \in {"loop", "idle"}
        BY DEF InitBest, Idle
    <2> QED
        BY <1>6, <1>f, <2>1, <2>2, <2>3, LinkedSuffices
<1>7. CASE BestBranch
    <2>1. maybe_switch_forks(pending_head(fork_db), "best").pc \notin {"log", "trim"}
        BY <1>j, PendingHeadType, ElsewhereThanLog DEF TypeInv, Callers
    <2>2. fork_db' = fork_db /\ blog' = blog /\ job'.pc \notin {"log", "trim"}
        BY <1>7, <2>1 DEF BestBranch, chainVars, Idle
    <2> QED
        BY <1>f, <2>2, LinkedSuffices
<1> QED
    BY <1>1, <1>2, <1>3, <1>4, <1>5, <1>6, <1>7

LEMMA LogInvStep ==
    TypeInv /\ LogInv /\ [Next]_vars => LogInv' /\ [Final!Next]_blog
<1> SUFFICES ASSUME TypeInv, LogInv, [Next]_vars
             PROVE  LogInv' /\ [Final!Next]_blog
    OBVIOUS
<1>1. CASE Step
    <2>1. PICK m \in Modes : TRUE
        BY ControllerAssumption, ZenonT(60)
    <2> QED
        BY <1>1, <2>1, LogInvSwitch, LogInvLog, LogInvInit DEF Step, Final!Next
<1>2. CASE start_block \/ abort_block \/ \E b \in Blocks : commit_block(b) \/ push_block(b)
    BY <1>2, TreeAssumption, LogInvPending
<1>3. CASE \E t \in Trx : push_transaction(t) \/ drop_transaction(t)
    <2>1. UNCHANGED <<chainVars, job, fault>>
        BY <1>3 DEF push_transaction, drop_transaction
    <2> QED
        BY <2>1 DEF LogInv, Up, LogHead, chainVars
<1>4. CASE \E m \in Modes : Crash(m) \/ Reopen(m)
    BY <1>4, LogInvInit
<1>5. CASE UNCHANGED vars
    BY <1>5 DEF LogInv, Up, LogHead, vars, chainVars
<1> QED
    BY <1>1, <1>2, <1>3, <1>4, <1>5 DEF Next

\* The controller implements FinalLog: through forks, rejected blocks, failed
\* switches, appends that throw, crashes and restarts in any read mode, the
\* block log is one chain from the genesis block, and every block appended by
\* log_irreversible is a child of the one before it.
THEOREM BlockLogIsFinal == Spec => FinalLogSpec
<1>1. Init => TypeInv /\ LogInv /\ Final!Init
    <2>1. Init => TypeInv
        BY TypeInit
    <2>2. Init => LogInv
        BY ResetLinked, TreeAssumption DEF Init, LogInv, Idle
    <2> QED
        BY <2>1, <2>2 DEF Init, Final!Init
<1>2. TypeInv /\ LogInv /\ [Next]_vars => TypeInv' /\ LogInv' /\ [Final!Next]_blog
    BY TypeStep, LogInvStep
<1> QED
    BY <1>1, <1>2, PTL DEF Spec, FinalLogSpec, Final!Spec
=============================================================================
