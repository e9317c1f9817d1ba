-------------------------- MODULE ProtocolFeatures --------------------------
(***************************************************************************)
(* Protocol features: what the chain's database, the headers and the       *)
(* protocol_feature_manager in memory record of their activation, while    *)
(* blocks are started, aborted, produced, received, popped and restarted   *)
(* upon (protocol_feature_manager.cpp, controller.cpp, producer_plugin.cpp).*)
(* A digest is a member of Feature and names one builtin feature. Of the   *)
(* handlers run at an activation only the one of preactivate_feature       *)
(* matters here: it whitelists the intrinsic a contract needs to           *)
(* preactivate. The node is in read mode speculative, the only one in      *)
(* which it may produce.                                                   *)
(***************************************************************************)
EXTENDS Integers, Sequences, FiniteSets, SequencesExt

CONSTANTS
    Feature,      \* the digests of the recognized features
    Unknown,      \* digests a block or contract may name, not recognized here
    Rules,        \* of each feature: enabled, earliest, needs, deps
    Preactivate,  \* the feature preactivate_feature
    Lists,        \* the activations a header of another producer may carry
    Transactions, \* the preactivations a block of another producer may hold
    Requests,     \* the lists an operator may schedule
    Branches,     \* the numbers of blocks of a received branch
    MaxBlocks,    \* bound on the height of the chain
    MaxTime       \* bound on the timestamps

VARIABLES
    chain,     \* the blocks up to the head: when, feats, pre
    db,        \* the protocol_state_object after each of these blocks
    pending,   \* the block being built (ours: to be produced), or None
    manager,   \* the protocol_feature_manager
    schedule,  \* _protocol_features_to_activate
    signaled   \* _protocol_features_signaled

vars == <<chain, db, pending, manager, schedule, signaled>>

None == [none |-> TRUE]
not_active == 2147483647  \* the largest number, as in the code
no_previous == "no previous"

-----------------------------------------------------------------------------
(* The manager. *)

Fresh == [acts |-> <<>>, top |-> no_previous,
          entry |-> [f \in Feature |-> [prev |-> no_previous, num |-> not_active]]]

CanActivate(m, f, n) ==
    /\ f \in Feature
    /\ m.acts = <<>> \/ Last(m.acts).num <= n
    /\ m.entry[f].num = not_active

activate_feature(m, f, n) ==
    [acts |-> Append(m.acts, [f |-> f, num |-> n]), top |-> f,
     entry |-> [m.entry EXCEPT ![f] = [prev |-> m.top, num |-> n]]]

RECURSIVE Unlinked(_, _)
Unlinked(m, n) ==
    IF m.top = no_previous \/ m.entry[m.top].num <= n THEN m
    ELSE Unlinked([m EXCEPT !.top = m.entry[m.top].prev,
                            !.entry[m.top] = Fresh.entry[m.top]], n)

popped_blocks_to(m, n) ==
    [Unlinked(m, n) EXCEPT !.acts = SelectSeq(m.acts, LAMBDA a : a.num <= n)]

is_builtin_activated(m, f, n) == m.entry[f].num <= n

init(pso) ==
    FoldLeft(LAMBDA m, a : activate_feature(m, a.f, a.num), Fresh, pso.activated)
-----------------------------------------------------------------------------
(* The checks of the controller. *)

is_recognized(f, now) ==
    f \in Feature /\ Rules[f].enabled /\ Rules[f].earliest <= now

\* the set in the header state of the block after these
Activated(blocks) == UNION {Range(blocks[i].feats) : i \in DOMAIN blocks}

MutAnyOrder(active, fs, i) == active \cup Range(fs)

\* what dependencies of the i-th of the features may have been activated before
Before(active, fs, i) == active \cup {fs[j] : j \in 1 .. i - 1}

check_protocol_features(now, active, fs) ==
    \A i \in DOMAIN fs :
        /\ is_recognized(fs[i], now)
        /\ fs[i] \notin active
        /\ Rules[fs[i]].deps \subseteq Before(active, fs, i)

\* a node: the part of the state the steps of the controller change
Node == [chain |-> chain, db |-> db, pending |-> pending, manager |-> manager, ok |-> TRUE]

HeadTime(s) == Last(s.chain).when

validate_protocol_features(s, fs) ==
    check_protocol_features(HeadTime(s), Activated(s.chain), fs)

\* whether the i-th activation of a block passes the loop of start_block
Passes(pso, fs, i) ==
    /\ fs[i] \in Feature
    /\ fs[i] \notin {fs[j] : j \in 1 .. i - 1}
    /\ fs[i] \in Range(pso.preactivated) \/ ~Rules[fs[i]].needs

MutNotUndone(m, n) == m

\* the scoped exit of a start_block that throws
Guarded(m, n) == popped_blocks_to(m, n)

\* the first activation of the list that throws, or one past its end
Thrower(s, fs) ==
    LET n == Len(s.chain) + 1
        Tried(i) == FoldLeft(LAMBDA m, f : activate_feature(m, f, n),
                             s.manager, SubSeq(fs, 1, i - 1))
    IN CHOOSE i \in 1 .. Len(fs) + 1 :
         /\ \/ i = Len(fs) + 1
            \/ ~Passes(Last(s.db), fs, i)
            \/ ~CanActivate(Tried(i), fs[i], n)
         /\ \A j \in 1 .. i - 1 : Passes(Last(s.db), fs, j) /\ CanActivate(Tried(j), fs[j], n)

start_block(s, when, fs) ==
    LET pso == Last(s.db)
        n == Len(s.chain) + 1
        bad == Thrower(s, fs)
        m == FoldLeft(LAMBDA a, f : activate_feature(a, f, n), s.manager, SubSeq(fs, 1, bad - 1))
    IN IF bad <= Len(fs) \/ ~(Range(pso.preactivated) \subseteq Range(fs))
       THEN [s EXCEPT !.ok = FALSE, !.manager = Guarded(m, Len(s.chain))]
       ELSE [s EXCEPT !.manager = m,
               !.pending = [when |-> when, feats |-> fs, pre |-> <<>>, ours |-> FALSE,
                  pso |-> IF fs = <<>> THEN pso ELSE
                          [preactivated |-> <<>>,
                           activated |-> pso.activated \o
                               [i \in DOMAIN fs |-> [f |-> fs[i], num |-> n]],
                           intrinsic |-> pso.intrinsic \/ Preactivate \in Range(fs)]]]

\* the failures of a preactivation: f in the pending block of s
MayPreactivate(s, f) ==
    LET p == s.pending
        active == Activated(s.chain) \cup Range(p.feats)
    IN /\ p.pso.intrinsic
       /\ is_recognized(f, p.when)
       /\ f \notin active \cup Range(p.pso.preactivated)
       /\ Rules[f].deps \subseteq active \cup Range(p.pso.preactivated)

preactivate_feature(s, f) ==
    [s EXCEPT !.pending.pre = Append(@, f), !.pending.pso.preactivated = Append(@, f)]

\* finalize_block and commit_block
commit_block(s) ==
    [s EXCEPT !.chain = Append(@, [when |-> s.pending.when, feats |-> s.pending.feats,
                                   pre |-> s.pending.pre]),
              !.db = Append(@, s.pending.pso), !.pending = None]

abort_block(s) ==
    IF s.pending = None THEN s
    ELSE [s EXCEPT !.pending = None, !.manager = popped_blocks_to(@, Len(s.chain))]

\* start_block, the preactivations of the block's transactions, commit_block; a
\* block that fails is aborted
apply_block(s, b) ==
    LET built == FoldLeft(LAMBDA t, f : IF t.ok /\ MayPreactivate(t, f)
                                        THEN preactivate_feature(t, f)
                                        ELSE [t EXCEPT !.ok = FALSE],
                          start_block(s, b.when, b.feats), b.pre)
    IN IF ~s.ok THEN s
       ELSE IF built.ok THEN commit_block(built) ELSE abort_block(built)

pop_block(s) ==
    [s EXCEPT !.chain = Front(@), !.db = Front(@),
              !.manager = popped_blocks_to(@, Len(s.chain) - 1)]

RECURSIVE PoppedTo(_, _)
PoppedTo(s, n) == IF Len(s.chain) <= n THEN s ELSE PoppedTo(pop_block(s), n)

\* maybe_switch_forks: to a longer branch after block n, and back if one of its
\* blocks fails
Switched(s, n, branch) ==
    LET there == FoldLeft(apply_block, PoppedTo(s, n), branch)
        back == FoldLeft(apply_block, [PoppedTo(there, n) EXCEPT !.ok = TRUE],
                         SubSeq(s.chain, n + 1, Len(s.chain)))
    IN IF there.ok THEN there ELSE back
-----------------------------------------------------------------------------
\* the list the producer plugin starts a block with
MutTwice(s, asked) == asked \o Last(s.db).preactivated

Merged(s, asked) ==
    asked \o SelectSeq(Last(s.db).preactivated, LAMBDA f : f \notin Range(asked))

\* controller::start_block of the producer plugin: validated, then started
Started(s, when, fs) ==
    IF validate_protocol_features(s, fs) THEN start_block(s, when, fs)
    ELSE [s EXCEPT !.ok = FALSE]

Becomes(s) == /\ chain' = s.chain /\ db' = s.db
              /\ pending' = s.pending /\ manager' = s.manager

\* producer_plugin start_block
PluginStart(when, producing) ==
    LET s == abort_block(Node)
        signal == producing /\ schedule # <<>> /\ validate_protocol_features(s, schedule)
    IN /\ when > HeadTime(Node)
       /\ Len(chain) < MaxBlocks
       /\ schedule' = IF producing /\ ~signal THEN <<>> ELSE schedule
       /\ signaled' = (signaled \/ signal)
       /\ LET t == Started(s, when, Merged(s, IF signal THEN schedule ELSE <<>>)) IN
          Becomes(IF t.ok THEN [t EXCEPT !.pending.ours = producing] ELSE t)

MutStaysSignaled == signaled

\* a new schedule is in no block yet
Unsignaled == FALSE

schedule_protocol_feature_activations(fs) ==
    /\ validate_protocol_features(Node, fs)
    /\ \A f \in Range(fs) : ~Rules[f].needs
    /\ schedule' = fs /\ signaled' = Unsignaled
    /\ UNCHANGED <<chain, db, pending, manager>>

\* a transaction of the pending block preactivates
Preactivates(f) ==
    /\ pending # None
    /\ MayPreactivate(Node, f)
    /\ Becomes(preactivate_feature(Node, f))
    /\ UNCHANGED <<schedule, signaled>>

\* produce_block; finalizing or signing may throw after the schedule was cleared
produce_block(fails) ==
    /\ pending # None /\ pending.ours
    /\ schedule' = IF signaled THEN <<>> ELSE schedule
    /\ signaled' = FALSE
    /\ Becomes(IF fails THEN abort_block(Node) ELSE commit_block(Node))

\* the plugin's on_incoming_block: the pending block is aborted, then a branch
\* after block n whose headers pass the checks becomes the longest
push_block(n, branch) ==
    LET Prior(i) == SubSeq(chain, 1, n) \o SubSeq(branch, 1, i - 1) IN
    /\ n + Len(branch) \in Len(chain) + 1 .. MaxBlocks
    /\ \A i \in DOMAIN branch :
          /\ branch[i].when \in Last(Prior(i)).when + 1 .. MaxTime
          /\ check_protocol_features(branch[i].when, Activated(Prior(i)), branch[i].feats)
    /\ Becomes(Switched(abort_block(Node), n, branch))
    /\ UNCHANGED <<schedule, signaled>>

restart ==
    /\ pending' = None
    /\ manager' = init(Last(db))
    /\ schedule' = <<>> /\ signaled' = FALSE
    /\ UNCHANGED <<chain, db>>
-----------------------------------------------------------------------------
FeaturesInit ==
    /\ chain = <<[when |-> 0, feats |-> <<>>, pre |-> <<>>]>>
    /\ db = <<[preactivated |-> <<>>, activated |-> <<>>, intrinsic |-> FALSE]>>
    /\ pending = None
    /\ manager = Fresh
    /\ schedule = <<>> /\ signaled = FALSE

\* the blocks other producers may send after block n, one in every slot
Received(n, k) ==
    {[i \in 1 .. k |-> [when |-> chain[n].when + i, feats |-> fs[i], pre |-> ps[i]]] :
        fs \in [1 .. k -> Lists], ps \in [1 .. k -> Transactions]}

FeaturesNext ==
    \/ \E when \in 1 .. MaxTime, producing \in BOOLEAN : PluginStart(when, producing)
    \/ \E fs \in Requests : schedule_protocol_feature_activations(fs)
    \/ \E f \in Feature \cup Unknown : Preactivates(f)
    \/ \E fails \in BOOLEAN : produce_block(fails)
    \/ \E n \in DOMAIN chain, k \in Branches :
          \E branch \in Received(n, k) : push_block(n, branch)
    \/ restart

FeaturesSpec == FeaturesInit /\ [][FeaturesNext]_vars
-----------------------------------------------------------------------------
(* The state holds values of its types. *)
FeaturesTypeOK ==
    /\ Len(chain) \in 1 .. MaxBlocks /\ Len(db) = Len(chain)
    /\ \A i \in DOMAIN chain : Range(chain[i].feats) \subseteq Feature
    /\ DOMAIN manager.entry = Feature
    /\ manager.top \in Feature \cup {no_previous}
    /\ Range(schedule) \subseteq Feature /\ signaled \in BOOLEAN

RECURSIVE Walk(_, _)
Walk(m, f) == IF f = no_previous THEN <<>> ELSE Append(Walk(m, m.entry[f].prev), f)

(* The manager in memory, the database and the headers tell of the same    *)
(* activations in the same order, and the linked list of builtins is their *)
(* history, after every abort, failed start, popped block, failed switch   *)
(* and restart; so every rule that asks is_builtin_activated gets the      *)
(* answer of the branch it runs on.                                        *)
ManagerAgrees ==
    LET pso == IF pending = None THEN Last(db) ELSE pending.pso
        blocks == IF pending = None THEN chain
                  ELSE Append(chain, [when |-> pending.when, feats |-> pending.feats,
                                      pre |-> <<>>])
    IN /\ manager.acts = pso.activated
       /\ Walk(manager, manager.top) = [i \in DOMAIN pso.activated |-> pso.activated[i].f]
       /\ \A f \in Feature, n \in DOMAIN blocks :
             is_builtin_activated(manager, f, n)
                <=> \E i \in 1 .. n : f \in Range(blocks[i].feats)

(* Along the chain a feature is activated once, after the features it      *)
(* depends on, not before its time, and when it has to be preactivated     *)
(* then in the block after the one that preactivated it; nothing stays     *)
(* preactivated longer than that.                                          *)
ActivationsInOrder ==
    LET all == FlattenSeq([i \in DOMAIN chain |-> chain[i].feats]) IN
    /\ IsInjective(all)
    /\ \A i \in DOMAIN all : Rules[all[i]].deps \subseteq {all[j] : j \in 1 .. i - 1}
    /\ \A i \in DOMAIN chain :
         /\ \A f \in Range(chain[i].feats) :
              Rules[f].needs => i > 1 /\ f \in Range(chain[i - 1].pre)
         /\ i < Len(chain) => Range(chain[i].pre) \subseteq Range(chain[i + 1].feats)

(* Neither a preactivation nor an operator's schedule can keep the         *)
(* producer from starting its next block: start_block's failure is only    *)
(* logged there, and the slot would be missed, again and again.            *)
CanStart ==
    \A when \in HeadTime(Node) + 1 .. MaxTime, producing \in BOOLEAN :
        LET s == abort_block(Node)
            asked == IF producing /\ validate_protocol_features(s, schedule)
                     THEN schedule ELSE <<>>
        IN Started(s, when, Merged(s, asked)).ok

(* When a block is produced, produce_block drops the operator's schedule   *)
(* only if all of it is in that block, although blocks are aborted and     *)
(* started again, and schedules are replaced, in between. (A restart       *)
(* forgets a schedule, and so does a block whose signing fails, for it is  *)
(* dropped before the block is finalized.)                                 *)
DropsOnlyActivated ==
    pending # None /\ pending.ours /\ signaled => Range(schedule) \subseteq Range(pending.feats)
=============================================================================
