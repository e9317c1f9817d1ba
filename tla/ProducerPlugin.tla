--------------------------- MODULE ProducerPlugin ---------------------------
(***************************************************************************)
(* The production loop of the producer plugin: the pending block is        *)
(* restarted after every event, one timer decides when it is produced or   *)
(* when to look again, and its handler, once posted, cannot be cancelled   *)
(* any more (the correlation id).  With it the requests that go through    *)
(* the loop: incoming blocks, pause and resume, options, integrity hash    *)
(* and snapshots.                                                          *)
(*                                                                         *)
(* Time is in ticks, two to a block interval; the odd tick is the last     *)
(* tenth of the interval, in which no new block is started.  The           *)
(* controller is the tree of blocks it holds, its head and its last        *)
(* irreversible block; which ancestor of the head becomes irreversible is  *)
(* left open (Dpos has the rule).                                          *)
(***************************************************************************)
EXTENDS Integers, Sequences, FiniteSets, FiniteSetsExt

CONSTANTS
    Schedule,        \* active_schedule.producers, a sequence
    Repetitions,     \* config::producer_repetitions
    Local,           \* _producers of this node
    Keys,            \* those with a signature provider
    Stale,           \* enable-stale-production
    Offset,          \* _produce_time_offset_us, in ticks
    LastOffset,      \* _last_block_time_offset_us, in ticks
    HeadAge,         \* 5 s, the head's age that stops speculation, in ticks
    Future,          \* 7 s, in ticks
    LibAges,         \* values of max-irreversible-block-age, -1 for no limit
    Start,           \* number of blocks in the chain at the start
    MaxBlocks,       \* bound on blocks
    MaxNow,          \* bound on time
    MaxAsk,          \* bound on snapshot requests
    MaxFail,         \* bound on failing steps: start_block, signing, bad blocks
    MaxOps           \* bound on operators' requests and restarts

VARIABLES
    node,       \* the controller and the plugin: see Node
    snaps,      \* _pending_snapshot_index: block -> requests that wait for it
    files,      \* blocks with a finalized snapshot
    answers,    \* requests -> answers received
    signed,     \* history: the numbers each local producer signed since the start
    fails, ops  \* failing steps and operators' requests so far

producer_vars == <<node, snaps, files, answers, signed, fails, ops>>

Interval == 2
LastTenth == 1
Never == -1
NoTimer == [kind |-> "none", at |-> 0]
Kinds == {"loop", "produce"}
Index == 1..MaxBlocks

\* blocks   every block, genesis first; anc: its branch, itself included
\* fork_db  those in the fork database; the root is the last irreversible one
\* pending  time of the pending block, Never without one
\* timer    _timer and what its handler does
\* posted   handler in the priority queue with the current correlation id
\* old      handlers in the queue with an older one
Block == [anc : SUBSET Index, num : Index, slot : Nat, producer : Range(Schedule)]
Node ==
    [blocks : UNION {[1..n -> Block] : n \in Index}, fork_db : SUBSET Index,
     lib : Index, head : Index, now : 0..MaxNow, pending : Int,
     mode : {"producing", "speculating"}, enabled : BOOLEAN, paused : BOOLEAN,
     max_age : LibAges, watermark : [Local -> 0..MaxBlocks],
     timer : [kind : Kinds \cup {"none"}, at : Int],
     posted : Kinds \cup {"none"}, old : SUBSET Kinds]

Time(s, b) == s.blocks[b].slot * Interval
Num(s, b) == s.blocks[b].num
Branch(s, b) == s.blocks[b].anc

TypeOK ==
    /\ DOMAIN node = DOMAIN [blocks |-> 0, fork_db |-> 0, lib |-> 0, head |-> 0, now |-> 0,
            pending |-> 0, mode |-> 0, enabled |-> 0, paused |-> 0, max_age |-> 0,
            watermark |-> 0, timer |-> 0, posted |-> 0, old |-> 0]
    /\ \A i \in DOMAIN node.blocks : node.blocks[i] \in Block /\ i \in node.blocks[i].anc
    /\ {node.lib, node.head} \subseteq node.fork_db
    /\ node.fork_db \subseteq DOMAIN node.blocks
    /\ node.lib \in Branch(node, node.head)
    /\ node.now \in 0..MaxNow
    /\ node.pending = Never \/ node.pending > Time(node, node.head)
    /\ node.timer.kind \in Kinds \cup {"none"}
    /\ node.posted \in Kinds \cup {"none"} /\ node.old \subseteq Kinds
    /\ node.watermark \in [Local -> 0..MaxBlocks]
    /\ DOMAIN snaps \subseteq DOMAIN node.blocks
    /\ \A b \in DOMAIN snaps : snaps[b] # {} /\ snaps[b] \subseteq DOMAIN answers
    /\ files \subseteq DOMAIN node.blocks
    /\ signed \in [Local -> Seq(Index)]
-----------------------------------------------------------------------------
(* Time and schedule. *)

(* get_scheduled_producer *)
get_scheduled_producer(slot) ==
    Schedule[(slot % (Len(Schedule) * Repetitions)) \div Repetitions + 1]
IndexOf(p) == (CHOOSE i \in DOMAIN Schedule : Schedule[i] = p) - 1

(* get_irreversible_block_age against _max_irreversible_block_age_us *)
LibTooOld(s) ==
    s.max_age >= 0 /\ Max({0, s.now - Time(s, s.lib)}) >= s.max_age

production_disabled_by_policy(s) == ~s.enabled \/ s.paused \/ LibTooOld(s)

(* consider_new_watermark *)
consider_new_watermark(s, p, num) ==
    IF p \in Local THEN [s EXCEPT !.watermark[p] = Max({@, num})] ELSE s

calculate_pending_block_time(s) ==
    LET base == Max({s.now, Time(s, s.head)})
        t == base + Interval - (base % Interval)
    IN  IF t - s.now <= LastTenth THEN t + Interval ELSE t

calculate_block_deadline(t) ==
    LET slot == t \div Interval
    IN  t + IF slot % Repetitions = Repetitions - 1 THEN LastOffset ELSE Offset

(* calculate_next_block_time, as a slot; the unsigned difference of the     *)
(* two indices wraps below zero and is corrected by the schedule's size.    *)
calculate_next_block_time(s, p, slot) ==
    LET size == Len(Schedule)
        num == Num(s, s.head) + IF s.pending # Never THEN 1 ELSE 0
        offset == IF s.watermark[p] > num THEN s.watermark[p] - num + 1 ELSE 1
        first == slot + offset
        at == (first % (size * Repetitions)) \div Repetitions
    IN  IF IndexOf(p) = at THEN first
        ELSE first - (first % Repetitions) + ((IndexOf(p) - at) % size) * Repetitions
-----------------------------------------------------------------------------
(* The loop.  Every step is a function of the plugin's state.              *)

(* Mutation: the correlation id is not looked at. *)
MutKeepPosted(s, kind, at) == [s EXCEPT !.timer = [kind |-> kind, at |-> at]]

(* async_wait with ++_timer_corelation_id: a handler already posted is old *)
(* from now on.  expires_at also cancels a wait that has not expired.      *)
Arm(s, kind, at) ==
    [s EXCEPT !.timer = [kind |-> kind, at |-> at],
              !.posted = "none", !.old = @ \cup ({s.posted} \ {"none"})]

(* Mutation: the timer is set to the slot itself. *)
MutWakeAtSlot(s, time) ==
    LET next == {calculate_next_block_time(s, p, time \div Interval) :
                 p \in Local \cap Range(Schedule)}
    IN  IF next = {} THEN s ELSE Arm(s, "loop", Min(next) * Interval)

schedule_delayed_production_loop(s, time) ==
    LET next == {calculate_next_block_time(s, p, time \div Interval) :
                 p \in Local \cap Range(Schedule)}
    IN  IF next = {} THEN s ELSE Arm(s, "loop", Min(next) * Interval - Interval)

(* Mutation: the watermark is not looked at. *)
MutNoWatermark(s, p, time) ==
    IF s.enabled /\ p \in Local /\ p \in Keys /\ ~s.paused
       /\ ~LibTooOld(s)
    THEN "producing" ELSE "speculating"

(* The mode start_block settles on for a block of producer p. *)
ModeFor(s, p, time) ==
    IF /\ s.enabled /\ p \in Local /\ p \in Keys /\ ~s.paused
       /\ ~LibTooOld(s)
       /\ ~(s.watermark[p] >= Num(s, s.head) + 1)
    THEN "producing" ELSE "speculating"

(* start_block: [s, result].  ok: whether chain.start_block succeeds; when *)
(* it throws, the pending block has been aborted already.                  *)
start_block(s, ok) ==
    LET time == calculate_pending_block_time(s)
        m == [s EXCEPT !.mode =
                ModeFor(s, get_scheduled_producer(time \div Interval), time)]
    IN  IF m.mode = "speculating" /\ s.now - Time(s, s.head) > HeadAge
        THEN [s |-> m, result |-> "waiting"]
        ELSE IF ok THEN [s |-> [m EXCEPT !.pending = time], result |-> "succeeded"]
        ELSE [s |-> [m EXCEPT !.pending = Never], result |-> "failed"]

ProduceAt(s) ==
    LET deadline == calculate_block_deadline(s.pending)
    IN  IF deadline > s.now THEN deadline ELSE Max({s.now, s.pending - Interval})

(* Mutation: a failed start_block is not tried again. *)
MutNoRetry(s, ok) ==
    LET r == start_block([s EXCEPT !.timer = NoTimer], ok)
        change == Local # {} /\ ~production_disabled_by_policy(r.s)
    IN  CASE r.result = "failed" -> r.s
          [] r.result = "waiting" ->
                IF change
                THEN schedule_delayed_production_loop(r.s, calculate_pending_block_time(r.s))
                ELSE r.s
          [] r.result = "succeeded" /\ r.s.mode = "producing" ->
                Arm(r.s, "produce", ProduceAt(r.s))
          [] r.result = "succeeded" /\ r.s.mode = "speculating" ->
                IF change THEN schedule_delayed_production_loop(r.s, r.s.pending) ELSE r.s

schedule_production_loop(s, ok) ==
    LET r == start_block([s EXCEPT !.timer = NoTimer], ok)
        change == Local # {} /\ ~production_disabled_by_policy(r.s)
    IN  CASE r.result = "failed" -> Arm(r.s, "loop", s.now)
          [] r.result = "waiting" ->
                IF change
                THEN schedule_delayed_production_loop(r.s, calculate_pending_block_time(r.s))
                ELSE r.s
          [] r.result = "succeeded" /\ r.s.mode = "producing" ->
                Arm(r.s, "produce", ProduceAt(r.s))
          [] r.result = "succeeded" /\ r.s.mode = "speculating" ->
                IF change THEN schedule_delayed_production_loop(r.s, r.s.pending) ELSE r.s

(* The end of a handler; n steps of it have failed, start_block may too. *)
Reschedule(s, n) ==
    \E bad \in BOOLEAN :
        /\ fails' = fails + n + IF bad THEN 1 ELSE 0
        /\ fails' <= MaxFail
        /\ node' = schedule_production_loop(s, ~bad)

Request == ops < MaxOps /\ ops' = ops + 1
-----------------------------------------------------------------------------
(* The controller's part of a step. *)

(* fetch_block_by_id: in the fork database or in the block log. *)
fetch_block_by_id(s, b) == b \in s.fork_db \/ b \in Branch(s, s.lib)

(* log_irreversible and advance_root: l becomes irreversible, the fork      *)
(* database keeps what descends from it.                                    *)
log_irreversible(s, l) ==
    [s EXCEPT !.lib = l, !.fork_db = {b \in @ : l \in Branch(s, b)}]

NewBlock(s, prev, slot) ==
    [anc |-> Branch(s, prev) \cup {Len(s.blocks) + 1}, num |-> Num(s, prev) + 1,
     slot |-> slot, producer |-> get_scheduled_producer(slot)]

(* fork_db.add and accepted_block_header *)
AddBlock(s, b) ==
    consider_new_watermark(
        [s EXCEPT !.blocks = Append(@, b), !.fork_db = @ \cup {Len(s.blocks) + 1}],
        b.producer, b.num)

(* Mutation: only the request that attached last is answered. *)
MutAnswerLast(due) ==
    [r \in DOMAIN answers |->
        answers[r] + Cardinality({b \in due : r = Max(snaps[b])})]

(* finalize calls the handlers attached to a snapshot, with a result or an *)
(* exception.                                                              *)
Answer(due) ==
    [r \in DOMAIN answers |-> answers[r] + Cardinality({b \in due : r \in snaps[b]})]

(* on_irreversible_block, for every block up to l: promotes the pending    *)
(* snapshots up to its height.  The signal comes before advance_root, so   *)
(* that finalize still finds the blocks of every fork in s.                *)
on_irreversible_block(s, l) ==
    LET due == IF l = s.lib THEN {} ELSE {b \in DOMAIN snaps : Num(s, b) <= Num(s, l)}
    IN  /\ answers' = Answer(due)
        /\ files' = files \cup {b \in due : fetch_block_by_id(s, b)}
        /\ snaps' = [b \in DOMAIN snaps \ due |-> snaps[b]]
-----------------------------------------------------------------------------
(* Events. *)

Tick ==
    /\ node.now < MaxNow
    /\ node' = [node EXCEPT !.now = @ + 1]
    /\ UNCHANGED <<snaps, files, answers, signed, fails, ops>>

(* The timer expires: its handler is posted. *)
Expire ==
    /\ node.timer.kind # "none"
    /\ node.timer.at <= node.now
    /\ node' = [node EXCEPT !.timer = NoTimer, !.posted = node.timer.kind]
    /\ UNCHANGED <<snaps, files, answers, signed, fails, ops>>

(* A handler with an older correlation id does nothing. *)
RunOld(kind) ==
    /\ kind \in node.old
    /\ node' = [node EXCEPT !.old = @ \ {kind}]
    /\ UNCHANGED <<snaps, files, answers, signed, fails, ops>>

RunLoop ==
    /\ node.posted = "loop"
    /\ Reschedule([node EXCEPT !.posted = "none"], 0)
    /\ UNCHANGED <<snaps, files, answers, signed, ops>>

(* produce_block's assertions *)
CanProduce(s) ==
    /\ s.mode = "producing"
    /\ s.pending # Never
    /\ get_scheduled_producer(s.pending \div Interval) \in Keys

(* maybe_produce_block: finalize_block, which signs (bad: throws), and     *)
(* commit_block; then, in every case, the loop again.                      *)
maybe_produce_block(bad, l) ==
    LET s == [node EXCEPT !.posted = "none"]
        b == NewBlock(s, s.head, s.pending \div Interval)
        c == [AddBlock(s, b) EXCEPT !.head = Len(s.blocks) + 1, !.pending = Never]
    IN  /\ node.posted = "produce"
        /\ IF ~bad /\ CanProduce(s)
           THEN /\ Len(s.blocks) < MaxBlocks
                /\ l \in (Branch(c, c.head) \cap c.fork_db) \ {c.head}
                /\ on_irreversible_block(c, l)
                /\ signed' = [signed EXCEPT ![b.producer] = Append(@, b.num)]
                /\ Reschedule(log_irreversible(c, l), 0)
           ELSE /\ l = s.lib
                /\ Reschedule([s EXCEPT !.pending = Never], 1)
                /\ UNCHANGED <<snaps, files, answers, signed>>
        /\ UNCHANGED ops

(* on_incoming_block of a new block on top of prev.  verdict: best, it is   *)
(* applied; good, it is not preferred to the head; header, the fork         *)
(* database refuses it; body, it throws when it is applied.                 *)
on_incoming_block(prev, slot, verdict, l) ==
    LET s == [node EXCEPT !.pending = Never]
        b == NewBlock(s, prev, slot)
        best == verdict = "best"
        a == AddBlock(s, b)
        c == IF best THEN [a EXCEPT !.head = Len(s.blocks) + 1] ELSE a
        i == log_irreversible(c, l)
        live == Time(i, i.head) + Interval >= i.now
    IN  /\ Len(s.blocks) < MaxBlocks
        /\ prev \in s.fork_db
        /\ slot > s.blocks[prev].slot
        /\ slot * Interval < s.now + Future
        /\ CASE verdict \in {"best", "good"} ->
                \* preferred for a higher LIB, or for its height
                /\ l \in Branch(c, c.head) \cap c.fork_db
                /\ IF best THEN l # c.head /\ (l # c.lib \/ b.num > Num(s, s.head))
                   ELSE l = c.lib /\ prev # s.head
                /\ on_irreversible_block(c, l)
                /\ Reschedule([i EXCEPT !.enabled = @ \/ live], 0)
             [] verdict = "header" ->
                /\ l = s.lib
                /\ Reschedule(s, 1)
                /\ UNCHANGED <<snaps, files, answers>>
             [] verdict = "body" ->
                /\ l = s.lib
                /\ Reschedule(consider_new_watermark(s, b.producer, b.num), 1)
                /\ UNCHANGED <<snaps, files, answers>>
        /\ UNCHANGED <<signed, ops>>

pause ==
    /\ Request
    /\ node' = [node EXCEPT !.paused = TRUE]
    /\ UNCHANGED <<snaps, files, answers, signed, fails>>

(* If only speculating, start over: the policy has changed. *)
Reconsider(s) ==
    IF s.mode = "speculating" THEN Reschedule([s EXCEPT !.pending = Never], 0)
    ELSE node' = s /\ UNCHANGED fails

resume ==
    /\ Request
    /\ Reconsider([node EXCEPT !.paused = FALSE])
    /\ UNCHANGED <<snaps, files, answers, signed>>

(* update_runtime_options with max_irreversible_block_age *)
update_runtime_options(age) ==
    /\ Request
    /\ Reconsider([node EXCEPT !.max_age = age])
    /\ UNCHANGED <<snaps, files, answers, signed>>

(* Abort the pending block, if there is one, and start over when done. *)
Interrupt ==
    IF node.pending # Never THEN Reschedule([node EXCEPT !.pending = Never], 0)
    ELSE UNCHANGED <<node, fails>>

get_integrity_hash ==
    /\ Request
    /\ Interrupt
    /\ UNCHANGED <<snaps, files, answers, signed>>

(* create_snapshot of the head: refused when the file exists, attached to  *)
(* a pending one, or written (a failure is answered at once).              *)
create_snapshot(bad) ==
    LET r == Len(answers) + 1
        now_ == Append(answers, 1)
        later == Append(answers, 0)
    IN  /\ r <= MaxAsk
        /\ CASE node.head \in files ->
                /\ ~bad
                /\ answers' = now_
                /\ UNCHANGED <<node, snaps, fails>>
             [] node.head \notin files /\ node.head \in DOMAIN snaps ->
                /\ ~bad
                /\ answers' = later
                /\ snaps' = [snaps EXCEPT ![node.head] = @ \cup {r}]
                /\ UNCHANGED <<node, fails>>
             [] OTHER ->
                /\ Interrupt
                /\ answers' = IF bad THEN now_ ELSE later
                /\ snaps' = IF bad THEN snaps
                            ELSE [b \in DOMAIN snaps \cup {node.head} |->
                                    IF b = node.head THEN {r} ELSE snaps[b]]
        /\ UNCHANGED <<files, signed, ops>>

(* plugin_startup on the blocks at hand: watermarks and pending snapshots  *)
(* are gone, with the requests.                                            *)
Startup(s) ==
    [s EXCEPT !.pending = Never, !.enabled = Stale, !.paused = FALSE,
              !.watermark = [p \in Local |-> 0], !.timer = NoTimer,
              !.posted = "none", !.old = {}]

restart ==
    /\ Request
    /\ Reschedule(Startup(node), 0)
    /\ snaps' = << >>
    /\ answers' = << >>
    /\ signed' = [p \in Local |-> << >>]
    /\ UNCHANGED files

ProducerInit ==
    /\ \E age \in LibAges :
        node = schedule_production_loop(Startup(
            [blocks |-> [i \in 1..Start |->
                [anc |-> 1..i, num |-> i, slot |-> i - 1, producer |-> get_scheduled_producer(i - 1)]],
             fork_db |-> 1..Start, lib |-> 1, head |-> Start, now |-> (Start - 1) * Interval, pending |-> Never,
             mode |-> "speculating", enabled |-> Stale, paused |-> FALSE, max_age |-> age,
             watermark |-> [p \in Local |-> 0], timer |-> NoTimer, posted |-> "none",
             old |-> {}]), TRUE)
    /\ snaps = << >>
    /\ files = {}
    /\ answers = << >>
    /\ signed = [p \in Local |-> << >>]
    /\ fails = 0 /\ ops = 0

ProducerNext ==
    \/ Tick
    \/ Expire
    \/ \E kind \in Kinds : RunOld(kind)
    \/ RunLoop
    \/ \E bad \in BOOLEAN, l \in Index : maybe_produce_block(bad, l)
    \/ \E prev, l \in Index, slot \in 1..MaxNow, v \in {"best", "good", "header", "body"} :
            on_incoming_block(prev, slot, v, l)
    \/ pause
    \/ resume
    \/ \E age \in LibAges : update_runtime_options(age)
    \/ get_integrity_hash
    \/ \E bad \in BOOLEAN : create_snapshot(bad)
    \/ restart

ProducerSpec == ProducerInit /\ [][ProducerNext]_producer_vars
-----------------------------------------------------------------------------
(* A node with producers that no policy keeps from producing always has a  *)
(* timer or a posted handler that brings the loop round again.             *)
LoopAlive ==
    Local \cap Range(Schedule) # {} /\ ~production_disabled_by_policy(node) =>
        node.timer.kind # "none" \/ node.posted # "none"

(* When the handler that produces a block is due or on its way, there is a *)
(* pending block in producing mode with a key to sign it: produce_block's  *)
(* assertions can fail only after a policy has turned production off,      *)
(* which leaves the correlation id of the posted handler as it was.        *)
ProduceReady ==
    "produce" \in {node.timer.kind, node.posted} =>
        CanProduce(node) \/ production_disabled_by_policy(node)

(* Between two starts a producer signs ever higher blocks only, also when a  *)
(* lower head becomes preferred for its LIB: never two blocks of one height  *)
(* (the watermarks).                                                         *)
SignsUpwards ==
    \A p \in Local : \A i \in 2..Len(signed[p]) : signed[p][i - 1] < signed[p][i]

(* When the loop only waits for a turn, it wakes up at least a block       *)
(* interval before every slot at which a local producer may produce next,  *)
(* taking each slot until then to bring one block.                         *)
WakesInTime ==
    LET from == node.pending \div Interval
        num(slot) == Num(node, node.head) + 1 + slot - from
    IN  node.timer.kind = "loop" /\ node.mode = "speculating" /\ node.pending # Never =>
        \A slot \in (from + 1)..(from + 2 * Len(Schedule) * Repetitions) :
            LET p == get_scheduled_producer(slot) IN
            p \in Local /\ num(slot) > node.watermark[p] =>
                node.timer.at <= slot * Interval - Interval

(* Every snapshot request is answered once: after it was attached to a     *)
(* pending snapshot, after a fork switch, after an error; until then a     *)
(* pending snapshot holds it.                                              *)
AnsweredOnce ==
    \A r \in DOMAIN answers :
        answers[r] + Cardinality({b \in DOMAIN snaps : r \in snaps[b]}) = 1

(* A finalized snapshot is of a block of the chain ("Snapshotted block was *)
(* forked out of the chain").                                              *)
SnapshotIsFinal == files \subseteq Branch(node, node.lib)
=============================================================================
