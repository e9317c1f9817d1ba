--------------------------- MODULE StateHistory ---------------------------
(***************************************************************************)
(* The state history plugin: the log it writes with every accepted block    *)
(* (a file of entries and an index of their positions, cut back at a fork,  *)
(* recovered at a start) and the stream of blocks it sends to a client.     *)
(*                                                                         *)
(* A block is named by its branch, the sequence of tags that leads to it:   *)
(* its number is the length, its predecessor the front.  The tag gives the  *)
(* size of the block's entry, so that positions of different branches       *)
(* differ.  The signal that carries an accepted block swallows exceptions:  *)
(* a failing write ends the handler and not the node.                       *)
(***************************************************************************)
EXTENDS Integers, Sequences, FiniteSets, SequencesExt

CONSTANTS
    Tag,        \* positive sizes of entries; two blocks of a number differ by it
    Flight,     \* messages a request or an acknowledgement allows
    MaxHeight,  \* bound on the block numbers
    MaxStops,   \* bound on the crashes and stops
    MaxForks    \* bound on the fork switches

VARIABLES
    chain,    \* the block of the head
    final,    \* the last irreversible block, kept over restarts
    log,      \* the open log: file, torn tail, index, begin, end and last block
    running,  \* "up", "down", or "failed" when the log cannot be opened
    session,  \* the session with the client
    client,   \* the blocks the client has, by number
    stops,    \* crashes and stops so far
    forks     \* fork switches so far

vars == <<chain, final, log, running, session, client, stops, forks>>

Block == UNION {[1..n -> Tag] : n \in 0..MaxHeight}

NoLog == [file |-> <<>>, torn |-> 0, index |-> <<>>, begin |-> 0, end |-> 0, last |-> <<>>]

(* current_request, send_queue (a message is the block it carries, <<>> when
   it carries none) and need_to_send_update; an open session may have no
   request yet. *)
NoSession == [open |-> FALSE, asked |-> FALSE, start |-> 0, flight |-> 0,
              finalOnly |-> FALSE, queue |-> <<>>, need |-> FALSE]

lowest(a, b) == IF a < b THEN a ELSE b
-----------------------------------------------------------------------------
(* The log. *)

(* Where the k-th entry of a file begins. *)
Position(file, k) == FoldLeft(LAMBDA p, b : p + Last(b), 0, SubSeq(file, 1, k - 1))

Positions(file) == [k \in 1..Len(file) |-> Position(file, k)]

get_pos(l, n) == l.index[n - l.begin + 1]

InLog(l, n) == n >= l.begin /\ n < l.end

(* get_entry: the block of the entry that begins where the index says; <<>>
   when no entry begins there and reading it throws. *)
get_entry(l, n) ==
    LET k == {i \in 1..Len(l.file) : Position(l.file, i) = get_pos(l, n)}
    IN  IF k = {} THEN <<>> ELSE l.file[CHOOSE i \in k : TRUE]

(* truncate: the file is cut where block n begins. *)
Cut(l, n) == SelectSeq(l.file, LAMBDA b : Len(b) < n)

MutKeepIndex(l, n) == [l EXCEPT !.file = Cut(l, n), !.end = n]

truncate(l, n) ==
    IF n <= l.begin
    THEN [l EXCEPT !.file = <<>>, !.index = <<>>, !.begin = 0, !.end = 0]
    ELSE [l EXCEPT !.file = Cut(l, n), !.index = SubSeq(@, 1, n - l.begin), !.end = n]

(* write_entry: "missed a block" and "missed a fork change". *)
Missed(l, b) ==
    /\ l.begin # l.end
    /\ \/ Len(b) > l.end
       \/ /\ Len(b) > l.begin
          /\ Front(b) # IF Len(b) = l.end THEN l.last ELSE get_entry(l, Len(b) - 1)

write_entry(l, b) ==
    LET kept == IF Len(b) < l.end THEN truncate(l, Len(b)) ELSE l
    IN  [kept EXCEPT !.file = Append(@, b),
                     !.index = Append(@, Position(kept.file, Len(kept.file) + 1)),
                     !.begin = IF kept.begin = kept.end THEN Len(b) ELSE @,
                     !.end = Len(b) + 1,
                     !.last = b]

(* open_log and open_index: a torn tail is dropped (recover_blocks), an index
   of another size is written anew. *)
Openable(l) == l.file = <<>> => l.torn = 0

opened(l) ==
    LET begin == IF l.file = <<>> THEN 0 ELSE Len(l.file[1])
        end   == IF l.file = <<>> THEN 0 ELSE Len(Last(l.file)) + 1
    IN  [file |-> l.file, torn |-> 0,
         index |-> IF Len(l.index) = end - begin THEN l.index ELSE Positions(l.file),
         begin |-> begin, end |-> end,
         last |-> IF l.file = <<>> THEN <<>> ELSE Last(l.file)]
-----------------------------------------------------------------------------
(* The session. *)

(* get_block_id: from the log where it has the block, else from the chain. *)
get_block_id(c, l, n) ==
    IF InLog(l, n) THEN get_entry(l, n) ELSE IF n \in 1..Len(c) THEN SubSeq(c, 1, n) ELSE <<>>

LastFinal(c) == lowest(Len(final), Len(c))

MutHeadAlways(c, s) == Len(c)

Current(c, s) == IF s.finalOnly THEN LastFinal(c) ELSE Len(c)

MutOneAtATime(c, s, next) == FALSE

(* need_to_send_update after a message *)
More(c, s, next) == next <= Current(c, s)

(* send_update: one message at most, when nothing is queued and the client
   allows another. *)
send_update(c, l, s) ==
    IF s.queue # <<>> \/ ~s.need \/ ~s.asked \/ s.flight = 0 THEN s
    ELSE LET carries == s.start <= Current(c, s)
             next    == IF carries THEN s.start + 1 ELSE s.start
         IN  [s EXCEPT !.queue = <<IF carries THEN get_block_id(c, l, s.start) ELSE <<>>>>,
                       !.start = next,
                       !.flight = @ - 1,
                       !.need = More(c, s, next)]

MutNoRewind(n, s) == s

(* on_accepted_block: a request that is past the block goes back to it. *)
Rewound(n, s) == IF s.asked /\ n < s.start THEN [s EXCEPT !.start = n] ELSE s

(* on_accepted_block with store_traces or store_chain_state: the entry first,
   then the sessions; a failing write leaves both alone.  A block of the
   node's own is the head by then (commit_block); for a received one the head
   is still the block before (maybe_switch_forks). *)
Accepted(h, b, head) ==
    IF Missed(h.log, b) THEN [h EXCEPT !.chain = b]
    ELSE LET l == write_entry(h.log, b)
         IN  [chain |-> b, log |-> l,
              session |-> IF h.session.open
                          THEN send_update(head, l, [Rewound(Len(b), h.session) EXCEPT !.need = TRUE])
                          ELSE h.session]

Received(h, b) == Accepted(h, b, Front(b))
-----------------------------------------------------------------------------
HistoryTypeOK ==
    /\ chain \in Block /\ final \in Block
    /\ log.file \in Seq(Block) /\ log.torn \in 0..2 /\ log.index \in Seq(Nat)
    /\ log.begin \in 0..MaxHeight /\ log.end \in 0..MaxHeight + 1 /\ log.last \in Block
    /\ running \in {"up", "down", "failed"}
    /\ session.start \in 0..MaxHeight + 1 /\ session.flight \in Nat
    /\ session.queue \in Seq(Block)
    /\ {session.open, session.asked, session.finalOnly, session.need} \subseteq BOOLEAN
    /\ client \in Seq(Block)
    /\ stops \in 0..MaxStops /\ forks \in 0..MaxForks

HistoryInit ==
    /\ chain = <<>> /\ final = <<>>
    /\ log = NoLog /\ running = "up"
    /\ session = NoSession /\ client = <<>>
    /\ stops = 0 /\ forks = 0

Here == [chain |-> chain, log |-> log, session |-> session]

Becomes(h) == chain' = h.chain /\ log' = h.log /\ session' = h.session

(* A block on the node's head, its own or a received one; irreversible blocks
   do not change. *)
accept_block ==
    /\ running = "up" /\ Len(chain) < MaxHeight
    /\ \E t \in Tag :
        /\ IsPrefix(final, Append(chain, t)) \/ IsPrefix(Append(chain, t), final)
        /\ \E head \in {chain, Append(chain, t)} : Becomes(Accepted(Here, Append(chain, t), head))
    /\ UNCHANGED <<final, running, client, stops, forks>>

(* The blocks of a branch above number n, lowest first. *)
Above(b, n) == [i \in 1..(Len(b) - n) |-> SubSeq(b, 1, n + i)]

(* maybe_switch_forks: blocks are popped without a signal, those of the longer
   branch accepted in order; when one of them fails the old ones are again. *)
switch_forks ==
    /\ running = "up" /\ forks < MaxForks
    /\ \E n \in LastFinal(chain)..(Len(chain) - 1), b \in Block :
        /\ Len(b) = Len(chain) + 1 /\ n < Len(b)
        /\ SubSeq(b, 1, n) = SubSeq(chain, 1, n) /\ b[n + 1] # chain[n + 1]
        /\ IsPrefix(final, b) \/ IsPrefix(b, final)
        /\ \/ Becomes(FoldLeft(Received, Here, Above(b, n)))
           \/ \E k \in 1..(Len(b) - n - 1) :
                Becomes(FoldLeft(Received, Here, SubSeq(Above(b, n), 1, k) \o Above(chain, n)))
    /\ forks' = forks + 1
    /\ UNCHANGED <<final, running, client, stops>>

(* Blocks become irreversible; the plugin does not listen. *)
irreversible ==
    /\ running = "up" /\ Len(final) < Len(chain)
    /\ final' = SubSeq(chain, 1, Len(final) + 1)
    /\ UNCHANGED <<chain, log, running, session, client, stops, forks>>

(* start and the first request: a client asks for the blocks after those it
   has and names all of them. *)
connect ==
    /\ running = "up" /\ ~session.open
    /\ session' = [NoSession EXCEPT !.open = TRUE]
    /\ UNCHANGED <<chain, final, log, running, client, stops, forks>>

MutTrustsClient(start) == start

(* get_blocks_request_v0: back to the first block named that is not the
   chain's. *)
StartFrom(start) ==
    LET wrong == {n \in 1..(start - 1) : get_block_id(chain, log, n) # client[n]}
    IN  IF wrong = {} THEN start ELSE CHOOSE n \in wrong : \A m \in wrong : n <= m

get_blocks ==
    /\ running = "up" /\ session.open
    /\ ~session.asked
    /\ \E finalOnly \in BOOLEAN, flight \in Flight :
        session' = send_update(chain, log,
                     [session EXCEPT !.asked = TRUE, !.start = StartFrom(Len(client) + 1),
                                     !.flight = flight, !.finalOnly = finalOnly, !.need = TRUE])
    /\ UNCHANGED <<chain, final, log, running, client, stops, forks>>

(* get_blocks_ack_request_v0 *)
get_blocks_ack ==
    /\ running = "up" /\ session.asked /\ session.flight = 0
    /\ \E n \in Flight \ {0} : session' = send_update(chain, log, [session EXCEPT !.flight = @ + n])
    /\ UNCHANGED <<chain, final, log, running, client, stops, forks>>

(* The message that is written arrives, and the next one is made.  The client
   keeps the blocks below the one it receives. *)
sent ==
    /\ session.queue # <<>>
    /\ session' = send_update(chain, log, [session EXCEPT !.queue = Tail(@)])
    /\ LET b == Head(session.queue)
       IN  client' = IF b = <<>> THEN client
                     ELSE Append(SubSeq(client, 1, lowest(Len(client), Len(b) - 1)), b)
    /\ UNCHANGED <<chain, final, log, running, stops, forks>>

(* close: a failing read or write, or the client leaves. *)
close ==
    /\ session.open /\ session' = NoSession
    /\ UNCHANGED <<chain, final, log, running, client, stops, forks>>

(* The node ends: an orderly stop, or a crash that may lose the bytes of the
   last entry still buffered, or lie between the two cuts of truncate. *)
stop ==
    /\ running = "up" /\ stops < MaxStops
    /\ \/ log' = log
       \/ \E t \in 0..2, k \in {0, 1} :
            /\ log.file # <<>>
            /\ log' = [log EXCEPT !.file = Front(@), !.torn = t,
                                  !.index = SubSeq(@, 1, Len(@) - k)]
       \/ /\ log.file # <<>>
          /\ log' = [log EXCEPT !.index = Front(@)]
       \/ \E n \in (log.begin + 1)..(log.end - 1) : log' = [log EXCEPT !.file = Cut(log, n)]
    /\ running' = "down" /\ session' = NoSession /\ stops' = stops + 1
    /\ UNCHANGED <<chain, final, client, forks>>

(* plugin_initialize: the node resumes its chain, or replays it from a block
   below the head. *)
start ==
    /\ running = "down"
    /\ IF Openable(log)
       THEN /\ running' = "up" /\ log' = opened(log)
            /\ \E n \in 0..Len(chain) : chain' = SubSeq(chain, 1, n)
       ELSE running' = "failed" /\ UNCHANGED <<chain, log>>
    /\ UNCHANGED <<final, session, client, stops, forks>>

(* --delete-state-history *)
delete_history ==
    /\ running \in {"down", "failed"}
    /\ log' = NoLog /\ running' = "up"
    /\ UNCHANGED <<chain, final, session, client, stops, forks>>

HistoryNext ==
    \/ accept_block \/ switch_forks \/ irreversible
    \/ connect \/ get_blocks \/ get_blocks_ack \/ sent \/ close
    \/ stop \/ start \/ delete_history

HistorySpec == HistoryInit /\ [][HistoryNext]_vars
-----------------------------------------------------------------------------
(* While the node runs, the log holds one entry for every block from begin to
   end, each linked to the one before, and the index leads to each of them,
   whatever was cut at forks, torn in crashes and recovered
   (state_history_log). *)
LogWhole ==
    running = "up" =>
        /\ Len(log.file) = log.end - log.begin
        /\ log.index = Positions(log.file)
        /\ \A i \in 1..Len(log.file) :
            /\ Len(log.file[i]) = log.begin + i - 1
            /\ i > 1 => log.file[i - 1] = Front(log.file[i])

(* The log has a branch of its own only where the chain has no block: where
   both have one, they agree (write_entry and truncate). *)
LogFollowsChain ==
    running = "up" =>
        \A i \in 1..Len(log.file) : Len(log.file[i]) <= Len(chain) => IsPrefix(log.file[i], chain)

(* A client that was sent everything it may be sent has the chain's blocks,
   after any forks, restarts and reconnections (on_accepted_block,
   get_blocks_request_v0, send_update).  All but the last: a received block is
   sent only with the next, since it is not yet the head when the sessions
   are told.  It presumes that the log kept up with the chain: the exception
   of a log that missed a block keeps the sessions waiting. *)
ClientUpToDate ==
    (running = "up" /\ session.asked /\ session.queue = <<>> /\ session.flight > 0
       /\ ~session.need /\ (log.end = 0 \/ log.end > Len(chain)) /\ ~session.finalOnly)
    => /\ Len(client) >= Len(chain) - 1
       /\ \A n \in 1..(Len(chain) - 1) : client[n] = SubSeq(chain, 1, n)

(* The blocks a client holds are always of one branch (prev_block). *)
ClientCoherent ==
    \A n \in 2..Len(client) : Front(client[n]) = client[n - 1]

(* A client that asks for irreversible blocks only is sent none that a
   fork may still replace, wherever its request was moved to (send_update with
   irreversible_only). *)
SendsFinal ==
    session.finalOnly => \A i \in 1..Len(session.queue) :
        LET b == session.queue[i] IN b # <<>> => IsPrefix(b, final)
=============================================================================
