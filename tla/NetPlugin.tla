------------------------------ MODULE NetPlugin ------------------------------
(***************************************************************************)
(* net_plugin: connections, the sync manager and the block half of the     *)
(* dispatch manager, on every node of a small network.  All handlers of a  *)
(* node run on its main thread, one after the other, so a handler is one   *)
(* step; they are written as operators from the node's state to the next.  *)
(* Every node runs this code.  Peers never send a "normal" notice, so the  *)
(* fetch path behind it (last_req) stays unused and is left out.           *)
(***************************************************************************)
EXTENDS Integers, Sequences, FiniteSets, SequencesExt

CONSTANTS
    Node,       \* names of the nodes
    Order,      \* the nodes in the order of std::set<connection_ptr>
    Block,      \* identifiers of blocks
    Genesis,
    Num,        \* number of a block
    Parent,     \* previous block
    Lib,        \* the last irreversible block when a block is the head
    Rank,       \* the fork database prefers the block of higher rank
    Maker,      \* the node that produces a block
    Span,       \* sync_req_span
    MaxBatch,   \* messages one read may take from the socket
    Rival,      \* blocks made while another node makes the one of that number
    Scenario    \* [head: of each node, dials: its supplied_peers, trouble: how many rivals,
                \*  connections that break and timers whose handler comes late]

VARIABLES
    node,       \* the state of each node's net_plugin and chain
    wire,       \* wire[n][p]: written by n to the socket, not yet read by p
    trouble,    \* troubles still to come
    odd         \* what happened that a synchronisation may not survive

vars == <<node, wire, trouble, odd>>

None == "none"

Branch[b \in Block] == IF b = Genesis THEN {b} ELSE {b} \cup Branch[Parent[b]]

Larger(a, b) == IF a > b THEN a ELSE b

Smaller(a, b) == IF a < b THEN a ELSE b

----------------------------------------------------------------------------
(* Messages *)

handshake_message(gen, s) ==
    [kind |-> "handshake", gen |-> gen, head |-> s.head, lib |-> s.lib]

notice_message(trx, trx_pending, blocks, ids) ==
    [kind |-> "notice", trx |-> trx, trx_pending |-> trx_pending, blocks |-> blocks, ids |-> ids]

request_message(blocks) == [kind |-> "request", blocks |-> blocks]

sync_request_message(start, end) ==
    [kind |-> "sync_request", start |-> start, end |-> end]

go_away_message(reason) == [kind |-> "go_away", reason |-> reason]

signed_block(b) == [kind |-> "block", id |-> b]

----------------------------------------------------------------------------
(* A connection.  hs is what is left of the peer's last handshake.         *)

NoRequest == [start |-> 0, end |-> 0, last |-> 0]

NoHandshake == [lib_id_num |-> 0, lib_num |-> 0]

connection(inbound) ==
    [ inbound |-> inbound, open |-> inbound, connecting |-> inbound, syncing |-> FALSE,
      write_queue |-> <<>>, sync_write_queue |-> <<>>, out_queue |-> <<>>, writing |-> FALSE,
      peer_requested |-> NoRequest, hs |-> NoHandshake, sent |-> 0,
      armed |-> FALSE, posted |-> FALSE, fork_head |-> None, fork_head_num |-> 0,
      no_retry |-> FALSE, blk_state |-> {} ]

connections(s) == DOMAIN s.conn

connected(s, c) == c \in connections(s) /\ s.conn[c].open /\ ~s.conn[c].connecting

current(s, c) == connected(s, c) /\ ~s.conn[c].syncing

\* do_queue_write on an open socket: the sync queue goes first, and the other
\* queue waits until it is empty.
do_queue_write(x) ==
    IF x.out_queue # <<>> THEN x
    ELSE IF x.sync_write_queue # <<>>
    THEN [x EXCEPT !.out_queue = x.sync_write_queue, !.sync_write_queue = <<>>, !.writing = TRUE]
    ELSE IF x.write_queue # <<>>
    THEN [x EXCEPT !.out_queue = x.write_queue, !.write_queue = <<>>, !.writing = TRUE]
    ELSE x

\* queue_write on an open socket.
queue_write(x, m, trigger_send, to_sync_queue) ==
    LET y == IF to_sync_queue THEN [x EXCEPT !.sync_write_queue = Append(@, m)]
                              ELSE [x EXCEPT !.write_queue = Append(@, m)]
    IN  IF trigger_send THEN do_queue_write(y) ELSE y

\* To a peer whose socket is open.
enqueue_open(s, c, m) == [s EXCEPT !.conn[c] = queue_write(@, m, TRUE, FALSE)]

cancel_wait(s, c) == [s EXCEPT !.conn[c].armed = FALSE]

sync_wait(s, c) == [s EXCEPT !.conn[c].armed = TRUE]

\* Mutation: what is being written is dropped too.
MutFlushWritten(s, c) ==
    [s EXCEPT !.conn[c].write_queue = <<>>, !.conn[c].sync_write_queue = <<>>, !.conn[c].out_queue = <<>>]

flush_queues(s, c) == [s EXCEPT !.conn[c].write_queue = <<>>, !.conn[c].sync_write_queue = <<>>]

\* Mutation: no timer is set.
MutNoTimer(s, c, start, end) == enqueue_open(s, c, sync_request_message(start, end))

request_sync_blocks(s, c, start, end) ==
    sync_wait(enqueue_open(s, c, sync_request_message(start, end)), c)

----------------------------------------------------------------------------
(* sync_manager *)

\* The peers after the old source in the ring of connections, itself last.
RingFrom(s) ==
    LET ring == SelectSeq(Order, LAMBDA c : c \in connections(s))
        at == IF s.source \in connections(s)
              THEN CHOOSE i \in DOMAIN ring : ring[i] = s.source ELSE Len(ring)
    IN  [i \in DOMAIN ring |-> ring[((at + i - 1) % Len(ring)) + 1]]

\* The next chunk's provider: the given one, or the next current one in the ring.
next_source(s, c) ==
    LET able == SelectSeq(RingFrom(s), LAMBDA p : current(s, p))
        kept == IF s.source \in connections(s) THEN s.source ELSE None
    IN  IF c # None /\ current(s, c) THEN c
        ELSE CASE connections(s) = {} -> None
               [] Cardinality(connections(s)) = 1 ->
                    IF s.source = None THEN CHOOSE p \in connections(s) : TRUE ELSE s.source
               [] OTHER -> IF able = <<>> THEN kept ELSE Head(able)

request_next_chunk(s, c) ==
    IF Num[s.head] < s.last_requested /\ current(s, s.source) THEN s
    ELSE LET t == [s EXCEPT !.source = next_source(s, c)]
             end == Smaller(t.next_expected + Span - 1, t.known_lib)
         IN  IF ~current(t, t.source)
             THEN [t EXCEPT !.known_lib = Num[t.lib], !.last_requested = 0, !.state = "in_sync"]
             ELSE IF t.last_requested # t.known_lib /\ end > 0 /\ end >= t.next_expected
             THEN [request_sync_blocks(t, t.source, t.next_expected, end)
                      EXCEPT !.last_requested = end]
             ELSE t

reset_lib_num(s, c) ==
    LET t == IF s.state = "in_sync" THEN [s EXCEPT !.source = None] ELSE s
    IN  IF current(t, c) THEN [t EXCEPT !.known_lib = Larger(@, t.conn[c].hs.lib_num)]
        ELSE IF c = t.source THEN request_next_chunk([t EXCEPT !.last_requested = 0], None)
        ELSE t

\* net_plugin_impl::close and connection::close.
close(s, c) ==
    LET t == [flush_queues(s, c) EXCEPT
                 !.conn[c].open = FALSE, !.conn[c].connecting = FALSE, !.conn[c].syncing = FALSE,
                 !.conn[c].peer_requested = NoRequest, !.conn[c].blk_state = {},
                 !.conn[c].sent = 0, !.conn[c].hs = NoHandshake]
    IN  cancel_wait(reset_lib_num(t, c), c)

\* To a peer whose socket an earlier message of the same read may have closed.
enqueue_buffer(s, c, m, trigger_send, to_sync_queue) ==
    IF trigger_send /\ ~s.conn[c].open /\ s.conn[c].out_queue = <<>> THEN close(s, c)
    ELSE [s EXCEPT !.conn[c] = queue_write(@, m, trigger_send, to_sync_queue)]

enqueue(s, c, m) == enqueue_buffer(s, c, m, TRUE, FALSE)

\* Only the first generation is told from the others.
send_handshake(s, c) ==
    LET t == [s EXCEPT !.conn[c].sent = Smaller(@ + 1, 2)]
    IN  enqueue(t, c, handshake_message(t.conn[c].sent, t))

\* Mutation: the peers are not told of the new head.
MutNoHandshakes(s) == s

send_handshakes(s) ==
    [s EXCEPT !.conn = [c \in connections(s) |->
        IF current(s, c) THEN send_handshake(s, c).conn[c] ELSE s.conn[c]]]

sync_required(s) == s.last_requested < s.known_lib \/ Num[s.head] < s.last_requested

start_sync(s, c, target) ==
    LET t == [s EXCEPT !.known_lib = Larger(@, target)]
        u == IF t.state = "in_sync"
             THEN [t EXCEPT !.state = "lib_catchup", !.next_expected = Num[t.lib] + 1] ELSE t
    IN  IF sync_required(t) THEN request_next_chunk(u, c) ELSE t

\* cancel_sync for benign_other, then another source.
reassign_fetch(s, c) ==
    IF c # s.source THEN s
    ELSE LET t == enqueue(flush_queues(cancel_wait(s, c), c), c, sync_request_message(0, 0))
         IN  request_next_chunk([t EXCEPT !.last_requested = 0], None)

\* Some peer is already the source of that head, or of a later one.
served(s, id) ==
    \E p \in connections(s) : s.conn[p].fork_head = id \/ s.conn[p].fork_head_num > Num[id]

verify_catchup(s, c, id) ==
    IF served(s, id)
    THEN enqueue([s EXCEPT !.conn[c].fork_head = None, !.conn[c].fork_head_num = 0],
                 c, request_message("none"))
    ELSE IF s.state = "lib_catchup" THEN s
    ELSE enqueue([s EXCEPT !.state = "head_catchup", !.conn[c].fork_head = id,
                           !.conn[c].fork_head_num = Num[id]],
                 c, request_message("catch_up"))

fetch_block_by_number(s, num) == {b \in Branch[s.head] : Num[b] = num}

\* The five cases of the comment "sync need checks".
recv_handshake(s, c, msg) ==
    LET t == [reset_lib_num(s, c) EXCEPT !.conn[c].syncing = FALSE]
        Tell(notice) == [enqueue(t, c, notice) EXCEPT !.conn[c].syncing = TRUE]
        ahead == Tell(notice_message("none", 0, "catch_up", <<t.head>>))
        want(u) == enqueue(u, c, request_message("catch_up"))
    IN  IF t.head = msg.head THEN enqueue(t, c, notice_message("catch_up", 0, "none", <<>>))
        ELSE IF Num[t.head] < Num[msg.lib] THEN t
        ELSE IF Num[t.lib] > Num[msg.head]
        THEN Tell(notice_message("last_irr_catch_up", Num[t.lib], "last_irr_catch_up", <<>>))
        ELSE IF Num[t.head] < Num[msg.head]
        THEN IF t.state = "lib_catchup" /\ ~served(t, msg.head) THEN want(t)
             ELSE verify_catchup(t, c, msg.head)
        ELSE IF fetch_block_by_number(t, Num[msg.head]) # {msg.head} THEN want(ahead)
        ELSE ahead

recv_notice(s, c, msg) ==
    IF msg.blocks = "catch_up" THEN verify_catchup(s, c, msg.ids[1])
    ELSE LET t == [s EXCEPT !.conn[c].hs.lib_num = msg.trx_pending]
         IN  start_sync(reset_lib_num(t, c), c, msg.trx_pending)

rejected_block(s, c) ==
    IF s.state = "in_sync" THEN s
    ELSE LET t == close([s EXCEPT !.last_requested = 0, !.source = None], c)
         IN  send_handshakes([t EXCEPT !.state = "in_sync"])

\* In head_catchup every connection's fork head is compared, in the order of
\* connections, and it is the sender's that is cleared.
fork_heads(s, c, b) ==
    LET Visit(u, p) ==
            IF u.conn[p].fork_head = None THEN u
            ELSE IF u.conn[p].fork_head = b \/ u.conn[p].fork_head_num < Num[b]
            THEN [u EXCEPT !.conn[c].fork_head = None, !.conn[c].fork_head_num = 0]
            ELSE [u EXCEPT !.state = "head_catchup"]
    IN  FoldLeft(Visit, [s EXCEPT !.state = "in_sync", !.source = None],
                 SelectSeq(Order, LAMBDA p : p \in connections(s)))

recv_block(s, c, b) ==
    LET t == [s EXCEPT !.next_expected = Num[b] + 1]
        u == fork_heads(s, c, b)
    IN  IF s.state = "lib_catchup" /\ Num[b] # s.next_expected THEN close(s, c)
        ELSE IF s.state = "head_catchup"
        THEN IF u.state = "in_sync" THEN send_handshakes(u) ELSE u
        ELSE IF s.state = "in_sync" THEN s
        ELSE IF Num[b] = s.known_lib THEN send_handshakes([t EXCEPT !.state = "in_sync"])
        ELSE IF Num[b] = s.last_requested THEN request_next_chunk(t, None)
        ELSE sync_wait(t, c)

----------------------------------------------------------------------------
(* dispatch_manager, blocks *)

\* blk_state holds one block of a number, so a second one is sent and not kept.
add_peer_block(x, b) ==
    IF \E e \in x.blk_state : Num[e] = Num[b] THEN x ELSE [x EXCEPT !.blk_state = @ \cup {b}]

\* Mutation: a peer that is not sent the block is marked as having it.
MutMarkUnsent(s, b) ==
    LET skips == {c \in connections(s) : <<b, c>> \in s.received_blocks}
        To(c) == /\ c \notin skips /\ current(s, c)
                 /\ s.conn[c].hs.lib_num < Num[b] /\ b \notin s.conn[c].blk_state
    IN  [s EXCEPT !.received_blocks = {r \in @ : r[1] # b},
                  !.conn = [c \in connections(s) |->
                     IF To(c) THEN queue_write(add_peer_block(s.conn[c], b), signed_block(b), TRUE, FALSE)
                     ELSE add_peer_block(s.conn[c], b)]]

bcast_block(s, b) ==
    LET skips == {c \in connections(s) : <<b, c>> \in s.received_blocks}
        To(c) == /\ c \notin skips /\ current(s, c)
                 /\ s.conn[c].hs.lib_num < Num[b] /\ b \notin s.conn[c].blk_state
    IN  [s EXCEPT !.received_blocks = {r \in @ : r[1] # b},
                  !.conn = [c \in connections(s) |->
                     IF To(c) THEN queue_write(add_peer_block(s.conn[c], b), signed_block(b), TRUE, FALSE)
                     ELSE s.conn[c]]]

\* The chain: a block becomes the head if the fork database prefers it, every
\* block applied on the way is announced (accepted_block), and what is not on
\* the irreversible branch goes.
linkable(s, b) == Parent[b] \in s.known /\ Num[Parent[b]] >= Num[s.lib]

apply_blocks(s, b) ==
    LET applied == Branch[b] \ Branch[s.head]
        t == [s EXCEPT !.head = b, !.lib = Lib[b],
                       !.known = {x \in @ \cup {b} : x \in Branch[Lib[b]] \/ Lib[b] \in Branch[x]}]
    IN  FoldLeft(bcast_block, t, SetToSortSeq(applied, LAMBDA x, y : Num[x] < Num[y]))

push_block(s, b) ==
    IF Rank[b] > Rank[s.head] THEN apply_blocks(s, b) ELSE [s EXCEPT !.known = @ \cup {b}]

enqueue_sync_block(s, c) ==
    LET r == s.conn[c].peer_requested
        num == r.last + 1
        found == fetch_block_by_number(s, num)
        t == [s EXCEPT !.conn[c].peer_requested =
                 IF num = r.end THEN NoRequest ELSE [r EXCEPT !.last = num]]
    IN  IF r = NoRequest THEN s
        ELSE IF found = {} THEN t
        ELSE enqueue_buffer(t, c, signed_block(CHOOSE b \in found : TRUE), num = r.start, TRUE)

blk_send_branch(s, c) ==
    LET x == s.conn[c]
        lib == x.hs.lib_id_num
        start == IF x.peer_requested = NoRequest THEN lib + 1
                 ELSE Smaller(x.peer_requested.last + 1, lib + 1)
        end == Larger(x.peer_requested.end, Num[s.head])
        t == [s EXCEPT !.conn[c].peer_requested = [start |-> start, end |-> end, last |-> start - 1]]
        u == IF start <= end THEN enqueue_sync_block(t, c)
             ELSE [s EXCEPT !.conn[c].peer_requested = NoRequest]
    IN  [u EXCEPT !.conn[c].syncing = FALSE]

----------------------------------------------------------------------------
(* net_plugin_impl::handle_message *)

handle_handshake(s, c, msg) ==
    LET t == [s EXCEPT !.conn[c].connecting = FALSE]
        forked == Num[msg.lib] <= Num[t.lib] /\ msg.lib \notin Branch[t.lib]
        u == IF msg.gen = 1 /\ t.conn[c].sent = 0 THEN send_handshake(t, c) ELSE t
    IN  IF msg.gen = 1 /\ forked THEN enqueue(t, c, go_away_message("forked"))
        ELSE recv_handshake(
                 [u EXCEPT !.conn[c].hs = [lib_id_num |-> Num[msg.lib], lib_num |-> Num[msg.lib]]],
                 c, msg)

handle_go_away(s, c, msg) == close(flush_queues([s EXCEPT !.conn[c].no_retry = TRUE], c), c)

\* Transactions are not modelled: no notice has any pending.
handle_notice(s, c, msg) ==
    LET t == [s EXCEPT !.conn[c].connecting = FALSE]
    IN  IF msg.blocks = "none" THEN t ELSE recv_notice(t, c, msg)

handle_request(s, c, msg) ==
    IF msg.blocks = "catch_up" THEN blk_send_branch(s, c)
    ELSE [s EXCEPT !.conn[c].syncing = FALSE]

handle_sync_request(s, c, msg) ==
    IF msg.end = 0 THEN flush_queues([s EXCEPT !.conn[c].peer_requested = NoRequest], c)
    ELSE enqueue_sync_block(
             [s EXCEPT !.conn[c].peer_requested =
                 [start |-> msg.start, end |-> msg.end, last |-> msg.start - 1]], c)

\* A known block leaves the timer running (process_next_message); a new one
\* that does not link is rejected.
handle_block(s, c, msg) ==
    LET b == msg.id
        t == cancel_wait([s EXCEPT !.received_blocks = @ \cup {<<b, c>>}], c)
    IN  IF b \in s.known THEN recv_block(s, c, b)
        ELSE IF linkable(s, b) THEN recv_block(push_block(t, b), c, b)
        ELSE [rejected_block(t, c) EXCEPT !.received_blocks = {r \in @ : r[1] # b}]

handle_message(s, c, msg) ==
    CASE msg.kind = "handshake" -> handle_handshake(s, c, msg)
      [] msg.kind = "go_away" -> handle_go_away(s, c, msg)
      [] msg.kind = "notice" -> handle_notice(s, c, msg)
      [] msg.kind = "request" -> handle_request(s, c, msg)
      [] msg.kind = "sync_request" -> handle_sync_request(s, c, msg)
      [] msg.kind = "block" -> handle_block(s, c, msg)

----------------------------------------------------------------------------
(* The state machine *)

\* The peer's end of the connection.
PeerOpen(n, c) == n \in connections(node[c]) /\ node[c].conn[n].open

NewNode(sc, n) ==
    [ head |-> sc.head[n], lib |-> Lib[sc.head[n]], known |-> Branch[sc.head[n]],
      known_lib |-> 0, last_requested |-> 0, next_expected |-> 1, source |-> None,
      state |-> "in_sync", received_blocks |-> {},
      conn |-> [c \in sc.dials[n] |-> connection(FALSE)] ]

Init ==
    /\ \E sc \in Scenario :
          /\ node = [n \in Node |-> NewNode(sc, n)]
          /\ trouble = sc.trouble
    /\ wire = [n \in Node |-> [p \in Node |-> <<>>]]
    /\ odd = {}

\* connection_monitor dials a closed connection again; the peer's listen loop
\* accepts it.
connect(n, c) ==
    /\ c \in connections(node[n])
    /\ LET x == node[n].conn[c] IN ~x.inbound /\ ~x.open /\ ~x.connecting /\ ~x.writing /\ ~x.no_retry
    /\ n \notin connections(node[c])
    /\ LET t == [node[n] EXCEPT !.conn[c].open = TRUE, !.conn[c].connecting = TRUE,
                                !.conn[c].out_queue = <<>>]
           accepted == [p \in connections(node[c]) \cup {n} |->
                           IF p = n THEN connection(TRUE) ELSE node[c].conn[p]]
       IN  node' = [node EXCEPT ![n] = send_handshake(t, c), ![c].conn = accepted]
    /\ wire' = [wire EXCEPT ![n][c] = <<>>, ![c][n] = <<>>]
    /\ UNCHANGED <<trouble, odd>>

\* connection_monitor forgets a closed connection that the peer had opened.
forget(n, c) ==
    /\ c \in connections(node[n])
    /\ LET x == node[n].conn[c] IN x.inbound /\ ~x.open /\ ~x.writing
    /\ node' = [node EXCEPT
          ![n].conn = [p \in connections(node[n]) \ {c} |-> node[n].conn[p]],
          ![n].source = IF @ = c THEN "gone" ELSE @,
          ![n].received_blocks = {r \in @ : r[2] # c}]
    /\ UNCHANGED <<wire, trouble, odd>>

\* async_read delivers up to MaxBatch messages, which one handler processes.
read_message(n, c) ==
    /\ c \in connections(node[n]) /\ node[n].conn[c].open
    /\ \E k \in 1..MaxBatch :
          /\ k <= Len(wire[c][n])
          /\ LET Handle(s, m) == handle_message(s, c, m)
             IN  node' = [node EXCEPT ![n] = FoldLeft(Handle, @, SubSeq(wire[c][n], 1, k))]
          /\ wire' = [wire EXCEPT ![c][n] = SubSeq(@, k + 1, Len(@))]
    /\ UNCHANGED <<trouble, odd>>

\* The peer has closed its end: the read fails, with or without what was sent before.
read_error(n, c) ==
    /\ c \in connections(node[n]) /\ node[n].conn[c].open /\ ~PeerOpen(n, c)
    /\ node' = [node EXCEPT ![n] = close(@, c)]
    /\ UNCHANGED <<wire, trouble, odd>>

\* The network breaks a connection; n notices first.
break(n, c) ==
    /\ trouble > 0 /\ trouble' = trouble - 1
    /\ c \in connections(node[n]) /\ node[n].conn[c].open
    /\ node' = [node EXCEPT ![n] = close(@, c)]
    /\ UNCHANGED <<wire, odd>>

\* The completion handler of async_write.
write_done(n, c) ==
    /\ c \in connections(node[n])
    /\ LET x == node[n].conn[c]
           bye == \E i \in DOMAIN x.out_queue : x.out_queue[i].kind = "go_away"
           s == [node[n] EXCEPT !.conn[c].writing = FALSE]
           t == IF bye THEN close(s, c) ELSE s
           u == enqueue_sync_block([t EXCEPT !.conn[c].out_queue = <<>>], c)
       IN  /\ x.writing
           /\ node' = [node EXCEPT ![n] = IF x.open THEN [u EXCEPT !.conn[c] = do_queue_write(@)]
                                                    ELSE close(s, c)]
           /\ wire' = IF x.open /\ PeerOpen(n, c)
                      THEN [wire EXCEPT ![n][c] = @ \o x.out_queue] ELSE wire
    /\ UNCHANGED <<trouble, odd>>

\* Nothing is on its way between n and c, nor the news of a closed socket: the
\* timers are longer than that takes.
Quiet(n, c) ==
    /\ wire[n][c] = <<>> /\ wire[c][n] = <<>> /\ ~node[n].conn[c].writing
    /\ PeerOpen(n, c) /\ ~node[c].conn[n].writing

\* response_expected expires and sync_timeout runs before anything else does.
sync_timeout(n, c) ==
    /\ c \in connections(node[n]) /\ node[n].conn[c].armed /\ Quiet(n, c)
    /\ node' = [node EXCEPT ![n] = reassign_fetch(cancel_wait(@, c), c)]
    /\ UNCHANGED <<wire, trouble, odd>>

\* It expires while an answer is on its way, or other handlers are posted with a
\* higher priority: cancel() comes too late for it then, and it runs later.
expire(n, c) ==
    /\ trouble > 0 /\ trouble' = trouble - 1 /\ odd' = odd \cup {"late timer"}
    /\ c \in connections(node[n]) /\ node[n].conn[c].armed
    /\ node' = [node EXCEPT ![n].conn[c].armed = FALSE, ![n].conn[c].posted = TRUE]
    /\ UNCHANGED wire

late_timeout(n, c) ==
    /\ c \in connections(node[n]) /\ node[n].conn[c].posted
    /\ node' = [node EXCEPT ![n] = reassign_fetch([@ EXCEPT !.conn[c].posted = FALSE], c)]
    /\ UNCHANGED <<wire, trouble, odd>>

\* expire_txns: the blocks up to the LIB are forgotten, except block number 0.
expire_txns(n) ==
    /\ \/ \E r \in node[n].received_blocks : Num[r[1]] <= Num[node[n].lib]
       \/ \E c \in connections(node[n]), b \in Block :
             b \in node[n].conn[c].blk_state /\ Num[b] <= Num[node[n].lib]
    /\ node' = [node EXCEPT
          ![n].received_blocks = {r \in @ : Num[r[1]] > Num[node[n].lib]},
          ![n].conn = [c \in DOMAIN @ |->
              [@[c] EXCEPT !.blk_state = {b \in @ : Num[b] > Num[node[n].lib]}]]]
    /\ UNCHANGED <<wire, trouble, odd>>

\* The node's producer makes the next block on its head; the block may move the LIB.
produce(b) ==
    LET n == Maker[b]
    IN  /\ n \in Node /\ b \notin node[n].known /\ node[n].head = Parent[b]
        /\ IF b \in Rival THEN trouble > 0 /\ trouble' = trouble - 1 ELSE UNCHANGED trouble
        /\ node' = [node EXCEPT ![n] = push_block(@, b)]
        /\ odd' = odd \cup (IF Lib[b] = node[n].lib THEN {} ELSE {"new lib"})
        /\ UNCHANGED wire

\* A handler of node n that is due.
handler(n) ==
    \E c \in connections(node[n]) :
        \/ connect(n, c) \/ forget(n, c) \/ read_message(n, c) \/ read_error(n, c)
        \/ write_done(n, c) \/ sync_timeout(n, c) \/ late_timeout(n, c)

Next ==
    \/ \E n \in Node : handler(n) \/ expire_txns(n)
    \/ \E n, c \in Node : break(n, c) \/ expire(n, c)
    \/ \E b \in Block : produce(b)

Spec == Init /\ [][Next]_vars

\* When handler(n) is enabled: a socket to close, to open again or to read from, a
\* write that is done, or a timer.
due(n) ==
    \E c \in connections(node[n]) :
        LET x == node[n].conn[c]
        IN  \/ x.open /\ (wire[c][n] # <<>> \/ ~PeerOpen(n, c))
            \/ ~x.open /\ x.inbound
            \/ ~x.open /\ ~x.connecting /\ ~x.no_retry /\ n \notin connections(node[c])
            \/ x.writing \/ x.posted
            \/ x.armed /\ Quiet(n, c)

\* The nodes' event loops run as long as some handler is due.  A broken connection
\* and a new block are never due.  Only handlers can run for ever: the other steps
\* use up trouble, a block to make or blocks to forget.
Fairness == []<>(\A n \in Node : ~due(n)) \/ []<><<Next>>_vars

FairSpec == Spec /\ Fairness

----------------------------------------------------------------------------
(* Properties *)

Stages == {"lib_catchup", "head_catchup", "in_sync"}

TypeOK ==
    /\ trouble \in Nat /\ odd \subseteq {"late timer", "new lib"}
    /\ \A n \in Node :
          /\ node[n].head \in node[n].known /\ node[n].lib \in Branch[node[n].head]
          /\ node[n].known \subseteq Block /\ node[n].state \in Stages
          /\ node[n].source \in Node \cup {None, "gone"}
          /\ connections(node[n]) \subseteq Node \ {n}
          /\ \A c \in connections(node[n]) :
                /\ node[n].conn[c].fork_head \in Block \cup {None}
                /\ node[n].conn[c].writing => node[n].conn[c].out_queue # <<>>

\* A node that lacks irreversible blocks it knows of and is catching up waits for
\* an answer: the timer of some connection runs, or has just expired.
NeverStalls ==
    \A n \in Node : node[n].state = "lib_catchup" /\ Num[node[n].head] < node[n].known_lib =>
        \E c \in connections(node[n]) : node[n].conn[c].armed \/ node[n].conn[c].posted

\* The heads of a node and its peers are equally preferred by the fork database.  Two
\* things can leave a node behind for good.  A timer whose handler comes late flushes
\* the request for the peer's branch.  And a last_irr_catch_up notice that comes after
\* the blocks it tells of makes start_sync enter lib_catchup without a request and
\* without a timer, while the peer waits for one.
Agreed ==
    odd # {} \/ \A n \in Node : \A c \in connections(node[n]) :
                    Rank[node[n].head] = Rank[node[c].head]

\* Through broken connections and with several peers to fetch from, nodes whose timers
\* run in time and whose LIB no new block moves end on equally preferred heads.
Converges == <>[]Agreed

\* Without late timers, a block that a node's blk_state says a peer has is known to
\* that peer once nothing is under way between them, or is behind its LIB: a node
\* never leaves out of a broadcast a peer that still misses the block.
SentIsKnown ==
    \A n \in Node : \A c \in connections(node[n]) :
        "late timer" \notin odd /\ node[n].conn[c].open /\ Quiet(n, c) =>
            \A b \in node[n].conn[c].blk_state : b \in node[c].known \/ Num[b] <= Num[node[c].lib]

=============================================================================
