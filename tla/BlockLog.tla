------------------------------ MODULE BlockLog ------------------------------
(***************************************************************************)
(* block_log: the irreversible blocks in two files, blocks.log (a header,  *)
(* then every block followed by its own position) and blocks.index (the    *)
(* positions alone), which open() brings together again after a crash and  *)
(* repair_log() salvages.                                                  *)
(*                                                                         *)
(* Blocks are their numbers, first_block_num is 1, and the position of the *)
(* i-th record is i, so blocks.log is the number recs of its complete      *)
(* records.  A record is written in pieces; what a crash or a failing      *)
(* write leaves behind the last complete one is `tail`: nothing, a part of *)
(* a block, or a whole block without its position.  append flushes the log *)
(* before the index, so a crash leaves no entry of the index without its   *)
(* block; a flush of the log that fails does, for the entry stays in the   *)
(* buffer of the index and the next seek writes it.  The streams throw,    *)
(* and one that has failed throws at every use until the log is opened     *)
(* again.                                                                  *)
(***************************************************************************)
EXTENDS Integers, Sequences

CONSTANTS
    MaxNum,     \* bound on block numbers
    MaxFaults   \* bound on crashes and failing writes

VARIABLES
    disk,       \* blocks.log: [version, recs, tail], or NoFile
    index,      \* blocks.index: the positions; empty when there is no file
    backup,     \* the recs of the directories repair_log moved away
    log,        \* the block_log object: [up, version, head, failed], failed the
                \* stream that has thrown
    acked,      \* history: the last block whose append returned
    faults

log_vars == <<disk, index, backup, log, acked, faults>>

Tails == {"none", "part", "block"}
Down == [up |-> FALSE, version |-> 0, head |-> 0, failed |-> "no"]
Log(v) == [version |-> v, recs |-> 0, tail |-> "none"]
NoFile == Log(-1)
MaxVersion == 2

TypeOK ==
    /\ disk.version \in {-1, 0, MaxVersion}
    /\ disk.tail \in Tails
    /\ disk.recs \in 0..MaxNum
    /\ index \in Seq(1..MaxNum)
    /\ backup \subseteq 0..MaxNum
    /\ log \in [up : BOOLEAN, version : {0, MaxVersion}, head : 0..MaxNum,
               failed : {"no", "block", "index"}]
    /\ acked \in 0..MaxNum
    /\ faults \in 0..MaxFaults

LogInit ==
    /\ disk = NoFile /\ index = <<>> /\ backup = {}
    /\ log = Down
    /\ acked = 0
    /\ faults = 0

Fault == faults < MaxFaults /\ faults' = faults + 1
-----------------------------------------------------------------------------
(* Reading. *)

(* What the last eight bytes of the log say: the position of the last       *)
(* record, the totem (0 here) before the first, garbage behind a torn one.  *)
EndPos(d) == IF d.tail = "none" THEN d.recs ELSE -1

(* read_head: a position that is garbage does not lead to a block. *)
CanReadHead(d) == EndPos(d) >= 0

(* get_block_pos and read_block_by_num: nothing beyond the head, an          *)
(* exception from a failed stream or from an index or a log that ends        *)
(* before the block, or the block that the index leads to.                   *)
None == 0
Throws == -1
read_block_by_num(n) ==
    IF n > log.head THEN None
    ELSE IF log.failed # "no" \/ n > Len(index) THEN Throws
    ELSE IF index[n] > disk.recs \/ index[n] # n THEN Throws ELSE n

(* construct_index: the positions of the records from the first to the last.*)
construct_index(d) == [i \in 1..EndPos(d) |-> i]

(* Mutation: an index that is too short is taken as it is. *)
MutKeepShort(d, x) ==
    IF x = <<>> THEN construct_index(d)
    ELSE IF EndPos(d) < x[Len(x)] THEN construct_index(d) ELSE x

(* open compares the last position in each file; the totem counts as npos. *)
SyncIndex(d, x) ==
    IF x = <<>> THEN construct_index(d)
    ELSE IF EndPos(d) # x[Len(x)] THEN construct_index(d) ELSE x

(* open: refused when the header was not finished or the head not readable. *)
CanOpen == disk = NoFile \/ (disk.version > 0 /\ CanReadHead(disk))
open ==
    /\ ~log.up
    /\ CanOpen
    /\ IF disk = NoFile
       THEN /\ index' = <<>>
            /\ log' = [Down EXCEPT !.up = TRUE]
       ELSE /\ index' = SyncIndex(disk, index)
            /\ log' = [up |-> TRUE, version |-> disk.version, head |-> disk.recs,
                       failed |-> "no"]
    /\ UNCHANGED <<disk, backup, acked, faults>>

(* The process dies while construct_index writes. *)
open_crash(n) ==
    /\ Fault
    /\ ~log.up
    /\ CanOpen /\ disk # NoFile
    /\ index # SyncIndex(disk, index)
    /\ n \in 0..disk.recs
    /\ index' = [i \in 1..n |-> i]
    /\ UNCHANGED <<disk, backup, log, acked>>
-----------------------------------------------------------------------------
(* Writing. *)

(* append's assertions: the genesis state is written, the index is where   *)
(* the number says.  The controller appends the next number.  A stream     *)
(* that has failed throws before anything is written.                      *)
CanAppend(b) == log.up /\ log.version > 0 /\ log.failed = "no" /\ Len(index) = b - 1

append(b) ==
    /\ CanAppend(b)
    /\ disk' = [disk EXCEPT !.recs = b]
    /\ index' = Append(index, disk.recs + 1)
    /\ log' = [log EXCEPT !.head = b]
    /\ acked' = b
    /\ UNCHANGED <<backup, faults>>

(* How far an append can get that does not return: a torn tail, or the     *)
(* block complete and its index entry missing or written.                  *)
Torn == {[disk EXCEPT !.tail = t] : t \in Tails}
Whole(b) == [disk EXCEPT !.recs = b]
append_stops(b) ==
    \/ disk' \in Torn /\ UNCHANGED index
    \/ disk' = Whole(b) /\ index' \in {index, Append(index, disk.recs + 1)}

append_crash(b) ==
    /\ Fault
    /\ CanAppend(b)
    /\ append_stops(b)
    /\ log' = Down
    /\ UNCHANGED <<backup, acked>>

(* A write or a flush throws.  The head is set between the writes and the  *)
(* flushes: it stays when a write throws, and is already the new block     *)
(* when the flush of the log does, or that of the index.                   *)
append_fails(b) ==
    /\ Fault
    /\ CanAppend(b)
    /\ \/ /\ disk' \in Torn /\ UNCHANGED index
          /\ log' = [log EXCEPT !.failed = "block"]
       \/ /\ disk' \in Torn /\ index' \in {index, Append(index, disk.recs + 1)}
          /\ log' = [log EXCEPT !.failed = "block", !.head = b]
       \/ /\ disk' = Whole(b) /\ UNCHANGED index
          /\ log' = [log EXCEPT !.failed = "index", !.head = b]
    /\ UNCHANGED <<backup, acked>>

(* The destructor flushes again what a failed flush left in the buffers:   *)
(* the record is complete if nothing of it had been written before.        *)
Rest == IF log.failed = "index" THEN disk
        ELSE IF disk.tail = "none" /\ log.head > disk.recs THEN Whole(log.head)
        ELSE [disk EXCEPT !.tail = "part"]

(* close and the destructor; the flush of a failed stream may throw again, *)
(* which ends the process.                                                 *)
close ==
    /\ log.up
    /\ log' = Down
    /\ \/ UNCHANGED <<disk, index>>
       \/ /\ log.failed # "no"
          /\ disk' = Rest
          /\ index' = IF Len(index) < log.head THEN Append(index, log.head) ELSE index
    /\ UNCHANGED <<backup, acked, faults>>

(* reset on a log without blocks: the version is written last.             *)
reset ==
    /\ log.up /\ log.version = 0 /\ disk.recs = 0
    /\ disk' = [Log(MaxVersion) EXCEPT !.recs = 1]
    /\ index' = <<1>>
    /\ log' = [up |-> TRUE, version |-> MaxVersion, head |-> 1, failed |-> "no"]
    /\ acked' = 1
    /\ UNCHANGED <<backup, faults>>

reset_crash ==
    /\ Fault
    /\ log.up /\ log.version = 0 /\ disk.recs = 0
    /\ \/ disk' = NoFile /\ index' = <<>>
       \/ disk' = Log(0) /\ index' = <<>>
       \/ disk' = [Log(0) EXCEPT !.tail = "part"] /\ index' = <<>>
       \/ disk' = [Log(0) EXCEPT !.recs = 1] /\ index' \in {<<>>, <<1>>}
    /\ log' = Down
    /\ UNCHANGED <<backup, acked>>
-----------------------------------------------------------------------------
(* repair_log, while no node runs: the directory is moved away and the      *)
(* records are copied until one is not followed by its own position, or up  *)
(* to truncate_at_block (0 for none).  The index is built by the next open. *)
CanRepair == ~log.up /\ disk # NoFile /\ disk.version > 0

repair_log(at) ==
    /\ CanRepair
    /\ at <= disk.recs
    /\ disk' = [disk EXCEPT !.tail = "none",
                            !.recs = IF at = 0 THEN @ ELSE at]
    /\ index' = <<>>
    /\ backup' = backup \cup {disk.recs}
    /\ UNCHANGED <<log, acked, faults>>

(* Mutation: the log is rewritten in place. *)
MutRepairInPlace(n) ==
    /\ Fault
    /\ CanRepair
    /\ n <= disk.recs
    /\ disk' \in {[disk EXCEPT !.recs = n, !.tail = t] : t \in Tails}
    /\ index' = <<>>
    /\ UNCHANGED <<backup, log, acked>>

(* The process dies while it copies. *)
repair_crash(n) ==
    /\ Fault
    /\ CanRepair
    /\ n <= disk.recs
    /\ disk' \in {[disk EXCEPT !.recs = n, !.tail = t] : t \in Tails}
    /\ index' = <<>>
    /\ backup' = backup \cup {disk.recs}
    /\ UNCHANGED <<log, acked>>

LogNext ==
    \/ open
    \/ \E n \in 0..MaxNum : open_crash(n)
    \/ \E b \in 1..MaxNum : append(b) \/ append_crash(b) \/ append_fails(b)
    \/ close
    \/ reset
    \/ reset_crash
    \/ \E n \in 0..MaxNum : repair_log(n) \/ repair_crash(n)

LogSpec == LogInit /\ [][LogNext]_log_vars
-----------------------------------------------------------------------------
(* Whatever crashes, failing writes and repairs came before, an open log    *)
(* finds every block of its file by its number, and no other.  Once a write *)
(* or a flush has failed, reads by number throw until the log is opened     *)
(* again, and the head is at most one block ahead of the file: the block    *)
(* whose flush failed.                                                      *)
FindsByNumber ==
    log.up =>
        IF log.failed = "no"
        THEN \A n \in 1..MaxNum :
                read_block_by_num(n) = IF n <= disk.recs THEN n ELSE None
        ELSE log.head \in {disk.recs, disk.recs + 1}

(* A block whose append returned is in the log, or in a directory that      *)
(* repair_log moved away, through crashes in append, open, reset and        *)
(* repair_log.                                                              *)
AppendedIsKept ==
    acked > 0 => acked <= disk.recs \/ \E n \in backup : acked <= n
=============================================================================
