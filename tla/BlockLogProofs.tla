--------------------------- MODULE BlockLogProofs ---------------------------
(***************************************************************************)
(* Proofs about BlockLog, for any number of blocks, crashes, failing       *)
(* writes and repairs.                                                     *)
(*                                                                         *)
(* Both properties rest on one fact about the two files that no crash may  *)
(* disturb: the index holds the positions of the first records of the log  *)
(* in their order.  It may hold too few of them, or, after a failed flush, *)
(* one of a record that is not there; open notices both by the last one.   *)
(***************************************************************************)
EXTENDS BlockLog, TLAPS

Disks == [version : {-1, 0, MaxVersion}, recs : 0..MaxNum, tail : Tails]

Positions(x) == \A i \in 1..Len(x) : x[i] = i

\* While no write has failed the files and the head agree; afterwards the head
\* and the index are at most one block ahead of the log.
OpenInv ==
    log.up =>
        /\ log.version = 0 => log.head = 0 /\ disk.recs = 0 /\ log.failed = "no"
        /\ log.version > 0 /\ log.failed = "no" =>
              log.head = disk.recs /\ Len(index) = log.head /\ disk.tail = "none"
        /\ log.failed # "no" =>
              /\ log.head \in {disk.recs, disk.recs + 1}
              /\ Len(index) \in {log.head - 1, log.head}

LogInv ==
    /\ disk \in Disks
    /\ TypeOK
    /\ Positions(index)
    /\ OpenInv
    /\ AppendedIsKept
-----------------------------------------------------------------------------
\* construct_index gives the positions of all records.
LEMMA ConstructIndex ==
    ASSUME MaxNum \in Nat, NEW n \in 0..MaxNum
    PROVE  LET x == [i \in 1..n |-> i]
           IN  x \in Seq(1..MaxNum) /\ Len(x) = n /\ Positions(x)
<1> DEFINE x == [i \in 1..n |-> i]
<1>1. x \in Seq(1..MaxNum)
    <2>1. \A i \in 1..n : i \in 1..MaxNum
        OBVIOUS
    <2>2. x \in [1..n -> 1..MaxNum]
        BY <2>1
    <2> QED
        BY <2>2
<1>2. Len(x) = n
    BY DOMAIN x = 1..n
<1> QED
    BY <1>1, <1>2 DEF Positions

LEMMA EmptyIndex == <<>> \in Seq(1..MaxNum) /\ Positions(<<>>) /\ Len(<<>>) = 0
    BY DEF Positions

\* append writes the position the index lacks.
LEMMA AppendPosition ==
    ASSUME MaxNum \in Nat, index \in Seq(1..MaxNum), Positions(index),
           NEW b \in 1..MaxNum, Len(index) = b - 1
    PROVE  LET x == Append(index, b)
           IN  x \in Seq(1..MaxNum) /\ Len(x) = b /\ Positions(x)
    BY DEF Positions

\* After open the index has a position for each record of the log.
LEMMA SyncedIndex ==
    ASSUME MaxNum \in Nat, disk \in Disks, index \in Seq(1..MaxNum), Positions(index),
           disk # NoFile, disk.version > 0, CanReadHead(disk)
    PROVE  LET x == SyncIndex(disk, index)
           IN  x \in Seq(1..MaxNum) /\ Len(x) = disk.recs /\ Positions(x)
<1>1. disk.tail = "none" /\ EndPos(disk) = disk.recs /\ disk.recs \in 0..MaxNum
    BY DEF Disks, CanReadHead, EndPos
<1>2. CASE index = <<>> \/ disk.recs # index[Len(index)]
    <2>1. SyncIndex(disk, index) = [i \in 1..disk.recs |-> i]
        BY <1>1, <1>2 DEF SyncIndex, construct_index
    <2> QED
        BY <1>1, <2>1, ConstructIndex
<1>3. CASE index # <<>> /\ disk.recs = index[Len(index)]
    <2>1. SyncIndex(disk, index) = index
        BY <1>1, <1>3 DEF SyncIndex
    <2>2. Len(index) \in 1..Len(index)
        BY <1>3
    <2>3. index[Len(index)] = Len(index)
        BY <2>2 DEF Positions
    <2> QED
        BY <1>3, <2>1, <2>3
<1> QED
    BY <1>2, <1>3
-----------------------------------------------------------------------------
LEMMA LogStart ==
    ASSUME MaxNum \in Nat \ {0}, MaxFaults \in Nat, LogInit
    PROVE  LogInv
    BY DEF LogInit, LogInv, TypeOK, Disks, NoFile, Log, Down, Tails, MaxVersion, Positions,
           AppendedIsKept, OpenInv

\* How far an append gets that does not return: both files hold what they
\* held, or one record more, the log before the index.
LEMMA AppendStops ==
    ASSUME MaxNum \in Nat \ {0}, LogInv, NEW b \in 1..MaxNum, CanAppend(b), append_stops(b)
    PROVE  /\ disk' \in Disks
           /\ index' \in Seq(1..MaxNum) /\ Positions(index')
           /\ disk.recs <= disk'.recs
<1>1. /\ disk \in Disks /\ index \in Seq(1..MaxNum) /\ Positions(index)
      /\ Len(index) = disk.recs /\ disk.recs = b - 1
    BY DEF LogInv, TypeOK, CanAppend, OpenInv
<1>2. CASE disk' \in Torn /\ UNCHANGED index
    BY <1>1, <1>2 DEF Torn, Disks, Tails
<1>3. CASE disk' = Whole(b) /\ index' \in {index, Append(index, disk.recs + 1)}
    <2>1. disk' \in Disks /\ disk'.recs = b
        BY <1>1, <1>3 DEF Whole, Disks
    <2>2. CASE index' = index
        BY <1>1, <2>1, <2>2
    <2>3. CASE index' = Append(index, disk.recs + 1)
        <3>1. index' = Append(index, b)
            BY <1>1, <2>3
        <3>2. index' \in Seq(1..MaxNum) /\ Len(index') = b /\ Positions(index')
            BY <1>1, <3>1, AppendPosition
        <3> QED
            BY <1>1, <2>1, <3>2
    <2> QED
        BY <1>3, <2>2, <2>3
<1> QED
    BY <1>2, <1>3 DEF append_stops

\* What a failing append leaves behind it.
LEMMA AppendFails ==
    ASSUME MaxNum \in Nat \ {0}, LogInv, NEW b \in 1..MaxNum, append_fails(b)
    PROVE  /\ disk' \in Disks
           /\ index' \in Seq(1..MaxNum) /\ Positions(index')
           /\ disk.recs <= disk'.recs
           /\ log' \in [up : BOOLEAN, version : {0, MaxVersion}, head : 0..MaxNum,
                        failed : {"no", "block", "index"}]
           /\ OpenInv'
<1>1. /\ disk \in Disks /\ index \in Seq(1..MaxNum) /\ Positions(index)
      /\ Len(index) = disk.recs /\ disk.recs = b - 1 /\ log.head = b - 1
      /\ log.up /\ log.version > 0
      /\ log \in [up : BOOLEAN, version : {0, MaxVersion}, head : 0..MaxNum,
                  failed : {"no", "block", "index"}]
    BY DEF append_fails, LogInv, TypeOK, CanAppend, OpenInv
<1>2. Append(index, disk.recs + 1) = Append(index, b)
    BY <1>1
<1>3. Append(index, b) \in Seq(1..MaxNum) /\ Len(Append(index, b)) = b /\ Positions(Append(index, b))
    BY <1>1, AppendPosition
<1>4. CASE /\ disk' \in Torn /\ UNCHANGED index
           /\ log' = [log EXCEPT !.failed = "block"]
    <2>1. disk' \in Disks /\ disk'.recs = disk.recs
        BY <1>1, <1>4 DEF Torn, Disks
    <2>2. /\ log' \in [up : BOOLEAN, version : {0, MaxVersion}, head : 0..MaxNum,
                       failed : {"no", "block", "index"}]
          /\ log'.head = b - 1 /\ log'.version = log.version /\ log'.failed = "block"
        BY <1>1, <1>4
    <2>3. index' = index
        BY <1>4
    <2> QED
        BY <1>1, <2>1, <2>2, <2>3 DEF OpenInv
<1>5. CASE /\ disk' \in Torn /\ index' \in {index, Append(index, disk.recs + 1)}
           /\ log' = [log EXCEPT !.failed = "block", !.head = b]
    <2>1. disk' \in Disks /\ disk'.recs = disk.recs
        BY <1>1, <1>5 DEF Torn, Disks
    <2>2. /\ log' \in [up : BOOLEAN, version : {0, MaxVersion}, head : 0..MaxNum,
                       failed : {"no", "block", "index"}]
          /\ log'.head = b /\ log'.version = log.version /\ log'.failed = "block"
        <3>1. b \in 0..MaxNum
            OBVIOUS
        <3>2. log' \in [up : BOOLEAN, version : {0, MaxVersion}, head : 0..MaxNum,
                        failed : {"no", "block", "index"}]
            BY <1>1, <1>5, <3>1, ZenonT(60)
        <3>3. log'.head = b /\ log'.version = log.version /\ log'.failed = "block"
            BY <1>1, <1>5, ZenonT(60)
        <3> QED
            BY <3>2, <3>3
    <2>3. /\ index' \in Seq(1..MaxNum) /\ Positions(index')
          /\ Len(index') \in {b - 1, b}
        BY <1>1, <1>2, <1>3, <1>5
    <2> QED
        BY <1>1, <2>1, <2>2, <2>3 DEF OpenInv
<1>6. CASE /\ disk' = Whole(b) /\ UNCHANGED index
           /\ log' = [log EXCEPT !.failed = "index", !.head = b]
    <2>1. disk' \in Disks /\ disk'.recs = b
        BY <1>1, <1>6 DEF Whole, Disks
    <2>2. /\ log' \in [up : BOOLEAN, version : {0, MaxVersion}, head : 0..MaxNum,
                       failed : {"no", "block", "index"}]
          /\ log'.head = b /\ log'.version = log.version /\ log'.failed = "index"
        <3>1. b \in 0..MaxNum
            OBVIOUS
        <3>2. log' \in [up : BOOLEAN, version : {0, MaxVersion}, head : 0..MaxNum,
                        failed : {"no", "block", "index"}]
            BY <1>1, <1>6, <3>1, ZenonT(60)
        <3>3. log'.head = b /\ log'.version = log.version /\ log'.failed = "index"
            BY <1>1, <1>6, ZenonT(60)
        <3> QED
            BY <3>2, <3>3
    <2>3. index' = index
        BY <1>6
    <2> QED
        BY <1>1, <2>1, <2>2, <2>3 DEF OpenInv
<1> QED
    BY <1>4, <1>5, <1>6, Zenon DEF append_fails

\* What the destructor's flush leaves behind it.
LEMMA CloseWrites ==
    ASSUME MaxNum \in Nat \ {0}, LogInv, close
    PROVE  /\ disk' \in Disks
           /\ index' \in Seq(1..MaxNum) /\ Positions(index')
           /\ disk.recs <= disk'.recs
<1>1. /\ disk \in Disks /\ index \in Seq(1..MaxNum) /\ Positions(index)
      /\ log.head \in 0..MaxNum /\ log.up
    BY DEF close, LogInv, TypeOK
<1>2. CASE UNCHANGED <<disk, index>>
    BY <1>1, <1>2 DEF Disks
<1>3. CASE /\ log.failed # "no"
           /\ disk' = Rest
           /\ index' = IF Len(index) < log.head THEN Append(index, log.head) ELSE index
    <2>1. log.head \in {disk.recs, disk.recs + 1} /\ Len(index) \in {log.head - 1, log.head}
        BY <1>1, <1>3 DEF LogInv, OpenInv
    <2>2. disk' \in Disks /\ disk.recs <= disk'.recs
        BY <1>1, <1>3, <2>1 DEF Rest, Whole, Disks, Tails
    <2>3. CASE Len(index) < log.head
        <3>1. log.head \in 1..MaxNum /\ Len(index) = log.head - 1 /\ index' = Append(index, log.head)
            BY <1>1, <1>3, <2>1, <2>3
        <3> QED
            BY <1>1, <2>2, <3>1, AppendPosition
    <2>4. CASE ~(Len(index) < log.head)
        BY <1>1, <1>3, <2>2, <2>4
    <2> QED
        BY <2>3, <2>4
<1> QED
    BY <1>2, <1>3, Zenon DEF close

LEMMA LogStep ==
    ASSUME MaxNum \in Nat \ {0}, MaxFaults \in Nat, LogInv, [LogNext]_log_vars
    PROVE  LogInv'
<1> USE DEF TypeOK
<1>1. CASE open
    <2>1. CASE disk = NoFile
        <3>1. disk.recs = 0 /\ index' = <<>> /\ log' = [Down EXCEPT !.up = TRUE]
            BY <1>1, <2>1 DEF open, NoFile, Log
        <3>2. index' \in Seq(1..MaxNum) /\ Positions(index') /\ Len(index') = 0
            BY <3>1, EmptyIndex
        <3>3. UNCHANGED <<disk, backup, acked, faults>>
            BY <1>1 DEF open
        <3>4. AppendedIsKept'
            BY <3>3 DEF LogInv, AppendedIsKept
        <3>5. TypeOK'
            BY <3>1, <3>2, <3>3, ZenonT(60) DEF LogInv, Down
        <3> QED
            BY <3>1, <3>2, <3>3, <3>4, <3>5 DEF LogInv, Down, OpenInv
    <2>2. CASE disk # NoFile
        <3>1. disk.version > 0 /\ CanReadHead(disk) /\ disk.version = MaxVersion
            BY <1>1, <2>2 DEF open, CanOpen, LogInv, Disks, MaxVersion
        <3>2. /\ index' \in Seq(1..MaxNum) /\ Len(index') = disk.recs /\ Positions(index')
              /\ log' = [up |-> TRUE, version |-> disk.version, head |-> disk.recs,
                         failed |-> "no"]
            BY <1>1, <2>2, <3>1, SyncedIndex DEF open, LogInv
        <3>3. disk.tail = "none"
            BY <3>1 DEF CanReadHead, EndPos
        <3> QED
            BY <1>1, <3>1, <3>2, <3>3 DEF open, LogInv, Disks, MaxVersion, AppendedIsKept, OpenInv
    <2> QED
        BY <2>1, <2>2
<1>2. ASSUME NEW n \in 0..MaxNum, open_crash(n)
      PROVE  LogInv'
    <2>1. index' \in Seq(1..MaxNum) /\ Len(index') = n /\ Positions(index')
        BY <1>2, ConstructIndex DEF open_crash
    <2> QED
        BY <1>2, <2>1 DEF open_crash, Fault, LogInv, AppendedIsKept, OpenInv
<1>3. ASSUME NEW b \in 1..MaxNum, append(b)
      PROVE  LogInv'
    <2>1. disk.recs = b - 1 /\ Len(index) = b - 1
        BY <1>3 DEF append, CanAppend, LogInv, OpenInv
    <2>2. index' = Append(index, b)
        BY <1>3, <2>1 DEF append
    <2>3. index' \in Seq(1..MaxNum) /\ Len(index') = b /\ Positions(index')
        BY <2>1, <2>2, AppendPosition DEF LogInv
    <2> QED
        BY <1>3, <2>1, <2>3, SMTT(30) DEF append, CanAppend, LogInv, Disks, AppendedIsKept, OpenInv
<1>4. ASSUME NEW b \in 1..MaxNum, append_crash(b)
      PROVE  LogInv'
    <2>1. CanAppend(b) /\ append_stops(b)
        BY <1>4 DEF append_crash
    <2> QED
        BY <1>4, <2>1, AppendStops, SMTT(30) DEF append_crash, Fault, LogInv, Disks, Down, MaxVersion,
                                       AppendedIsKept, OpenInv
<1>5. ASSUME NEW b \in 1..MaxNum, append_fails(b)
      PROVE  LogInv'
    <2>1. UNCHANGED <<backup, acked>> /\ faults' \in 0..MaxFaults
        BY <1>5 DEF append_fails, Fault, LogInv
    <2>2. /\ disk' \in Disks
          /\ index' \in Seq(1..MaxNum) /\ Positions(index')
          /\ disk.recs <= disk'.recs
          /\ log' \in [up : BOOLEAN, version : {0, MaxVersion}, head : 0..MaxNum,
                       failed : {"no", "block", "index"}]
          /\ OpenInv'
        BY <1>5, AppendFails
    <2>3. AppendedIsKept'
        BY <2>1, <2>2 DEF LogInv, Disks, AppendedIsKept
    <2>4. TypeOK'
        BY <2>1, <2>2 DEF LogInv, Disks
    <2> QED
        BY <2>2, <2>3, <2>4 DEF LogInv
<1>6. CASE close
    <2>1. UNCHANGED <<backup, acked, faults>> /\ log' = Down
        BY <1>6, Zenon DEF close
    <2>2. /\ disk' \in Disks
          /\ index' \in Seq(1..MaxNum) /\ Positions(index')
          /\ disk.recs <= disk'.recs
        BY <1>6, CloseWrites
    <2>3. AppendedIsKept'
        BY <2>1, <2>2 DEF LogInv, Disks, AppendedIsKept
    <2>4. TypeOK'
        BY <2>1, <2>2 DEF LogInv, Disks, Down
    <2> QED
        BY <2>1, <2>2, <2>3, <2>4 DEF LogInv, Down, OpenInv
<1>7. CASE reset
    BY <1>7 DEF reset, Log, LogInv, Disks, Tails, MaxVersion, Positions, AppendedIsKept, OpenInv
<1>8. CASE reset_crash
    <2>1. /\ disk.recs = 0 /\ log' = Down /\ UNCHANGED <<backup, acked>>
          /\ faults' \in 0..MaxFaults
        BY <1>8 DEF reset_crash, Fault, LogInv
    <2>2. disk' \in Disks
        BY <1>8 DEF reset_crash, NoFile, Log, Disks, Tails
    <2>3. /\ index' \in Seq(1..MaxNum) /\ Positions(index')
          /\ Len(index') <= disk'.recs
        <3>1. CASE index' = <<>>
            BY <2>2, <3>1, EmptyIndex DEF Disks
        <3>2. CASE disk' = [Log(0) EXCEPT !.recs = 1] /\ index' = <<1>>
            BY <3>2 DEF Log, Positions
        <3> QED
            BY <1>8, <3>1, <3>2 DEF reset_crash
    <2>4. AppendedIsKept'
        BY <2>1, <2>2 DEF LogInv, Disks, AppendedIsKept
    <2> QED
        BY <2>1, <2>2, <2>3, <2>4 DEF LogInv, Disks, Down, OpenInv
<1>9. ASSUME NEW n \in 0..MaxNum, repair_log(n)
      PROVE  LogInv'
    <2>1. disk' \in Disks
        BY <1>9, ZenonT(60) DEF repair_log, LogInv, Disks, Tails
    <2>2. index' \in Seq(1..MaxNum) /\ Positions(index') /\ Len(index') = 0
        BY <1>9, EmptyIndex DEF repair_log
    <2>3. backup' = backup \cup {disk.recs} /\ UNCHANGED <<log, acked, faults>> /\ ~log.up
        BY <1>9 DEF repair_log, CanRepair
    <2>4. AppendedIsKept'
        BY <2>3 DEF LogInv, Disks, AppendedIsKept
    <2>5. TypeOK'
        BY <2>1, <2>2, <2>3, ZenonT(60) DEF LogInv, Disks
    <2> QED
        BY <2>1, <2>2, <2>3, <2>4, <2>5 DEF LogInv, Disks, OpenInv
<1>10. ASSUME NEW n \in 0..MaxNum, repair_crash(n)
       PROVE  LogInv'
    <2>1. disk' \in Disks
        BY <1>10, ZenonT(60) DEF repair_crash, LogInv, Disks, Tails
    <2>2. index' = <<>> /\ backup' = backup \cup {disk.recs} /\ UNCHANGED <<log, acked>>
        BY <1>10, Zenon DEF repair_crash
    <2>3. ~log.up /\ faults' = faults + 1 /\ faults < MaxFaults
        BY <1>10, Zenon DEF repair_crash, CanRepair, Fault
    <2>4. index' \in Seq(1..MaxNum) /\ Positions(index') /\ Len(index') = 0
        BY <2>2, EmptyIndex
    <2>5. AppendedIsKept'
        BY <2>2 DEF LogInv, Disks, AppendedIsKept
    <2>6. TypeOK'
        <3>1. faults' \in 0..MaxFaults
            BY <2>3 DEF LogInv
        <3>2. backup' \subseteq 0..MaxNum
            BY <2>2, ZenonT(60) DEF LogInv
        <3> QED
            BY <2>1, <2>2, <2>4, <3>1, <3>2 DEF LogInv, Disks
    <2> QED
        BY <2>1, <2>2, <2>3, <2>4, <2>5, <2>6 DEF LogInv, Disks, OpenInv
<1>11. CASE UNCHANGED log_vars
    BY <1>11 DEF log_vars, LogInv, AppendedIsKept, OpenInv
<1> QED
    BY <1>1, <1>2, <1>3, <1>4, <1>5, <1>6, <1>7, <1>8, <1>9, <1>10, <1>11 DEF LogNext

\* An open block log finds every block of its file by its number, whatever crashes
\* and failing writes came before: open compares the last position of each file and
\* builds the index again when they differ.  From a write or flush that fails until
\* the next open the head may be the one block whose flush failed.
THEOREM FoundByNumber ==
    ASSUME MaxNum \in Nat \ {0}, MaxFaults \in Nat
    PROVE  LogSpec => []FindsByNumber
<1>1. LogInv => FindsByNumber
    <2> SUFFICES ASSUME LogInv, log.up PROVE FindsByNumber
        BY DEF FindsByNumber
    <2>1. CASE log.failed = "no"
        <3>1. /\ log.head = disk.recs /\ disk.recs \in 0..MaxNum
              /\ log.head > 0 => Len(index) = log.head
            BY <2>1 DEF LogInv, TypeOK, OpenInv, MaxVersion
        <3>2. ASSUME NEW n \in 1..MaxNum
              PROVE  read_block_by_num(n) = IF n <= disk.recs THEN n ELSE None
            BY <2>1, <3>1 DEF LogInv, TypeOK, Positions, read_block_by_num
        <3> QED
            BY <2>1, <3>2 DEF FindsByNumber
    <2>2. CASE log.failed # "no"
        BY <2>2 DEF LogInv, OpenInv, FindsByNumber
    <2> QED
        BY <2>1, <2>2
<1> QED
    BY <1>1, LogStart, LogStep, PTL DEF LogSpec

\* A block whose append returned stays in the log, or in a directory that
\* repair_log moved away, through crashes in append, open, reset and repair_log.
THEOREM AppendedBlocksAreKept ==
    ASSUME MaxNum \in Nat \ {0}, MaxFaults \in Nat
    PROVE  LogSpec => []AppendedIsKept
<1>1. LogInv => AppendedIsKept
    BY DEF LogInv
<1> QED
    BY <1>1, LogStart, LogStep, PTL DEF LogSpec
=============================================================================
