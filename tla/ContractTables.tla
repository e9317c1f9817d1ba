--------------------------- MODULE ContractTables ---------------------------
(***************************************************************************)
(* The database of contracts: tables, their rows and the iterators a       *)
(* running action holds to them (apply_context.hpp, apply_context.cpp).    *)
(*                                                                         *)
(* A table is found by code and scope and has an id of its own.  Its rows  *)
(* are of two kinds, key_value_object and the objects of a secondary       *)
(* index; both count in the table and both have a cache of iterators that  *)
(* lives as long as the apply_context: through the action and all the      *)
(* receivers it notifies.  Values are reduced to their sizes.  A call that *)
(* throws undoes the transaction.                                          *)
(***************************************************************************)
EXTENDS Integers, Sequences, FiniteSets, SequencesExt, FiniteSetsExt, TLC

CONSTANTS
    Code,      \* contracts, which also pay
    Payer,     \* other accounts that pay
    MayBill,   \* pairs of a contract and another account it may charge
    Scope,
    Primary,   \* primary keys: naturals
    Value,     \* sizes of values, and secondary keys: naturals
    MaxTables, \* bound on the ids of tables
    MaxIters,  \* bound on the iterators of an action
    MaxWrites, \* bound on the calls that change rows
    MaxActions \* bound on the actions and notified receivers

VARIABLES
    tabs,   \* table_id_multi_index: id -> code, scope, payer, count
    nextid, \* the next id of a table
    rows,   \* kind -> the objects: <<table id, primary key>> -> payer, value
    ram,    \* account -> bytes charged
    cache,  \* kind -> iterator_cache
    receiver, actions, writes,
    saved   \* the database when the transaction began

dbvars == <<tabs, nextid, rows, ram>>
cvars == <<tabs, nextid, rows, ram, cache, receiver, saved, actions, writes>>

Kind == {"kv", "idx"}
Account == Code \cup Payer
None == <<0, 0>>  \* a null pointer

\* billable_size_v of the three objects; the value adds to the one of kv
Bytes == [table |-> 5, kv |-> 3, idx |-> 4]

SizeOf(k, v) == IF k = "kv" THEN Bytes.kv + v ELSE Bytes.idx
-----------------------------------------------------------------------------
(* iterator_cache: ends and objs are the vectors, whose maps are inverses. *)

NoCache == [k \in Kind |-> [ends |-> <<>>, objs |-> <<>>]]

Position(seq, x) == CHOOSE i \in DOMAIN seq : seq[i] = x

cache_table(k, c, t) ==
    IF t \in Range(c[k].ends) THEN c ELSE [c EXCEPT ![k].ends = Append(@, t)]

\* int add( obj ): the objects are the addresses of rows
add(k, c, o) ==
    IF o \in Range(c[k].objs) THEN c ELSE [c EXCEPT ![k].objs = Append(@, o)]

\* the row of iterator it, or None if get throws
get(k, it) == IF it + 1 \in DOMAIN cache[k].objs THEN cache[k].objs[it + 1] ELSE None

MutKeepObject(k, it) == cache

\* void remove( iterator )
Uncached(k, it) == [cache EXCEPT ![k].objs[it + 1] = None]

end_of(k, c, t) == -(Position(c[k].ends, t) + 1)
iterator_of(k, c, o) == Position(c[k].objs, o) - 1

\* find_table_by_end_iterator
table_of_end(k, it) == cache[k].ends[-it - 1]

\* the id found behind the pointer: the freed memory of a table that is gone
\* may hold a table created since
Behind(k, it) ==
    LET t == table_of_end(k, it)
    IN {t} \cup IF t \in DOMAIN tabs THEN {} ELSE {u \in DOMAIN tabs : u > t}

Bounded(c) == \A k \in Kind : Len(c[k].objs) <= MaxIters
-----------------------------------------------------------------------------
(* Tables, and what is charged for them. *)

Found(code, scope) == {t \in DOMAIN tabs : tabs[t].code = code /\ tabs[t].scope = scope}

\* update_db_usage: a contract charges itself, or who let it
MayCharge(payer) == payer = receiver \/ <<receiver, payer>> \in MayBill

Charged(r, payer, delta) == [r EXCEPT ![payer] = @ + delta]

\* find_or_create_table: the id
find_or_create_table(scope) ==
    IF Found(receiver, scope) = {} THEN nextid
    ELSE CHOOSE t \in Found(receiver, scope) : TRUE

\* db_store_i64 and generic_index::store
store(k, scope, payer, pk, v) ==
    LET t == find_or_create_table(scope)
        new == t \notin DOMAIN tabs
        tab == IF new THEN [code |-> receiver, scope |-> scope, payer |-> payer, count |-> 0]
               ELSE tabs[t]
        c == add(k, cache_table(k, cache, t), <<t, pk>>)
    IN /\ writes < MaxWrites /\ writes' = writes + 1
       /\ MayCharge(payer)
       /\ <<t, pk>> \notin DOMAIN rows[k]
       /\ t <= MaxTables /\ Bounded(c)
       /\ nextid' = IF new THEN nextid + 1 ELSE nextid
       /\ tabs' = (t :> [tab EXCEPT !.count = @ + 1]) @@ tabs
       /\ rows' = [rows EXCEPT ![k] = (<<t, pk>> :> [payer |-> payer, value |-> v]) @@ @]
       /\ ram' = Charged(ram, payer, SizeOf(k, v) + IF new THEN Bytes.table ELSE 0)
       /\ cache' = c
       /\ UNCHANGED <<receiver, saved, actions>>

MutNoRefund(k, old, payer, v) ==
    IF old.payer = payer THEN Charged(ram, payer, SizeOf(k, v) - SizeOf(k, old.value))
    ELSE Charged(ram, payer, SizeOf(k, v))

\* the refund of the old payer and the charge of the new one
Rebilled(k, old, payer, v) ==
    Charged(Charged(ram, old.payer, -SizeOf(k, old.value)), payer, SizeOf(k, v))

\* db_update_i64 and generic_index::update; payer "" keeps the payer
update(k, it, payer, v) ==
    LET o == get(k, it)
        old == rows[k][o]
        p == IF payer = "" THEN old.payer ELSE payer
    IN /\ writes < MaxWrites /\ writes' = writes + 1
       /\ o # None
       /\ tabs[o[1]].code = receiver
       /\ p # old.payer \/ SizeOf(k, v) > SizeOf(k, old.value) => MayCharge(p)
       /\ rows' = [rows EXCEPT ![k][o] = [payer |-> p, value |-> v]]
       /\ ram' = Rebilled(k, old, p, v)
       /\ UNCHANGED <<tabs, nextid, cache, receiver, saved, actions>>

MutKeepTable(t) == [tabs EXCEPT ![t].count = @ - 1]

\* the tables without the row, remove_table included
Left(t) ==
    IF tabs[t].count = 1 THEN [u \in DOMAIN tabs \ {t} |-> tabs[u]]
    ELSE [tabs EXCEPT ![t].count = @ - 1]

\* db_remove_i64 and generic_index::remove
remove(k, it) ==
    LET o == get(k, it)
        old == rows[k][o]
        refunded == Charged(ram, old.payer, -SizeOf(k, old.value))
    IN /\ writes < MaxWrites /\ writes' = writes + 1
       /\ o # None
       /\ tabs[o[1]].code = receiver
       /\ tabs' = Left(o[1])
       /\ ram' = IF tabs[o[1]].count = 1
                 THEN Charged(refunded, tabs[o[1]].payer, -Bytes.table) ELSE refunded
       /\ rows' = [rows EXCEPT ![k] = [q \in DOMAIN @ \ {o} |-> @[q]]]
       /\ cache' = Uncached(k, it)
       /\ UNCHANGED <<nextid, receiver, saved, actions>>
-----------------------------------------------------------------------------
(* Walking through the rows.  An index holds the rows of all tables: by    *)
(* table and primary key, or by table, secondary and primary key.          *)

Place(k, o, sec) == <<o[1], IF sec THEN rows[k][o].value ELSE 0, o[2]>>

Before(x, y) == \E i \in 1 .. 3 : x[i] < y[i] /\ \A j \in 1 .. i - 1 : x[j] = y[j]

\* the first row at or after a place, the last row before it, or None
First(k, sec, place) ==
    LET all == {o \in DOMAIN rows[k] : ~Before(Place(k, o, sec), place)}
    IN IF all = {} THEN None
       ELSE CHOOSE o \in all : \A p \in all : ~Before(Place(k, p, sec), Place(k, o, sec))

LastOne(k, sec, place) ==
    LET all == {o \in DOMAIN rows[k] : Before(Place(k, o, sec), place)}
    IN IF all = {} THEN None
       ELSE CHOOSE o \in all : \A p \in all : ~Before(Place(k, o, sec), Place(k, p, sec))

After(place) == [place EXCEPT ![3] = @ + 1]

\* what a lookup answers: the row if it is one of table t, or the table's end
Answer(k, c, t, o) ==
    IF o = None \/ o[1] # t THEN [cache |-> c, it |-> end_of(k, c, t)]
    ELSE [cache |-> add(k, c, o), it |-> iterator_of(k, add(k, c, o), o)]

\* db_find, db_lowerbound, db_upperbound, db_end and those of generic_index
lookup(k, sec, how, t, key) ==
    LET c == cache_table(k, cache, t)
        place == IF sec THEN <<t, key, 0>> ELSE <<t, 0, key>>
        past == IF sec THEN <<t, key + 1, 0>> ELSE <<t, 0, key + 1>>
        low == First(k, sec, place)
    IN CASE how = "end" -> Answer(k, c, t, None)
         [] how = "find" -> Answer(k, c, t, IF low # None /\ Before(Place(k, low, sec), past)
                                            THEN low ELSE None)
         [] how = "lowerbound" -> Answer(k, c, t, low)
         [] how = "upperbound" -> Answer(k, c, t, First(k, sec, past))

\* db_next_i64, next_primary and next_secondary, from a row
next(k, sec, it) ==
    LET o == get(k, it) IN Answer(k, cache, o[1], First(k, sec, After(Place(k, o, sec))))

MutAnyTable(t, o) == o # None

Within(t, o) == o # None /\ o[1] = t

\* db_previous_i64, previous_primary and previous_secondary: t is the table of
\* the row, or of the end iterator, which goes back from the first row of a
\* later table
previous(k, sec, it, t) ==
    LET o == LastOne(k, sec, IF it < -1 THEN <<t + 1, 0, 0>> ELSE Place(k, get(k, it), sec))
    IN IF Within(t, o) THEN [cache |-> add(k, cache, o), it |-> iterator_of(k, add(k, cache, o), o)]
       ELSE [cache |-> cache, it |-> -1]

Walks(answer) ==
    /\ cache' = answer.cache
    /\ Bounded(answer.cache)
    /\ UNCHANGED <<tabs, nextid, rows, ram, receiver, saved, actions, writes>>
-----------------------------------------------------------------------------
TablesInit ==
    /\ tabs = << >> /\ nextid = 1
    /\ rows = [k \in Kind |-> << >>]
    /\ ram = [a \in Account |-> 0]
    /\ cache = NoCache
    /\ receiver \in Code
    /\ saved = <<tabs, nextid, rows, ram>>
    /\ actions = 1 /\ writes = 0

\* the loop of exec: the next notified receiver runs with the same caches
exec_one(r) ==
    /\ actions < MaxActions /\ actions' = actions + 1
    /\ receiver' = r
    /\ UNCHANGED <<tabs, nextid, rows, ram, cache, saved, writes>>

\* the action ends and another, of this transaction or of the next, starts
\* with caches of its own
execute_action(r) ==
    /\ actions < MaxActions /\ actions' = actions + 1
    /\ receiver' = r
    /\ cache' = NoCache
    /\ saved' \in {saved, dbvars}
    /\ UNCHANGED <<tabs, nextid, rows, ram, writes>>

\* a call throws: the transaction is undone
throws ==
    /\ actions < MaxActions /\ actions' = actions + 1
    /\ tabs' = saved[1] /\ nextid' = saved[2] /\ rows' = saved[3] /\ ram' = saved[4]
    /\ cache' = NoCache
    /\ UNCHANGED <<receiver, saved, writes>>

Row(k) == {i - 1 : i \in {j \in DOMAIN cache[k].objs : cache[k].objs[j] # None}}
End(k) == {-(i + 1) : i \in DOMAIN cache[k].ends}
Orders(k) == IF k = "kv" THEN {FALSE} ELSE BOOLEAN

\* the answers of the calls that only read
Answers(k, sec) ==
    {lookup(k, sec, how, t, key) : how \in {"find", "lowerbound", "upperbound", "end"},
                                   t \in DOMAIN tabs, key \in Primary}
    \cup {next(k, sec, it) : it \in Row(k)}
    \cup {previous(k, sec, it, get(k, it)[1]) : it \in Row(k)}
    \cup UNION {{previous(k, sec, it, t) : t \in Behind(k, it)} : it \in End(k)}

\* the calls of the primary index
db_store_i64(s, p, pk, v) == store("kv", s, p, pk, v)
db_update_i64(it, p, v) == update("kv", it, p, v)
db_remove_i64(it) == remove("kv", it)
db_read_i64 == \E answer \in Answers("kv", FALSE) : Walks(answer)

\* the calls of a secondary index
idx_store(s, p, pk, v) == store("idx", s, p, pk, v)
idx_update(it, p, v) == update("idx", it, p, v)
idx_remove(it) == remove("idx", it)
idx_primary == \E answer \in Answers("idx", FALSE) : Walks(answer)
idx_secondary == \E answer \in Answers("idx", TRUE) : Walks(answer)

TablesNext ==
    \/ \E s \in Scope, p \in Account, pk \in Primary, v \in Value :
          db_store_i64(s, p, pk, v) \/ idx_store(s, p, pk, v)
    \/ \E it \in Row("kv") : \/ \E p \in Account \cup {""}, v \in Value : db_update_i64(it, p, v)
                            \/ db_remove_i64(it)
    \/ \E it \in Row("idx") : \/ \E p \in Account \cup {""}, v \in Value : idx_update(it, p, v)
                             \/ idx_remove(it)
    \/ db_read_i64
    \/ idx_primary
    \/ idx_secondary
    \/ \E r \in Code : exec_one(r) \/ execute_action(r)
    \/ throws

TablesSpec == TablesInit /\ [][TablesNext]_cvars
-----------------------------------------------------------------------------
(* The state holds values of its types. *)
TablesTypeOK ==
    /\ DOMAIN tabs \subseteq 1 .. nextid - 1
    /\ \A k \in Kind : /\ DOMAIN rows[k] \subseteq (1 .. nextid - 1) \X Primary
                       /\ Range(cache[k].ends) \subseteq 1 .. nextid - 1
    /\ ram \in [Account -> Nat]
    /\ receiver \in Code

(* The payers are charged exactly for the tables and rows that exist,      *)
(* whoever stored, changed, took over or removed them.                     *)
TablesRamExact ==
    LET Cost(k, a) == MapThenSumSet(LAMBDA o : SizeOf(k, rows[k][o].value),
                                    {o \in DOMAIN rows[k] : rows[k][o].payer = a})
    IN \A a \in Account :
          ram[a] = Bytes.table * Cardinality({t \in DOMAIN tabs : tabs[t].payer = a})
                   + Cost("kv", a) + Cost("idx", a)

(* A table exists while it has rows of either kind, its count is their     *)
(* number, and no two tables have the same code and scope, although rows   *)
(* of one kind are removed without a look at the other.                    *)
TablesCounted ==
    /\ \A t \in DOMAIN tabs :
          /\ tabs[t].count = Cardinality({<<k, pk>> \in Kind \X Primary : <<t, pk>> \in DOMAIN rows[k]})
          /\ Found(tabs[t].code, tabs[t].scope) = {t}
    /\ \A k \in Kind : \A o \in DOMAIN rows[k] : o[1] \in DOMAIN tabs

(* What a running action's iterators to rows point to exists: the row, the *)
(* row's table, and the table's place in the same cache, so that the       *)
(* pointers that get and get_table return are good and get_table never     *)
(* throws "an invariant was broken"; a row has one iterator.  (An end      *)
(* iterator may outlive its table: the pointer it then stands for dangles.)*)
IteratorsLive ==
    \A k \in Kind : \A i \in DOMAIN cache[k].objs :
        LET o == cache[k].objs[i] IN
        o # None =>
            /\ o \in DOMAIN rows[k]
            /\ o[1] \in DOMAIN tabs /\ o[1] \in Range(cache[k].ends)
            /\ \A j \in DOMAIN cache[k].objs : cache[k].objs[j] = o => j = i

\* the rows of table t, in the order of the index
RECURSIVE Ranked(_, _, _)
Ranked(k, sec, all) ==
    IF all = {} THEN <<>>
    ELSE LET o == CHOOSE o \in all : \A p \in all : ~Before(Place(k, p, sec), Place(k, o, sec))
         IN <<o>> \o Ranked(k, sec, all \ {o})

(* From an iterator to a row, next and previous go to the neighbours of    *)
(* the row in its table, and from the end of a table that exists previous  *)
(* goes to its last row, never to a row of the table beside it in the      *)
(* index that all contracts share.                                         *)
StaysInTable ==
    \A k \in Kind : \A sec \in Orders(k) :
        /\ \A it \in Row(k) :
              LET o == get(k, it)
                  all == Ranked(k, sec, {p \in DOMAIN rows[k] : p[1] = o[1]})
                  i == Position(all, o)
                  up == next(k, sec, it)
                  down == previous(k, sec, it, o[1])
              IN /\ IF i = Len(all) THEN up.it = end_of(k, cache, o[1])
                    ELSE up.cache[k].objs[up.it + 1] = all[i + 1]
                 /\ IF i = 1 THEN down.it = -1
                    ELSE down.cache[k].objs[down.it + 1] = all[i - 1]
        /\ \A it \in End(k) :
              LET t == table_of_end(k, it)
                  all == Ranked(k, sec, {p \in DOMAIN rows[k] : p[1] = t})
                  down == previous(k, sec, it, t)
              IN t \in DOMAIN tabs =>
                    IF all = <<>> THEN down.it = -1
                    ELSE down.cache[k].objs[down.it + 1] = Last(all)
=============================================================================
