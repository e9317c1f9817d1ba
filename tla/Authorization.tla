--------------------------- MODULE Authorization ---------------------------
(***************************************************************************)
(* Accounts, their permissions and what their signatures allow:            *)
(* authorization_manager, authority_checker and the native actions of      *)
(* eosio_contract.cpp that change permissions, links and code.             *)
(*                                                                         *)
(* A transaction holds one native action and declares one permission.  Its *)
(* authorization is checked when it is pushed; if it is delayed, the       *)
(* action is applied later, without a second check, to whatever the tables *)
(* hold by then.  Permissions provided by contracts, the virtual           *)
(* permission eosio.code, reserved names and the limit on RAM are left     *)
(* out.                                                                    *)
(***************************************************************************)
EXTENDS Integers, Sequences, FiniteSets, SequencesExt, FiniteSetsExt, TLC

CONSTANTS
    Account,      \* names of accounts
    Actor,        \* bound: accounts that push transactions
    Initial,      \* accounts at the start: a function to [owner, active]
    Key,          \* public keys
    Extra,        \* names of permissions besides owner and active
    Authorities,  \* the authorities that updateauth sets
    NewAuthority, \* the authorities of new accounts
    Linked,       \* accounts whose actions are linked
    Type,         \* action types that are linked; "" is the whole contract
    Code,         \* contracts: hashes
    CodeSize,     \* a function from hashes to sizes
    AbiSizes,     \* sizes of ABIs
    OnlyExisting, \* only_link_to_existing_permission is activated
    MaxDepth,     \* max_authority_depth
    Delays,       \* delays of transactions, in seconds
    MaxDelay,     \* max_transaction_delay
    MaxDelayed,   \* bound: delayed transactions
    MaxOps        \* bound: transactions pushed

None == "none"
AnyPerm == "eosio.any"
Names == {"owner", "active"} \cup Extra

VARIABLES
    perms,    \* permission_index: from <<owner, name>> to its parent and authority
    links,    \* permission_link_index: from <<account, code, type>> to a name
    contract, \* account -> hash of its code
    refs,     \* code_object: hash -> code_ref_count
    abi,      \* account -> size of its ABI
    ram,      \* account -> bytes charged
    delayed,  \* delayed transactions
    ops

avars == <<perms, links, contract, refs, abi, ram, delayed, ops>>

accounts == DOMAIN ram

\* Sizes: overhead_per_account_ram_bytes, the billable sizes of a permission
\* and of a link, of one entry of an authority, and the factor for code.
Bytes == [account |-> 7, permission |-> 5, link |-> 3, entry |-> 1, code |-> 10]

SizeOf(auth) == Bytes.permission + Bytes.entry * Len(auth.factors)
-----------------------------------------------------------------------------
(***************************************************************************)
(* authority_checker: one pass over the entries of an authority, with a    *)
(* cache of permissions and the keys used so far.                          *)
(***************************************************************************)
KindRank == [wait |-> 2, key |-> 1, account |-> 0]

\* meta_permission_comparator: by weight, then waits, keys, accounts.
Order(fs) ==
    LET Before(i, j) ==
            LET x == fs[i]  y == fs[j]
            IN  \/ x.weight > y.weight
                \/ x.weight = y.weight /\ KindRank[x.kind] > KindRank[y.kind]
                \/ x.weight = y.weight /\ x.kind = y.kind /\ i < j
    IN  SortSeq([i \in DOMAIN fs |-> i], Before)

Fresh == [total |-> 0, cache |-> << >>, used |-> {}]

Add(c, f) == [c EXCEPT !.total = @ + f.weight]

RECURSIVE Visit(_, _, _, _, _)

\* Mutation: what the cache says about a permission under evaluation counts.
MutCycleCounts(l, c, depth, K, d) ==
    LET known == [c EXCEPT !.cache = @ @@ (l :> "satisfied")]
        auth == perms[l].auth
        r == FoldLeft(LAMBDA e, i : IF e.total >= auth.threshold THEN e
                                    ELSE Visit(auth.factors[i], e, depth, K, d),
                      [known EXCEPT !.total = 0], Order(auth.factors))
    IN  IF r.total >= auth.threshold
        THEN [ok |-> TRUE, cache |-> [r.cache EXCEPT ![l] = "satisfied"], used |-> r.used]
        ELSE [ok |-> FALSE, cache |-> [r.cache EXCEPT ![l] = "unsatisfied"], used |-> c.used]

\* bool satisfied( authority, cached_permissions, depth ) of permission l, and
\* what weight_tally_visitor notes of it in the cache.
satisfied(l, c, depth, K, d) ==
    LET known == [c EXCEPT !.cache = @ @@ (l :> "being_evaluated")]
        auth == perms[l].auth
        r == FoldLeft(LAMBDA e, i : IF e.total >= auth.threshold THEN e
                                    ELSE Visit(auth.factors[i], e, depth, K, d),
                      [known EXCEPT !.total = 0], Order(auth.factors))
    IN  IF r.total >= auth.threshold
        THEN [ok |-> TRUE, cache |-> [r.cache EXCEPT ![l] = "satisfied"], used |-> r.used]
        ELSE [ok |-> FALSE, cache |-> [r.cache EXCEPT ![l] = "unsatisfied"], used |-> c.used]

\* weight_tally_visitor: entry f, at a depth, with keys K and delay d.
Visit(f, c, depth, K, d) ==
    CASE f.kind = "wait" -> IF d >= f.what THEN Add(c, f) ELSE c
      [] f.kind = "key" ->
            IF f.what \in K THEN Add([c EXCEPT !.used = @ \cup {f.what}], f) ELSE c
      [] f.kind = "account" /\ f.what \in DOMAIN c.cache ->
            IF c.cache[f.what] = "satisfied" THEN Add(c, f) ELSE c
      [] f.kind = "account" /\ f.what \notin DOMAIN c.cache ->
            IF depth >= MaxDepth \/ f.what \notin DOMAIN perms THEN c
            ELSE LET r == satisfied(f.what, c, depth + 1, K, d)
                     e == [c EXCEPT !.cache = r.cache, !.used = r.used]
                 IN  IF r.ok THEN Add(e, f) ELSE e

\* bool satisfied( permission ).
Check(l, K, d) ==
    LET r == Visit([kind |-> "account", what |-> l, weight |-> 1], Fresh, 0, K, d)
    IN  [ok |-> r.total > 0, used |-> r.used]

\* A delay of max_transaction_delay or more stands for any delay.
Effective(d) == IF d >= MaxDelay THEN 1000000 ELSE d

\* The end of check_authorization: some keys satisfy l, all of them used.
Signable(l, d) ==
    \E K \in SUBSET Key : LET r == Check(l, K, Effective(d)) IN r.ok /\ r.used = K
-----------------------------------------------------------------------------
(***************************************************************************)
(* The hierarchy of permissions and the links of actions to them.          *)
(***************************************************************************)
RECURSIVE Above(_, _)
Above(l, m) ==
    /\ perms[m].parent # None
    /\ LET p == <<m[1], perms[m].parent>> IN l = p \/ Above(l, p)

\* bool permission_object::satisfies( other ).
satisfies(l, m) == l[1] = m[1] /\ (l = m \/ Above(l, m))

\* optional<permission_name> lookup_linked_permission(...).
lookup_linked_permission(a, code, type) ==
    CASE <<a, code, type>> \in DOMAIN links -> links[<<a, code, type>>]
      [] <<a, code, type>> \notin DOMAIN links /\ <<a, code, "">> \in DOMAIN links ->
            links[<<a, code, "">>]
      [] OTHER -> None

\* optional<permission_name> lookup_minimum_permission(...); None is eosio.any.
lookup_minimum_permission(a, code, type) ==
    LET linked == lookup_linked_permission(a, code, type)
    IN  CASE linked = None -> "active" [] linked = AnyPerm -> None
          [] linked \notin {None, AnyPerm} -> linked

\* get_permission( l ) exists and satisfies a permission that exists.
Reaches(l, m) == m \in DOMAIN perms /\ satisfies(l, m)
-----------------------------------------------------------------------------
(***************************************************************************)
(* Native actions: what check_authorization asks of the declared           *)
(* permission l, and what the action does.                                 *)
(***************************************************************************)
ValidAuthority(auth) ==  \* validate_authority_precondition
    \A i \in DOMAIN auth.factors :
        LET f == auth.factors[i]
        IN  f.kind = "account" =>
                /\ f.what[1] \in accounts
                /\ f.what[2] \in {"owner", "active"} \/ f.what \in DOMAIN perms

check_updateauth_authorization(l, t) ==
    LET own == <<t.account, t.permission>>
    IN  IF own \in DOMAIN perms THEN satisfies(l, own)
        ELSE Reaches(l, <<t.account, t.parent>>)

updateauth(t) ==
    LET l == <<t.account, t.permission>>
        new == [parent |-> t.parent, auth |-> t.auth]
        old == IF l \in DOMAIN perms THEN SizeOf(perms[l].auth) ELSE 0
    IN  /\ t.act = "updateauth"
        /\ t.permission # t.parent
        /\ t.permission = "active" => t.parent = "owner"
        /\ (t.permission = "owner") = (t.parent = None)
        /\ \A i \in DOMAIN t.auth.factors :
              t.auth.factors[i].kind = "wait" => t.auth.factors[i].what <= MaxDelay
        /\ ValidAuthority(t.auth)
        /\ t.parent # None => <<t.account, t.parent>> \in DOMAIN perms
        /\ l \in DOMAIN perms => perms[l].parent = t.parent
        /\ perms' = (l :> new) @@ perms
        /\ ram' = [ram EXCEPT ![t.account] = @ + SizeOf(t.auth) - old]
        /\ UNCHANGED <<links, contract, refs, abi>>

check_deleteauth_authorization(l, t) == Reaches(l, <<t.account, t.permission>>)

\* Mutation: a linked permission may be deleted.
MutUnlinkLater(a, p) == \A m \in DOMAIN perms : ~(m[1] = a /\ perms[m].parent = p)

\* No action is linked to the permission, and it has no children.
Removable(a, p) ==
    /\ \A k \in DOMAIN links : ~(k[1] = a /\ links[k] = p)
    /\ \A m \in DOMAIN perms : ~(m[1] = a /\ perms[m].parent = p)

deleteauth(t) ==
    LET l == <<t.account, t.permission>>
    IN  /\ t.act = "deleteauth"
        /\ t.permission \notin {"owner", "active"}
        /\ l \in DOMAIN perms
        /\ Removable(t.account, t.permission)
        /\ perms' = [m \in DOMAIN perms \ {l} |-> perms[m]]
        /\ ram' = [ram EXCEPT ![t.account] = @ - SizeOf(perms[l].auth)]
        /\ UNCHANGED <<links, contract, refs, abi>>

check_linkauth_authorization(l, t) ==
    LET min == lookup_minimum_permission(t.account, t.code, t.type)
    IN  min # None => Reaches(l, <<t.account, min>>)

\* Mutation: a link that is moved to another permission is charged again.
MutLinkCharge(k) == Bytes.link

LinkCharge(k) == IF k \in DOMAIN links THEN 0 ELSE Bytes.link

linkauth(t) ==
    LET k == <<t.account, t.code, t.type>>
    IN  /\ t.act = "linkauth"
        /\ t.code \in accounts
        /\ \/ t.requirement = AnyPerm
           \/ OnlyExisting /\ <<t.account, t.requirement>> \in DOMAIN perms
           \/ ~OnlyExisting /\ \E l \in DOMAIN perms : l[2] = t.requirement
        /\ k \in DOMAIN links => links[k] # t.requirement
        /\ links' = (k :> t.requirement) @@ links
        /\ ram' = [ram EXCEPT ![t.account] = @ + LinkCharge(k)]
        /\ UNCHANGED <<perms, contract, refs, abi>>

check_unlinkauth_authorization(l, t) ==
    LET linked == lookup_linked_permission(t.account, t.code, t.type)
    IN  linked # None /\ (linked # AnyPerm => Reaches(l, <<t.account, linked>>))

unlinkauth(t) ==
    LET k == <<t.account, t.code, t.type>>
    IN  /\ t.act = "unlinkauth"
        /\ k \in DOMAIN links
        /\ links' = [j \in DOMAIN links \ {k} |-> links[j]]
        /\ ram' = [ram EXCEPT ![t.account] = @ - Bytes.link]
        /\ UNCHANGED <<perms, contract, refs, abi>>

newaccount(t) ==
    LET size == Bytes.account + SizeOf(t.owner) + SizeOf(t.active)
        Known(auth) == \A i \in DOMAIN auth.factors :
            LET f == auth.factors[i]
            IN  f.kind = "account" =>
                    \/ f.what[1] = t.name /\ f.what[2] \in {"owner", "active"}
                    \/ f.what[1] \in accounts
                       /\ (f.what[2] \in {"owner", "active"} \/ f.what \in DOMAIN perms)
    IN  /\ t.act = "newaccount"
        /\ t.name \notin accounts
        /\ Known(t.owner) /\ Known(t.active)
        /\ perms' = perms @@ (<<t.name, "owner">> :> [parent |-> None, auth |-> t.owner])
                          @@ (<<t.name, "active">> :> [parent |-> "owner", auth |-> t.active])
        /\ ram' = ram @@ (t.name :> size)
        /\ contract' = contract @@ (t.name :> None)
        /\ abi' = abi @@ (t.name :> 0)
        /\ UNCHANGED <<links, refs>>

\* The code entry loses a user, and goes with its last one.
Dropped(R, h) ==
    IF h = None THEN R
    ELSE IF R[h] = 1 THEN [x \in DOMAIN R \ {h} |-> R[x]] ELSE [R EXCEPT ![h] = @ - 1]

Taken(R, h) ==
    IF h = None THEN R ELSE (h :> IF h \in DOMAIN R THEN R[h] + 1 ELSE 1) @@ R

RunSize(h) == IF h = None THEN 0 ELSE Bytes.code * CodeSize[h]

setcode(t) ==
    LET old == contract[t.account]
    IN  /\ t.act = "setcode"
        /\ t.code # old  \* "already running this version" or "already cleared"
        /\ refs' = Taken(Dropped(refs, old), t.code)
        /\ contract' = [contract EXCEPT ![t.account] = t.code]
        /\ ram' = [ram EXCEPT ![t.account] = @ + RunSize(t.code) - RunSize(old)]
        /\ UNCHANGED <<perms, links, abi>>

setabi(t) ==
    /\ t.act = "setabi"
    /\ abi' = [abi EXCEPT ![t.account] = t.size]
    /\ ram' = [ram EXCEPT ![t.account] = @ + t.size - abi[t.account]]
    /\ UNCHANGED <<perms, links, contract, refs>>

Apply(t) ==
    \/ updateauth(t) \/ deleteauth(t) \/ linkauth(t) \/ unlinkauth(t)
    \/ newaccount(t) \/ setcode(t) \/ setabi(t)

\* check_authorization before the signatures are looked at.
Declares(l, t) ==
    CASE t.act = "updateauth" -> check_updateauth_authorization(l, t)
      [] t.act = "deleteauth" -> check_deleteauth_authorization(l, t)
      [] t.act = "linkauth" -> check_linkauth_authorization(l, t)
      [] t.act = "unlinkauth" -> check_unlinkauth_authorization(l, t)
      [] t.act \in {"newaccount", "setcode", "setabi"} ->
            LET min == lookup_minimum_permission(l[1], "sys", t.act)
            IN  min # None => Reaches(l, <<l[1], min>>)

NativeOf(a) ==
    [act : {"updateauth"}, account : {a}, permission : Names, parent : Names \cup {None},
     auth : Authorities]
    \cup [act : {"deleteauth"}, account : {a}, permission : Extra]
    \cup [act : {"linkauth"}, account : {a}, code : Linked, type : Type,
          requirement : Names \cup {AnyPerm}]
    \cup [act : {"unlinkauth"}, account : {a}, code : Linked, type : Type]
    \cup [act : {"newaccount"}, name : Account \ accounts, owner : NewAuthority,
          active : NewAuthority]
    \cup [act : {"setcode"}, account : {a}, code : Code \cup {None}]
    \cup [act : {"setabi"}, account : {a}, size : AbiSizes]
-----------------------------------------------------------------------------
AuthInit ==
    /\ ram = [a \in DOMAIN Initial |->
                 Bytes.account + SizeOf(Initial[a].owner) + SizeOf(Initial[a].active)]
    /\ perms = [l \in (DOMAIN Initial) \X {"owner", "active"} |->
                   [parent |-> IF l[2] = "owner" THEN None ELSE "owner",
                    auth |-> Initial[l[1]][l[2]]]]
    /\ links = << >> /\ contract = [a \in accounts |-> None] /\ refs = << >>
    /\ abi = [a \in accounts |-> 0]
    /\ delayed = {} /\ ops = 0

\* push_transaction: applied at once, or kept until its delay is over.
push_transaction ==
    /\ ops < MaxOps /\ ops' = ops + 1
    /\ \E l \in DOMAIN perms, d \in Delays :
          /\ l[1] \in Actor /\ Signable(l, d)
          /\ \E t \in NativeOf(l[1]) :
                /\ Declares(l, t)
                /\ IF d = 0 THEN Apply(t) /\ UNCHANGED delayed
                   ELSE /\ Cardinality(delayed) < MaxDelayed
                        /\ delayed' = delayed \cup {[trx |-> t, auth |-> l, delay |-> d]}
                        /\ UNCHANGED <<perms, links, contract, refs, abi, ram>>

\* push_scheduled_transaction: the action is applied, or the transaction
\* fails for good or expires.
push_scheduled_transaction(g) ==
    /\ delayed' = delayed \ {g}
    /\ \/ Apply(g.trx)
       \/ UNCHANGED <<perms, links, contract, refs, abi, ram>>
    /\ UNCHANGED ops

\* canceldelay: under a permission above one that the transaction declared,
\* signed as for the delay the transaction had.
canceldelay(g) ==
    /\ ops < MaxOps /\ ops' = ops + 1
    /\ \E l \in DOMAIN perms, d \in Delays :
          Reaches(l, g.auth) /\ Signable(l, Max({d, g.delay}))
    /\ delayed' = delayed \ {g}
    /\ UNCHANGED <<perms, links, contract, refs, abi, ram>>

AuthNext ==
    \/ push_transaction
    \/ \E g \in delayed : push_scheduled_transaction(g) \/ canceldelay(g)

AuthSpec == AuthInit /\ [][AuthNext]_avars
-----------------------------------------------------------------------------
AuthTypeOK ==
    /\ DOMAIN perms \subseteq accounts \X Names
    /\ \A l \in DOMAIN perms : perms[l].parent \in Names \cup {None}
                               /\ perms[l].auth \in Authorities \cup NewAuthority \cup
                                     {Initial[a][p] : a \in DOMAIN Initial, p \in {"owner", "active"}}
    /\ DOMAIN links \subseteq accounts \X accounts \X Type
    /\ DOMAIN contract = accounts /\ DOMAIN abi = accounts
    /\ DOMAIN refs \subseteq Code

\* add_ram_usage of the native actions stays in balance: an account is
\* charged for its own rows, its code and its ABI, however often they were
\* replaced, also by delayed transactions that find other rows than the ones
\* they were checked against; and a code entry counts the accounts running it.
AuthRamExact ==
    /\ \A a \in accounts :
          ram[a] = Bytes.account + RunSize(contract[a]) + abi[a]
                   + Bytes.link * Cardinality({k \in DOMAIN links : k[1] = a})
                   + MapThenSumSet(LAMBDA l : SizeOf(perms[l].auth),
                                                {l \in DOMAIN perms : l[1] = a})
    /\ \A h \in Code :
          LET users == {a \in accounts : contract[a] = h}
          IN  IF users = {} THEN h \notin DOMAIN refs
              ELSE h \in DOMAIN refs /\ refs[h] = Cardinality(users)

\* The owner permission of an account reaches everything of the account:
\* every permission and, once only_link_to_existing_permission is activated, the
\* permission that any action is linked to, which exists.  An account whose
\* actions were linked to a permission it has not could neither use nor unlink
\* them.
OwnerReaches ==
    \A a \in accounts :
        /\ \A l \in DOMAIN perms : l[1] = a => satisfies(<<a, "owner">>, l)
        /\ OnlyExisting => \A c \in accounts, t \in Type :
              LET min == lookup_minimum_permission(a, c, t)
              IN  min # None => Reaches(<<a, "owner">>, <<a, min>>)

\* Reference: what n rounds derive from keys K and delay d without a cache.
Derived(K, d) ==
    LET Gives(S, f) == CASE f.kind = "wait" -> d >= f.what
                         [] f.kind = "key" -> f.what \in K
                         [] f.kind = "account" -> f.what \in S
        Sum(S, auth) == MapThenSumSet(LAMBDA i : auth.factors[i].weight,
                                      {i \in DOMAIN auth.factors : Gives(S, auth.factors[i])})
        R[n \in 0 .. MaxDepth] ==
            IF n = 0 THEN {}
            ELSE {l \in DOMAIN perms : Sum(R[n - 1], perms[l].auth) >= perms[l].auth.threshold}
    IN  R[MaxDepth]

\* The permissions whose references to others end within the depth limit.
Founded ==
    LET Refers(l) == {f.what : f \in {x \in Range(perms[l].auth.factors) : x.kind = "account"}}
        F[n \in 0 .. MaxDepth] ==
            IF n = 0 THEN {}
            ELSE {l \in DOMAIN perms : Refers(l) \cap DOMAIN perms \subseteq F[n - 1]}
    IN  F[MaxDepth]

\* authority_checker, with its cache, its depth limit and its order by weight,
\* accepts only what the authorities grant, and accepts all of it where
\* permissions do not refer to each other in a circle or too deeply.
CheckExact ==
    \A K \in SUBSET Key, d \in Delays :
        LET D == Derived(K, Effective(d))
            Accepted == {l \in DOMAIN perms : Check(l, K, Effective(d)).ok}
        IN  Accepted \subseteq D /\ D \cap Founded \subseteq Accepted

\* The permissions of Founded that no chain of references meets twice.
Plain ==
    LET Refers(l) == {f.what : f \in {x \in Range(perms[l].auth.factors) : x.kind = "account"}}
        Reach[n \in 0 .. MaxDepth] ==
            [l \in DOMAIN perms |->
                {l} \cup IF n = 0 THEN {}
                         ELSE UNION {Reach[n - 1][m] : m \in Refers(l) \cap DOMAIN perms}]
        Below(m) == IF m \in DOMAIN perms THEN Reach[MaxDepth][m] ELSE {}
    IN  {l \in Founded : \A k \in Reach[MaxDepth][l] : \A m, n \in Refers(k) :
                            m # n => Below(m) \cap Below(n) = {}}

\* The keys that get_required_keys names are the ones check_authorization
\* wants to see: they are enough, and it finds none of them irrelevant.
RequiredKeysPass ==
    \A l \in Plain, K \in SUBSET Key, d \in Delays :
        LET r == Check(l, K, Effective(d))
        IN  r.ok => Check(l, r.used, Effective(d)) = r
=============================================================================
