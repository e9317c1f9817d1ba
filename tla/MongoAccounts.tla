---------------------------- MODULE MongoAccounts ----------------------------
(***************************************************************************)
(* mongo_db_plugin's collections accounts, pub_keys and account_controls,   *)
(* which follow the system actions newaccount, updateauth, deleteauth and   *)
(* setabi, and the cache of serializers made from the ABIs in accounts.     *)
(* What a dropped application wrote stays: that of a block of a branch the   *)
(* node leaves, and, on a producer, that of a pending block.                 *)
(***************************************************************************)
EXTENDS Integers, Sequences, FiniteSets, SequencesExt

CONSTANTS
    Account, Permission,  \* Permission contains "owner" and "active"
    Auth,                 \* authorities: records with sets keys and accounts
    Abi,
    abi_cache_size,       \* positive (plugin_initialize)
    MaxActions            \* bound on the actions applied, dropped ones included

VARIABLES
    perms,             \* the chain's permissions: <<account, permission>> -> authority
    acts,              \* the system actions on the chain: [act, before], before the
                       \* permissions it found
    queue,             \* those it still has to process
    accounts,          \* the collection: account -> ABI, or NoAbi
    pub_keys,          \* the collection: <<account, permission, key>>
    account_controls,  \* the collection: <<account, permission, controlling account>>
    abi_cache,         \* <<account, ABI>>, the one used longest ago first
    drops,             \* the number of actions whose application was dropped
    stale              \* history: permissions that a dropped action changed and
                       \* neither updateauth nor deleteauth since

avars == <<perms, acts, queue, accounts, pub_keys, account_controls, abi_cache, drops, stale>>

NoAbi == "none"
-----------------------------------------------------------------------------
(* The chain: the native actions that change permissions and ABIs. *)

(* The permissions an action changes. *)
Changes(act) ==
    CASE act.name = "newaccount" -> {<<act.account, "owner">>, <<act.account, "active">>}
      [] act.name \in {"updateauth", "deleteauth"} -> {<<act.account, act.permission>>}
      [] act.name = "setabi" -> {}

Act(act, after) ==
    /\ Len(acts) + drops < MaxActions
    /\ acts' = Append(acts, [act |-> act, before |-> perms]) /\ queue' = Append(queue, act)
    /\ perms' = after
    /\ stale' = IF act.name \in {"updateauth", "deleteauth"} THEN stale \ Changes(act) ELSE stale
    /\ UNCHANGED <<accounts, pub_keys, account_controls, abi_cache, drops>>

apply_newaccount(a, own, act) ==
    /\ <<a, "owner">> \notin DOMAIN perms
    /\ Act([name |-> "newaccount", account |-> a, owner |-> own, active |-> act],
           (<<a, "owner">> :> own) @@ (<<a, "active">> :> act) @@ perms)

apply_updateauth(a, p, auth) ==
    /\ <<a, "owner">> \in DOMAIN perms
    /\ Act([name |-> "updateauth", account |-> a, permission |-> p, auth |-> auth],
           (<<a, p>> :> auth) @@ perms)

apply_deleteauth(a, p) ==
    /\ p \notin {"owner", "active"} /\ <<a, p>> \in DOMAIN perms
    /\ Act([name |-> "deleteauth", account |-> a, permission |-> p],
           Restrict(perms, DOMAIN perms \ {<<a, p>>}))

apply_setabi(a, abi) ==
    /\ <<a, "owner">> \in DOMAIN perms
    /\ Act([name |-> "setabi", account |-> a, abi |-> abi], perms)

(* The applications from the i-th action on are dropped; those that are queued
   are processed all the same. *)
drop(i) ==
    /\ i \in DOMAIN acts
    /\ drops' = drops + Len(acts) - i + 1
    /\ perms' = acts[i].before
    /\ acts' = SubSeq(acts, 1, i - 1)
    /\ stale' = stale \cup UNION {Changes(acts[j].act) : j \in i..Len(acts)}
    /\ UNCHANGED <<queue, accounts, pub_keys, account_controls, abi_cache>>
-----------------------------------------------------------------------------
(* add_pub_keys and add_account_control; of a controlling permission only the
   account is kept. *)
Keys(a, p, auth) == {<<a, p, k>> : k \in auth.keys}
Controls(a, p, auth) == {<<a, p, level[1]>> : level \in auth.accounts}

(* remove_pub_keys and remove_account_control *)
MutRemovesNothing(docs, a, p) == docs

Without(docs, a, p) == {d \in docs : <<d[1], d[2]>> # <<a, p>>}

create_account(a) == IF a \in DOMAIN accounts THEN accounts ELSE (a :> NoAbi) @@ accounts

newaccount(act) ==
    /\ accounts' = create_account(act.account)
    /\ pub_keys' = pub_keys \cup Keys(act.account, "owner", act.owner)
                            \cup Keys(act.account, "active", act.active)
    /\ account_controls' = account_controls \cup Controls(act.account, "owner", act.owner)
                                            \cup Controls(act.account, "active", act.active)
    /\ UNCHANGED abi_cache

updateauth(act) ==
    LET a == act.account
        p == act.permission
    IN  /\ pub_keys' = Without(pub_keys, a, p) \cup Keys(a, p, act.auth)
        /\ account_controls' = Without(account_controls, a, p) \cup Controls(a, p, act.auth)
        /\ UNCHANGED <<accounts, abi_cache>>

deleteauth(act) ==
    /\ pub_keys' = Without(pub_keys, act.account, act.permission)
    /\ account_controls' = Without(account_controls, act.account, act.permission)
    /\ UNCHANGED <<accounts, abi_cache>>

(* abi_cache_index.erase; the ABI is not stored when it has no MongoDB form. *)
MutNoErase(cache, a) == cache

Erased(cache, a) == SelectSeq(cache, LAMBDA entry : entry[1] # a)

setabi(act, converts) ==
    /\ abi_cache' = Erased(abi_cache, act.account)
    /\ accounts' = IF converts THEN (act.account :> act.abi) @@ accounts ELSE create_account(act.account)
    /\ UNCHANGED <<pub_keys, account_controls>>

(* add_action_trace: update_account for an executed action of the system account. *)
update_account(converts) ==
    /\ queue # <<>>
    /\ queue' = Tail(queue)
    /\ LET act == Head(queue) IN
       \/ act.name = "newaccount" /\ newaccount(act)
       \/ act.name = "updateauth" /\ updateauth(act)
       \/ act.name = "deleteauth" /\ deleteauth(act)
       \/ act.name = "setabi" /\ setabi(act, converts)
    /\ UNCHANGED <<perms, acts, drops, stale>>

(* purge_abi_cache: room for one more. *)
MutPurgeLate(cache) == IF Len(cache) <= abi_cache_size THEN cache ELSE Tail(cache)

purge_abi_cache(cache) == IF Len(cache) < abi_cache_size THEN cache ELSE Tail(cache)

(* get_abi_serializer for an account that some stored trace names. *)
get_abi_serializer(a) ==
    /\ LET hit == SelectSeq(abi_cache, LAMBDA entry : entry[1] = a) IN
       \/ /\ hit # <<>>
          /\ abi_cache' = SelectSeq(abi_cache, LAMBDA entry : entry[1] # a) \o hit
       \/ /\ hit = <<>>
          /\ a \in DOMAIN accounts /\ accounts[a] # NoAbi
          /\ abi_cache' = Append(purge_abi_cache(abi_cache), <<a, accounts[a]>>)
    /\ UNCHANGED <<perms, acts, queue, accounts, pub_keys, account_controls, drops, stale>>
-----------------------------------------------------------------------------
Empty == [x \in {} |-> 0]

AccountsInit ==
    /\ perms = Empty /\ acts = <<>> /\ queue = <<>> /\ drops = 0 /\ stale = {}
    /\ accounts = Empty /\ pub_keys = {} /\ account_controls = {} /\ abi_cache = <<>>

AccountsNext ==
    \/ \E a \in Account :
         \/ \E own, act \in Auth : apply_newaccount(a, own, act)
         \/ \E p \in Permission :
              \/ \E auth \in Auth : apply_updateauth(a, p, auth)
              \/ apply_deleteauth(a, p)
         \/ \E abi \in Abi : apply_setabi(a, abi)
         \/ get_abi_serializer(a)
    \/ \E i \in 1..MaxActions : drop(i)
    \/ \E converts \in BOOLEAN : update_account(converts)

AccountsSpec == AccountsInit /\ [][AccountsNext]_avars
-----------------------------------------------------------------------------
AccountsTypeOK ==
    /\ DOMAIN perms \subseteq Account \X Permission
    /\ DOMAIN accounts \subseteq Account
    /\ Len(abi_cache) <= abi_cache_size
    /\ \A i, j \in DOMAIN abi_cache : i # j => abi_cache[i][1] # abi_cache[j][1]

(* Once every action is processed the keys and controlling accounts stored for a
   permission are those of the chain's, unless a dropped action changed it; then
   too, once the chain has updated or deleted it since: updateauth and deleteauth
   remove what was stored first, newaccount does not (update_account). *)
KeysMirror ==
    queue = <<>> =>
        \A x \in (Account \X Permission) \ stale :
            /\ {d \in pub_keys : <<d[1], d[2]>> = x}
               = IF x \in DOMAIN perms THEN Keys(x[1], x[2], perms[x]) ELSE {}
            /\ {d \in account_controls : <<d[1], d[2]>> = x}
               = IF x \in DOMAIN perms THEN Controls(x[1], x[2], perms[x]) ELSE {}

(* A cached serializer is that of the ABI stored for the account, so no trace
   is written with an ABI that was replaced (get_abi_serializer, update_account). *)
CacheFresh ==
    \A i \in DOMAIN abi_cache : LET a == abi_cache[i][1]
                                IN  a \in DOMAIN accounts /\ accounts[a] = abi_cache[i][2]
=============================================================================
