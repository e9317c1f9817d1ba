--------------------------- MODULE WalletManager ---------------------------
(***************************************************************************)
(* keosd's wallet manager and its software wallets: keys in memory, an     *)
(* encrypted copy in memory and one in the wallet's file, and the timeout  *)
(* that locks all wallets.  Every command runs on the main thread.  A file *)
(* is truncated before it is written: a crash can tear it, and so can a    *)
(* write that fails, which nobody notices (the stream is not looked at     *)
(* after it was opened).                                                   *)
(***************************************************************************)
EXTENDS Integers, FiniteSets

CONSTANTS
    Wallet,     \* names of wallets
    Key,        \* key pairs
    MaxPw,      \* bound on the passwords generated
    Timeouts,   \* values given to set_timeout
    MaxIdle     \* bound on the seconds counted between two commands

VARIABLES
    file,       \* the wallet files
    mem,        \* wallet_manager::wallets
    timeout,    \* how long to wait before lock_all
    left,       \* timeout_time minus now, -1 for any time past it
    pws,        \* number of passwords generated so far
    idle,       \* history: seconds since the last command
    acked,      \* history: keys of each file whose import was acknowledged
    signed      \* history: the last command signed something

wallet_vars == <<file, mem, timeout, left, pws, idle, acked, signed>>

Absent == [state |-> "absent"]
Torn == [state |-> "torn"]
Stored(pw, keys) == [state |-> "stored", pw |-> pw, keys |-> keys]
Closed == [state |-> "closed"]

\* soft_wallet: checksum 0 is "locked"; cipher is what cipher_keys decrypts to.
soft_wallet(pw, keys, cipher) == [state |-> "open", checksum |-> pw, keys |-> keys, cipher |-> cipher]

\* is_locked
Unlocked(m, w) == m[w].state = "open" /\ m[w].checksum # 0

encrypt_keys(x) == IF x.checksum = 0 THEN x ELSE [x EXCEPT !.cipher = Stored(x.checksum, x.keys)]

\* Mutation: a locked wallet keeps its keys.
MutLockKeepsKeys(x) == [encrypt_keys(x) EXCEPT !.checksum = 0]

Lock(x) == [encrypt_keys(x) EXCEPT !.checksum = 0, !.keys = {}]

LockAll(m) == [w \in Wallet |-> IF Unlocked(m, w) THEN Lock(m[w]) ELSE m[w]]

\* Mutation: the last second of the timeout does not count.
MutCheckLate == IF left < 0 THEN LockAll(mem) ELSE mem

\* check_timeout, the first thing every command does; it also restarts the clock.
check_timeout == IF left <= 0 THEN LockAll(mem) ELSE mem

Command == left' = timeout /\ idle' = 0 /\ UNCHANGED timeout

WalletInit ==
    /\ file = [w \in Wallet |-> Absent]
    /\ mem = [w \in Wallet |-> Closed]
    /\ timeout \in Timeouts /\ left = timeout
    /\ pws = 0 /\ idle = 0
    /\ acked = [w \in Wallet |-> {}]
    /\ signed = FALSE

set_timeout(t) ==
    /\ timeout' = t /\ left' = t /\ idle' = 0 /\ signed' = FALSE
    /\ UNCHANGED <<file, mem, pws, acked>>

\* How a save ends: all is written, the file was truncated and the write failed,
\* which the caller does not learn, or the file could not be opened, which throws.
Saves == {"written", "cut", "refused"}

\* Mutation: the keys are not encrypted again before they are saved.
MutSaveStale(m, w, how) ==
    file' = [file EXCEPT ![w] = IF how = "refused" THEN @ ELSE m[w].cipher]

\* save_wallet_file of an unlocked wallet.
save_wallet_file(m, w, how) ==
    file' = [file EXCEPT ![w] = CASE how = "written" -> encrypt_keys(m[w]).cipher
                                  [] how = "cut" -> Torn
                                  [] how = "refused" -> file[w]]

create(w) ==
    LET m == check_timeout
        pw == pws + 1
        new == [m EXCEPT ![w] = soft_wallet(pw, {}, Stored(pw, {}))]
    IN  /\ Command /\ signed' = FALSE
        /\ \/ /\ file[w] = Absent /\ pws < MaxPw /\ pws' = pw
              /\ \E how \in Saves : /\ save_wallet_file(new, w, how)
                                   /\ mem' = IF how = "refused" THEN m ELSE new
              /\ UNCHANGED acked
           \/ file[w] # Absent /\ mem' = m /\ UNCHANGED <<file, pws, acked>>

\* open: whatever was in memory under that name is replaced, locked.
Opened(m, w) == [m EXCEPT ![w] = soft_wallet(0, {}, file[w])]

open(w) ==
    /\ Command /\ signed' = FALSE
    /\ mem' = IF file[w].state = "stored" THEN Opened(check_timeout, w) ELSE check_timeout
    /\ UNCHANGED <<file, pws, acked>>

\* list_wallets, list_keys and get_public_keys change nothing else.
list == Command /\ signed' = FALSE /\ mem' = check_timeout /\ UNCHANGED <<file, pws, acked>>

\* lock_all does not check, and does not restart, the timeout.
lock_all ==
    /\ mem' = LockAll(mem) /\ idle' = 0 /\ signed' = FALSE
    /\ UNCHANGED <<file, timeout, left, pws, acked>>

lock(w) ==
    LET m == check_timeout
    IN  /\ Command /\ signed' = FALSE
        /\ mem' = IF Unlocked(m, w) THEN [m EXCEPT ![w] = Lock(@)] ELSE m
        /\ UNCHANGED <<file, pws, acked>>

\* unlock with a password, right or wrong, opening the file if need be.
unlock(w, pw) ==
    LET m == check_timeout
        o == IF m[w] = Closed /\ file[w].state = "stored" THEN Opened(m, w) ELSE m
        right == o[w].state = "open" /\ o[w].checksum = 0 /\ o[w].cipher.pw = pw
    IN  /\ Command /\ signed' = FALSE
        /\ mem' = IF right THEN [o EXCEPT ![w].keys = o[w].cipher.keys, ![w].checksum = pw] ELSE o
        /\ UNCHANGED <<file, pws, acked>>

\* The keys are in memory before the file is saved, also when that throws; a cut
\* write is acknowledged like a complete one.
Keep(m, w, keys) ==
    LET n == [m EXCEPT ![w].keys = keys]
    IN  /\ mem' = [n EXCEPT ![w] = encrypt_keys(@)]
        /\ \E how \in Saves :
              /\ save_wallet_file(n, w, how)
              /\ acked' = [acked EXCEPT ![w] = IF how = "refused" THEN @ \cap keys ELSE keys]

\* import_key, and create_key with a new key.
import_key(w, k) ==
    LET m == check_timeout
    IN  /\ Command /\ signed' = FALSE /\ UNCHANGED pws
        /\ \/ Unlocked(m, w) /\ k \notin m[w].keys /\ Keep(m, w, m[w].keys \cup {k})
           \/ ~(Unlocked(m, w) /\ k \notin m[w].keys) /\ mem' = m /\ UNCHANGED <<file, acked>>

remove_key(w, pw, k) ==
    LET m == check_timeout
        may == Unlocked(m, w) /\ m[w].cipher.pw = pw /\ k \in m[w].keys
    IN  /\ Command /\ signed' = FALSE /\ UNCHANGED pws
        /\ \/ may /\ Keep(m, w, m[w].keys \ {k})
           \/ ~may /\ mem' = m /\ UNCHANGED <<file, acked>>

\* sign_digest and sign_transaction, with keys of any unlocked wallets.
sign(keys) ==
    LET m == check_timeout
        held == UNION {m[w].keys : w \in {v \in Wallet : Unlocked(m, v)}}
    IN  /\ Command /\ mem' = m
        /\ signed' = (keys \subseteq held)
        /\ UNCHANGED <<file, pws, acked>>

tick ==
    /\ idle < MaxIdle /\ idle' = idle + 1 /\ signed' = FALSE
    /\ left' = IF left < 0 THEN left ELSE left - 1
    /\ UNCHANGED <<file, mem, timeout, pws, acked>>

\* Someone removes the file while keosd runs.
remove_file(w) ==
    /\ file[w] # Absent
    /\ file' = [file EXCEPT ![w] = Absent] /\ acked' = [acked EXCEPT ![w] = {}] /\ signed' = FALSE
    /\ UNCHANGED <<mem, timeout, left, pws, idle>>

\* keosd stops or crashes, perhaps while it saves an unlocked or a new wallet, and
\* starts again; what a torn file should hold is gone.
restart ==
    /\ mem' = [w \in Wallet |-> Closed] /\ left' = timeout /\ idle' = 0 /\ signed' = FALSE
    /\ \/ UNCHANGED file
       \/ \E w \in Wallet : /\ Unlocked(mem, w) \/ file[w] = Absent
                            /\ file' = [file EXCEPT ![w] = Torn]
    /\ acked' = [w \in Wallet |-> IF file'[w] = Torn THEN {} ELSE acked[w]]
    /\ UNCHANGED <<timeout, pws>>

WalletNext ==
    \/ \E t \in Timeouts : set_timeout(t)
    \/ \E w \in Wallet : create(w) \/ open(w) \/ lock(w) \/ remove_file(w)
    \/ \E w \in Wallet, pw \in 1 .. MaxPw : unlock(w, pw) \/ \E k \in Key : remove_key(w, pw, k)
    \/ \E w \in Wallet, k \in Key : import_key(w, k)
    \/ \E keys \in (SUBSET Key) \ {{}} : sign(keys)
    \/ list \/ lock_all \/ tick \/ restart

WalletSpec == WalletInit /\ [][WalletNext]_wallet_vars
-----------------------------------------------------------------------------
\* A locked wallet holds no keys in the clear, and the passwords in use are those
\* that were generated.
TypeOK ==
    /\ timeout \in Timeouts /\ left \in Nat \cup {-1} /\ pws \in 0 .. MaxPw /\ idle \in 0 .. MaxIdle
    /\ \A w \in Wallet :
          /\ file[w].state \in {"absent", "torn", "stored"}
          /\ file[w].state = "stored" => file[w].pw \in 1 .. pws /\ file[w].keys \subseteq Key
          /\ mem[w].state \in {"open", "closed"}
          /\ mem[w].state = "open" =>
                /\ mem[w].keys \subseteq Key /\ mem[w].cipher.state = "stored"
                /\ mem[w].checksum \in 0 .. pws
                /\ mem[w].checksum = 0 => mem[w].keys = {}

\* What an open wallet holds, in the clear or encrypted.
Held(x) == IF x.checksum # 0 THEN x.keys ELSE x.cipher.keys

\* An acknowledged import survives: every key whose import was acknowledged and
\* that was not removed is in the wallet's file, or, when the write of the file was
\* cut short and answered as done, still in keosd's memory, from which the next
\* save writes it: opening a torn file fails without dropping the wallet in memory,
\* and locking and unlocking go through the copy in memory.  Only a restart (or
\* someone who removes the file) before that save loses it.
ImportsSurvive ==
    \A w \in Wallet : acked[w] # {} =>
        \/ file[w].state = "stored" /\ acked[w] \subseteq file[w].keys
        \/ file[w].state = "torn" /\ mem[w].state = "open" /\ acked[w] \subseteq Held(mem[w])

SignsInTime == signed' => idle < timeout

\* Nothing is signed after the timeout has passed without a command: the first
\* command finds all wallets locked (check_timeout).
IdleLocks == [][SignsInTime]_wallet_vars
=============================================================================
