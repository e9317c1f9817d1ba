---------------------------- MODULE WalletProofs ----------------------------
(***************************************************************************)
(* Proofs about WalletManager, for any wallets, keys and timeouts.         *)
(***************************************************************************)
EXTENDS WalletManager, TLAPS

\* What the proofs need of the constants: a timeout is a number of seconds.
Constants == Timeouts \subseteq Nat /\ MaxPw \in Nat /\ MaxIdle \in Nat

\* The clock of check_timeout never runs behind the time since the last
\* command: lock_all ends the idle time without restarting the clock.
ClockInv ==
    /\ timeout \in Nat /\ idle \in Nat /\ left \in Nat \cup {-1}
    /\ left > 0 => idle + left <= timeout

\* A file is one of the three things it can be, what is in memory is too.
FileInv ==
    /\ file \in [Wallet -> {Absent, Torn} \cup
                           [state : {"stored"}, pw : Nat, keys : SUBSET Key]]
    /\ acked \in [Wallet -> SUBSET Key]

SoftWallet ==
    [state : {"open"}, checksum : Nat, keys : SUBSET Key,
     cipher : [state : {"stored"}, pw : Nat, keys : SUBSET Key]]
MemInv == mem \in [Wallet -> {Closed} \cup SoftWallet] /\ pws \in Nat

WalletInv == FileInv /\ MemInv /\ ImportsSurvive

\* No open wallet of m is closed in n or holds less there.
Keeps(m, n) ==
    \A w \in Wallet : m[w].state = "open" =>
        n[w].state = "open" /\ Held(m[w]) \subseteq Held(n[w])
-----------------------------------------------------------------------------
LEMMA LockType ==
    ASSUME NEW x \in SoftWallet
    PROVE  Lock(x) \in SoftWallet /\ Lock(x).checksum = 0 /\ Held(Lock(x)) = Held(x)
<1>1. Lock(x) \in SoftWallet /\ Lock(x).checksum = 0
    BY ZenonT(60) DEF Lock, encrypt_keys, SoftWallet, Stored
<1>2. Lock(x).cipher = IF x.checksum = 0 THEN x.cipher ELSE Stored(x.checksum, x.keys)
    BY DEF Lock, encrypt_keys, SoftWallet
<1> QED
    BY <1>1, <1>2 DEF Held, Stored

LEMMA LockAllType ==
    ASSUME NEW m \in [Wallet -> {Closed} \cup SoftWallet]
    PROVE  /\ LockAll(m) \in [Wallet -> {Closed} \cup SoftWallet]
           /\ \A w \in Wallet : ~Unlocked(LockAll(m), w)
           /\ Keeps(m, LockAll(m))
<1>1. ASSUME NEW w \in Wallet
      PROVE  /\ LockAll(m)[w] \in {Closed} \cup SoftWallet
             /\ ~Unlocked(LockAll(m), w)
             /\ m[w].state = "open" =>
                   LockAll(m)[w].state = "open" /\ Held(m[w]) \subseteq Held(LockAll(m)[w])
    <2>1. CASE Unlocked(m, w)
        <3>1. m[w] \in SoftWallet
            BY <2>1 DEF Unlocked, Closed
        <3>2. LockAll(m)[w] = Lock(m[w])
            BY <2>1 DEF LockAll
        <3>3. Lock(m[w]) \in SoftWallet /\ Lock(m[w]).checksum = 0 /\ Held(Lock(m[w])) = Held(m[w])
            BY <3>1, LockType
        <3>4. Lock(m[w]).state = "open"
            BY <3>3 DEF SoftWallet
        <3> QED
            BY <3>2, <3>3, <3>4 DEF Unlocked
    <2>2. CASE ~Unlocked(m, w)
        <3>1. LockAll(m)[w] = m[w]
            BY <2>2 DEF LockAll
        <3> QED
            BY <2>2, <3>1 DEF Unlocked
    <2> QED
        BY <2>1, <2>2
<1>2. LockAll(m) \in [Wallet -> {Closed} \cup SoftWallet]
    BY <1>1, ZenonT(60) DEF LockAll
<1> QED
    BY <1>1, <1>2, Zenon DEF Keeps

LEMMA KeepsSame == ASSUME NEW m PROVE Keeps(m, m)
    BY DEF Keeps

LEMMA CheckTimeoutType ==
    ASSUME MemInv
    PROVE  /\ check_timeout \in [Wallet -> {Closed} \cup SoftWallet]
           /\ left <= 0 => \A w \in Wallet : ~Unlocked(check_timeout, w)
           /\ Keeps(mem, check_timeout)
    BY LockAllType, KeepsSame DEF MemInv, check_timeout

\* A wallet that encrypts its keys writes the keys it holds.
LEMMA SavedKeys ==
    ASSUME NEW x \in SoftWallet, x.checksum # 0
    PROVE  /\ encrypt_keys(x) \in SoftWallet
           /\ encrypt_keys(x).cipher = Stored(x.checksum, x.keys)
    BY DEF encrypt_keys, SoftWallet, Stored
-----------------------------------------------------------------------------
LEMMA ClockStart == ASSUME Constants, WalletInit PROVE ClockInv
    BY DEF Constants, WalletInit, ClockInv

LEMMA ClockStep == ASSUME Constants, ClockInv, [WalletNext]_wallet_vars PROVE ClockInv'
<1>1. CASE Command
    BY <1>1 DEF Command, ClockInv
<1>2. CASE \E t \in Timeouts : set_timeout(t)
    BY <1>2 DEF Constants, set_timeout, ClockInv
<1>3. CASE lock_all
    BY <1>3 DEF lock_all, ClockInv
<1>4. CASE tick
    BY <1>4 DEF tick, ClockInv
<1>5. CASE restart
    <2>1. left' = timeout /\ idle' = 0 /\ timeout' = timeout
        BY <1>5, Zenon DEF restart
    <2> QED
        BY <2>1 DEF ClockInv
<1>6. CASE (\E w \in Wallet : remove_file(w)) \/ UNCHANGED wallet_vars
    <2>1. UNCHANGED <<timeout, left, idle>>
        BY <1>6, Zenon DEF remove_file, wallet_vars
    <2> QED
        BY <2>1 DEF ClockInv
<1>7. ASSUME NEW w \in Wallet, create(w) \/ open(w) \/ lock(w)
      PROVE  Command
    BY <1>7, Zenon DEF create, open, lock
<1>8. ASSUME NEW w \in Wallet, NEW pw, NEW k, unlock(w, pw) \/ remove_key(w, pw, k)
      PROVE  Command
    BY <1>8, Zenon DEF unlock, remove_key
<1>9. ASSUME NEW w \in Wallet, NEW k \in Key, import_key(w, k)
      PROVE  Command
    BY <1>9, Zenon DEF import_key
<1>10. ASSUME NEW keys, sign(keys) \/ list
       PROVE  Command
    BY <1>10, Zenon DEF sign, list
<1> QED
    BY <1>1, <1>2, <1>3, <1>4, <1>5, <1>6, <1>7, <1>8, <1>9, <1>10, Zenon DEF WalletNext

\* What a step signs it signs with an unlocked wallet, after check_timeout.
LEMMA SignsUnlocked ==
    ASSUME MemInv, ClockInv, WalletNext, signed'
    PROVE  left > 0
<1>1. PICK keys \in (SUBSET Key) \ {{}} : sign(keys)
    BY Zenon DEF WalletNext, wallet_vars, set_timeout, create, open, lock, remove_file, unlock,
                 remove_key, import_key, list, lock_all, tick, restart
<1>2. PICK k : k \in keys
    <2>1. keys # {}
        BY <1>1
    <2> QED
        BY <2>1, Zenon
<1>3. k \in UNION {check_timeout[w].keys : w \in {v \in Wallet : Unlocked(check_timeout, v)}}
    BY <1>1, <1>2, ZenonT(60) DEF sign
<1>4. \E w \in Wallet : Unlocked(check_timeout, w)
    BY <1>3, Zenon
<1>5. ~(left <= 0)
    BY <1>4, CheckTimeoutType
<1> QED
    BY <1>5 DEF ClockInv
-----------------------------------------------------------------------------
LEMMA WalletStart == ASSUME Constants, WalletInit PROVE WalletInv
    BY DEF Constants, WalletInit, WalletInv, FileInv, MemInv, ImportsSurvive

\* A command that only reads changes at most what is locked.
LEMMA ReadsKeep ==
    ASSUME WalletInv, UNCHANGED <<file, acked, pws>>,
           mem' \in [Wallet -> {Closed} \cup SoftWallet],
           \A w \in Wallet : file[w].state = "torn" /\ mem[w].state = "open" =>
               mem'[w].state = "open" /\ Held(mem[w]) \subseteq Held(mem'[w])
    PROVE  WalletInv'
<1>1. ImportsSurvive'
    <2> SUFFICES ASSUME NEW w \in Wallet, acked[w] # {}
                 PROVE  \/ file[w].state = "stored" /\ acked[w] \subseteq file[w].keys
                        \/ /\ file[w].state = "torn" /\ mem'[w].state = "open"
                           /\ acked[w] \subseteq Held(mem'[w])
        BY DEF ImportsSurvive, Held
    <2> QED
        BY DEF WalletInv, ImportsSurvive
<1> QED
    BY <1>1 DEF WalletInv, FileInv, MemInv

\* Whatever becomes of the save, the keys that Keep acknowledges are in the file
\* or in memory.
LEMMA KeepSaves ==
    ASSUME WalletInv, NEW m \in [Wallet -> {Closed} \cup SoftWallet], Keeps(mem, m),
           NEW w \in Wallet, Unlocked(m, w), NEW keys \in SUBSET Key, Keep(m, w, keys),
           UNCHANGED pws
    PROVE  WalletInv'
<1> DEFINE n == [m EXCEPT ![w].keys = keys]
           x == encrypt_keys(n[w])
<1>1. m[w] \in SoftWallet /\ m[w].checksum # 0
    BY DEF Unlocked, Closed
<1>2. n \in [Wallet -> {Closed} \cup SoftWallet] /\ n[w] \in SoftWallet /\ n[w].checksum # 0
      /\ n[w].keys = keys /\ \A v \in Wallet \ {w} : n[v] = m[v]
    BY <1>1 DEF SoftWallet
<1>3. x \in SoftWallet /\ x.cipher = Stored(n[w].checksum, keys) /\ Held(x) = keys
    <2>1. x \in SoftWallet /\ x.cipher = Stored(n[w].checksum, keys)
        BY <1>2, SavedKeys, ZenonT(60)
    <2>2. x.checksum = n[w].checksum /\ x.keys = keys
        BY <1>2 DEF encrypt_keys, SoftWallet
    <2> QED
        BY <1>2, <2>1, <2>2 DEF Held
<1>4. PICK how \in Saves :
        /\ save_wallet_file(n, w, how)
        /\ acked' = [acked EXCEPT ![w] = IF how = "refused" THEN acked[w] \cap keys ELSE keys]
    BY Zenon DEF Keep
<1>5. mem' = [n EXCEPT ![w] = x]
    BY DEF Keep
<1>6. Stored(n[w].checksum, keys) \in [state : {"stored"}, pw : Nat, keys : SUBSET Key]
    BY <1>2 DEF Stored, SoftWallet
<1>7. file' = [file EXCEPT ![w] = CASE how = "written" -> Stored(n[w].checksum, keys)
                                     [] how = "cut" -> Torn
                                     [] how = "refused" -> file[w]]
    BY <1>3, <1>4, Zenon DEF save_wallet_file
<1> HIDE DEF n, x
<1>8. MemInv'
    BY <1>2, <1>3, <1>5 DEF WalletInv, MemInv
<1>9. FileInv'
    BY <1>4, <1>6, <1>7 DEF WalletInv, FileInv, Saves
<1>10. mem'[w] = x /\ \A v \in Wallet \ {w} : mem'[v] = m[v]
    BY <1>2, <1>5
<1>11. /\ \A v \in Wallet \ {w} : file'[v] = file[v] /\ acked'[v] = acked[v]
       /\ how = "written" => file'[w] = Stored(n[w].checksum, keys) /\ acked'[w] = keys
       /\ how = "cut" => file'[w] = Torn /\ acked'[w] = keys
       /\ how = "refused" => file'[w] = file[w] /\ acked'[w] = acked[w] \cap keys
    BY <1>4, <1>7 DEF WalletInv, FileInv
<1>12. x.state = "open"
    BY <1>3 DEF SoftWallet
<1>13. ASSUME NEW v \in Wallet, acked'[v] # {}
       PROVE  \/ file'[v].state = "stored" /\ acked'[v] \subseteq file'[v].keys
              \/ /\ file'[v].state = "torn" /\ mem'[v].state = "open"
                 /\ acked'[v] \subseteq Held(mem'[v])
    <2>0. acked[v] # {} =>
             \/ file[v].state = "stored" /\ acked[v] \subseteq file[v].keys
             \/ /\ file[v].state = "torn" /\ mem[v].state = "open"
                /\ acked[v] \subseteq Held(mem[v])
        BY DEF WalletInv, ImportsSurvive
    <2>1. CASE v # w
        <3>1. mem[v].state = "open" => mem'[v].state = "open" /\ Held(mem[v]) \subseteq Held(mem'[v])
            BY <1>10, <2>1 DEF Keeps
        <3> QED
            BY <1>11, <1>13, <2>0, <2>1, <3>1
    <2>2. CASE v = w /\ how = "written"
        BY <1>11, <2>2 DEF Stored
    <2>3. CASE v = w /\ how = "cut"
        BY <1>3, <1>10, <1>11, <1>12, <2>3 DEF Torn
    <2>4. CASE v = w /\ how = "refused"
        BY <1>3, <1>10, <1>11, <1>12, <1>13, <2>0, <2>4
    <2> QED
        BY <2>1, <2>2, <2>3, <2>4 DEF Saves
<1>14. ImportsSurvive'
    BY <1>13 DEF ImportsSurvive, Held
<1> QED
    BY <1>8, <1>9, <1>14 DEF WalletInv

LEMMA WalletStep == ASSUME Constants, WalletInv, [WalletNext]_wallet_vars PROVE WalletInv'
<1> DEFINE m == check_timeout
<1>m. /\ m \in [Wallet -> {Closed} \cup SoftWallet] /\ mem \in [Wallet -> {Closed} \cup SoftWallet]
      /\ Keeps(mem, m)
    BY CheckTimeoutType DEF WalletInv, MemInv
<1> HIDE DEF m
\* What keeps all that m keeps keeps all that mem keeps.
<1>k. ASSUME Keeps(m, mem'), UNCHANGED <<file, acked, pws>>,
             mem' \in [Wallet -> {Closed} \cup SoftWallet]
      PROVE  WalletInv'
    <2>1. ASSUME NEW w \in Wallet, mem[w].state = "open"
          PROVE  mem'[w].state = "open" /\ Held(mem[w]) \subseteq Held(mem'[w])
        BY <1>k, <1>m, <2>1 DEF Keeps
    <2> QED
        BY <1>k, <2>1, ReadsKeep
<1>o. ASSUME NEW w \in Wallet, file[w].state = "stored"
      PROVE  Opened(m, w) \in [Wallet -> {Closed} \cup SoftWallet]
    <2>1. file[w] \in [state : {"stored"}, pw : Nat, keys : SUBSET Key]
        BY <1>o DEF WalletInv, FileInv, Absent, Torn
    <2>2. soft_wallet(0, {}, file[w]) \in SoftWallet
        BY <2>1 DEF soft_wallet, SoftWallet
    <2> QED
        BY <1>m, <2>2 DEF Opened
<1>1. CASE (\E t \in Timeouts : set_timeout(t)) \/ tick \/ UNCHANGED wallet_vars
    <2>1. UNCHANGED <<file, mem, acked, pws>>
        BY <1>1, Zenon DEF set_timeout, tick, wallet_vars
    <2> QED
        BY <1>m, <2>1, ReadsKeep
<1>2. CASE list \/ \E keys : sign(keys)
    <2>1. UNCHANGED <<file, acked, pws>> /\ mem' = m
        BY <1>2, Zenon DEF list, sign, m
    <2> QED
        BY <1>m, <2>1, <1>k, KeepsSame
<1>3. CASE lock_all
    <2>1. mem' = LockAll(mem) /\ UNCHANGED <<file, acked, pws>>
        BY <1>3, Zenon DEF lock_all
    <2>2. LockAll(mem) \in [Wallet -> {Closed} \cup SoftWallet] /\ Keeps(mem, LockAll(mem))
        BY <1>m, LockAllType
    <2>3. Keeps(mem, mem')
        BY <2>1, <2>2
    <2> QED
        BY <2>1, <2>2, <2>3, ReadsKeep DEF Keeps
<1>4. ASSUME NEW w \in Wallet, lock(w)
      PROVE  WalletInv'
    <2>1. /\ UNCHANGED <<file, acked, pws>>
          /\ mem' = IF Unlocked(m, w) THEN [m EXCEPT ![w] = Lock(m[w])] ELSE m
        BY <1>4, Zenon DEF lock, m
    <2>2. Unlocked(m, w) => Lock(m[w]) \in SoftWallet /\ Held(Lock(m[w])) = Held(m[w])
        BY <1>m, LockType DEF Unlocked, Closed
    <2>3. Unlocked(m, w) => Lock(m[w]).state = "open"
        BY <2>2 DEF SoftWallet
    <2>4. mem' \in [Wallet -> {Closed} \cup SoftWallet]
        BY <1>m, <2>1, <2>2
    <2>5. Keeps(m, mem')
        BY <1>m, <2>1, <2>2, <2>3 DEF Keeps
    <2> QED
        BY <2>1, <2>4, <2>5, <1>k
<1>5. ASSUME NEW w \in Wallet, open(w)
      PROVE  WalletInv'
    <2>1. /\ UNCHANGED <<file, acked, pws>>
          /\ mem' = IF file[w].state = "stored" THEN Opened(m, w) ELSE m
        BY <1>5, Zenon DEF open, m
    <2>2. mem' \in [Wallet -> {Closed} \cup SoftWallet]
        BY <1>m, <1>o, <2>1
    <2>3. ASSUME NEW v \in Wallet, file[v].state = "torn", mem[v].state = "open"
          PROVE  mem'[v].state = "open" /\ Held(mem[v]) \subseteq Held(mem'[v])
        <3>1. mem'[v] = m[v]
            BY <1>m, <2>1, <2>3 DEF Opened
        <3> QED
            BY <1>m, <2>3, <3>1 DEF Keeps
    <2> QED
        BY <2>1, <2>2, <2>3, ReadsKeep
<1>6. ASSUME NEW w \in Wallet, NEW pw \in 1 .. MaxPw, unlock(w, pw)
      PROVE  WalletInv'
    <2> DEFINE o == IF m[w] = Closed /\ file[w].state = "stored" THEN Opened(m, w) ELSE m
               right == o[w].state = "open" /\ o[w].checksum = 0 /\ o[w].cipher.pw = pw
    <2>1. /\ UNCHANGED <<file, acked, pws>>
          /\ mem' = IF right THEN [o EXCEPT ![w].keys = o[w].cipher.keys, ![w].checksum = pw]
                    ELSE o
        BY <1>6, Zenon DEF unlock, m
    <2>2. o \in [Wallet -> {Closed} \cup SoftWallet]
        BY <1>m, <1>o
    <2>5. Keeps(m, o)
        BY <1>m DEF Keeps, Opened, Closed
    <2> HIDE DEF o
    <2>3. CASE right
        <3>1. o[w] \in SoftWallet
            BY <2>2, <2>3 DEF Closed
        <3>2. [o[w] EXCEPT !.keys = o[w].cipher.keys, !.checksum = pw] \in SoftWallet
            <4>1. pw \in Nat
                BY DEF Constants
            <4>2. o[w].cipher.keys \in SUBSET Key
                BY <3>1 DEF SoftWallet
            <4> QED
                BY <3>1, <4>1, <4>2, Zenon DEF SoftWallet
        <3>3. mem' = [o EXCEPT ![w] = [o[w] EXCEPT !.keys = o[w].cipher.keys, !.checksum = pw]]
            BY <2>1, <2>2, <2>3, <3>1 DEF SoftWallet
        <3>4. mem' \in [Wallet -> {Closed} \cup SoftWallet]
            BY <2>2, <3>2, <3>3
        <3>5. /\ mem'[w].state = "open"
              /\ Held(o[w]) \subseteq Held(mem'[w])
            BY <2>2, <2>3, <3>1, <3>3 DEF SoftWallet, Held
        <3>6. \A v \in Wallet \ {w} : mem'[v] = o[v]
            BY <2>2, <3>3
        <3>7. Keeps(m, mem')
            BY <2>5, <3>5, <3>6 DEF Keeps
        <3> QED
            BY <2>1, <3>4, <3>7, <1>k
    <2>4. CASE ~right
        BY <2>1, <2>2, <2>4, <2>5, <1>k
    <2> QED
        BY <2>3, <2>4
<1>7. ASSUME NEW w \in Wallet, NEW k \in Key, import_key(w, k)
      PROVE  WalletInv'
    <2>1. pws' = pws
        BY <1>7, Zenon DEF import_key
    <2>2. CASE Unlocked(m, w) /\ Keep(m, w, m[w].keys \cup {k})
        <3>1. m[w].keys \cup {k} \in SUBSET Key
            BY <1>m, <2>2 DEF Unlocked, Closed, SoftWallet
        <3> QED
            BY <1>m, <2>1, <2>2, <3>1, KeepSaves
    <2>3. CASE mem' = m /\ UNCHANGED <<file, acked>>
        BY <1>m, <2>1, <2>3, <1>k, KeepsSame
    <2> QED
        BY <1>7, <2>2, <2>3, Zenon DEF import_key, m
<1>8. ASSUME NEW w \in Wallet, NEW pw \in 1 .. MaxPw, NEW k \in Key, remove_key(w, pw, k)
      PROVE  WalletInv'
    <2>1. pws' = pws
        BY <1>8, Zenon DEF remove_key
    <2>2. CASE Unlocked(m, w) /\ Keep(m, w, m[w].keys \ {k})
        <3>1. m[w].keys \ {k} \in SUBSET Key
            BY <1>m, <2>2 DEF Unlocked, Closed, SoftWallet
        <3> QED
            BY <1>m, <2>1, <2>2, <3>1, KeepSaves
    <2>3. CASE mem' = m /\ UNCHANGED <<file, acked>>
        BY <1>m, <2>1, <2>3, <1>k, KeepsSame
    <2> QED
        BY <1>8, <2>2, <2>3, Zenon DEF remove_key, m
<1>9. ASSUME NEW w \in Wallet, create(w)
      PROVE  WalletInv'
    <2> DEFINE pw == pws + 1
               x == soft_wallet(pw, {}, Stored(pw, {}))
               new == [m EXCEPT ![w] = x]
    <2>1. CASE file[w] # Absent /\ mem' = m /\ UNCHANGED <<file, pws, acked>>
        BY <1>m, <2>1, <1>k, KeepsSame
    <2>2. CASE /\ file[w] = Absent /\ pws' = pw /\ acked' = acked
               /\ \E how \in Saves : /\ save_wallet_file(new, w, how)
                                     /\ mem' = IF how = "refused" THEN m ELSE new
        <3>1. pw \in Nat /\ pw # 0
            BY DEF WalletInv, MemInv
        <3>2. x \in SoftWallet /\ x.checksum # 0 /\ x.keys = {}
            BY <3>1 DEF soft_wallet, SoftWallet, Stored
        <3>3. new \in [Wallet -> {Closed} \cup SoftWallet] /\ new[w] = x
              /\ \A v \in Wallet \ {w} : new[v] = m[v]
            BY <1>m, <3>2
        <3>4. encrypt_keys(x).cipher = Stored(x.checksum, {})
            BY <3>2, SavedKeys
        <3>5. PICK how \in Saves : /\ save_wallet_file(new, w, how)
                                   /\ mem' = IF how = "refused" THEN m ELSE new
            BY <2>2
        <3>6. Stored(x.checksum, {}) \in [state : {"stored"}, pw : Nat, keys : SUBSET Key]
            BY <3>2 DEF Stored, SoftWallet
        <3>7. file' = [file EXCEPT ![w] = CASE how = "written" -> Stored(x.checksum, {})
                                             [] how = "cut" -> Torn
                                             [] how = "refused" -> file[w]]
            BY <3>3, <3>4, <3>5, ZenonT(60) DEF save_wallet_file
        <3> HIDE DEF x, new
        <3>8. FileInv'
            BY <2>2, <3>6, <3>7 DEF WalletInv, FileInv, Saves
        <3>9. MemInv'
            BY <1>m, <2>2, <3>1, <3>3, <3>5 DEF MemInv
        <3>10. acked[w] = {}
            BY <2>2 DEF WalletInv, ImportsSurvive, Absent
        <3>11. \A v \in Wallet \ {w} : mem'[v] = m[v] /\ file'[v] = file[v]
            BY <3>3, <3>5, <3>7 DEF WalletInv, FileInv
        <3>12. ASSUME NEW v \in Wallet, acked[v] # {}
               PROVE  \/ file'[v].state = "stored" /\ acked[v] \subseteq file'[v].keys
                      \/ /\ file'[v].state = "torn" /\ mem'[v].state = "open"
                         /\ acked[v] \subseteq Held(mem'[v])
            <4>1. v # w
                BY <3>10, <3>12
            <4>2. \/ file[v].state = "stored" /\ acked[v] \subseteq file[v].keys
                  \/ /\ file[v].state = "torn" /\ mem[v].state = "open"
                     /\ acked[v] \subseteq Held(mem[v])
                BY <3>12 DEF WalletInv, ImportsSurvive
            <4>3. mem[v].state = "open" => m[v].state = "open" /\ Held(mem[v]) \subseteq Held(m[v])
                BY <1>m DEF Keeps
            <4> QED
                BY <3>11, <4>1, <4>2, <4>3
        <3>13. ImportsSurvive'
            BY <2>2, <3>12 DEF ImportsSurvive, Held
        <3> QED
            BY <3>8, <3>9, <3>13 DEF WalletInv
    <2> QED
        BY <1>9, <2>1, <2>2, Zenon DEF create, m
<1>10. ASSUME NEW w \in Wallet, remove_file(w)
       PROVE  WalletInv'
    BY <1>10 DEF remove_file, WalletInv, FileInv, MemInv, ImportsSurvive, Held
<1>11. CASE restart
    <2>1. mem' = [w \in Wallet |-> Closed] /\ pws' = pws
        BY <1>11, Zenon DEF restart
    <2>2. acked' = [w \in Wallet |-> IF file'[w] = Torn THEN {} ELSE acked[w]]
        BY <1>11, Zenon DEF restart
    <2>3. \/ file' = file
          \/ \E w \in Wallet : file' = [file EXCEPT ![w] = Torn]
        BY <1>11, Zenon DEF restart
    <2>4. FileInv'
        BY <2>2, <2>3 DEF WalletInv, FileInv
    <2>5. MemInv'
        BY <2>1 DEF WalletInv, MemInv
    <2>6. \A w \in Wallet : file'[w] = file[w] \/ file'[w] = Torn
        BY <2>3 DEF WalletInv, FileInv
    <2>7. ASSUME NEW w \in Wallet, acked'[w] # {}
          PROVE  file'[w].state = "stored" /\ acked'[w] \subseteq file'[w].keys
        <3>1. file'[w] # Torn /\ file'[w] = file[w] /\ acked'[w] = acked[w]
            BY <2>2, <2>6, <2>7
        <3>2. file[w].state # "torn"
            BY <3>1 DEF WalletInv, FileInv, Torn, Absent
        <3> QED
            BY <2>7, <3>1, <3>2 DEF WalletInv, ImportsSurvive
    <2>8. ImportsSurvive'
        BY <2>7 DEF ImportsSurvive
    <2> QED
        BY <2>4, <2>5, <2>8 DEF WalletInv
<1> QED
    BY <1>1, <1>2, <1>3, <1>4, <1>5, <1>6, <1>7, <1>8, <1>9, <1>10, <1>11, Zenon DEF WalletNext
-----------------------------------------------------------------------------
\* An acknowledged import survives saves that are refused or cut short, locks,
\* wallets opened anew and restarts: it is in the file or, while the file is torn,
\* in memory, until a restart finds the torn file or someone removes it.
\* import_key encrypts all keys of the wallet before save_wallet_file truncates the
\* file, and open replaces the wallet in memory only when the file could be read.
THEOREM ImportsAreKept ==
    ASSUME Constants
    PROVE  WalletSpec => []ImportsSurvive
<1>1. WalletInv => ImportsSurvive
    BY DEF WalletInv
<1> QED
    BY <1>1, WalletStart, WalletStep, PTL DEF WalletSpec

\* No command signs once the timeout has passed since the last command: it
\* calls check_timeout first, which locks every wallet, whatever lock_all and
\* set_timeout did to the clock before.
THEOREM SignsBeforeTimeout ==
    ASSUME Constants
    PROVE  WalletSpec => IdleLocks
<1>1. ASSUME ClockInv, WalletInv, [WalletNext]_wallet_vars
      PROVE  [SignsInTime]_wallet_vars
    <2>1. ASSUME signed', ~UNCHANGED wallet_vars
          PROVE  idle < timeout
        <3> QED
            BY <1>1, <2>1, SignsUnlocked DEF WalletInv, ClockInv
    <2> QED
        BY <2>1 DEF SignsInTime
<1> QED
    BY <1>1, ClockStart, ClockStep, WalletStart, WalletStep, PTL DEF WalletSpec, IdleLocks
=============================================================================
