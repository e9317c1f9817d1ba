---------------------------- MODULE ForcePunish ----------------------------
(***************************************************************************)
(* force.system, punishment of producers that miss blocks: anyone may, for *)
(* a deposit, move that a producer with missed blocks be punished; when    *)
(* more than two thirds of the schedule have approved, the producer is     *)
(* suspended, and can buy itself back after two days.  A motion lapses     *)
(* after a day; block numbers are unsigned, so in the first day of the     *)
(* chain every motion counts as lapsed.                                    *)
(*                                                                         *)
(* Block production and elections (module ForceProducers) are reduced to   *)
(* what they change here: who has missed blocks, and which schedule is in  *)
(* force.                                                                  *)
(***************************************************************************)
EXTENDS Integers, FiniteSets, FiniteSetsExt

CONSTANTS
    Producers,      \* registered producers
    Initiator,      \* accounts that move
    NumTop,         \* NUM_OF_TOP_BPS
    Day,            \* UPDATE_CYCLE * CYCLE_PREDAY, in blocks
    Modulus,        \* 2^32
    Drains,         \* what a producer loses for missed blocks
    PunishFee, BailFee,
    Held,           \* what else the system account holds: the stakes of voters
    Starts,         \* block numbers to begin at
    MaxHeight, MaxActs

VARIABLES
    bp,             \* bps_table: [status, changed, remain]
    super,          \* the schedule in force
    drained,        \* last_drain_bp: producers with missed blocks
    motion,         \* punish_bps: [open, by, at]
    approved,       \* approve_punish_bps
    account,        \* the system account: [balance, shared: paid to those who carried motions]
    height, acts

punish_vars == <<bp, super, drained, motion, approved, account, height, acts>>

NoMotion == [open |-> FALSE]

PunishTypeOK ==
    /\ \A b \in Producers : /\ bp[b].status \in {"normal", "punish", "removed"}
                            /\ bp[b].remain \in Nat
    /\ super \in kSubset(NumTop, Producers)
    /\ drained \subseteq Producers
    /\ \A b \in Producers : motion[b] = NoMotion \/ motion[b].at \in 0..height
    /\ approved \in [Producers -> SUBSET Producers]
    /\ account \in [balance : Nat, shared : Nat] /\ height \in Nat /\ acts \in 0..MaxActs

PunishInit ==
    /\ bp = [b \in Producers |-> [status |-> "normal", changed |-> 0, remain |-> 0]]
    /\ super \in kSubset(NumTop, Producers)
    /\ drained = {}
    /\ motion = [b \in Producers |-> NoMotion]
    /\ approved = [b \in Producers |-> {}]
    /\ account = [balance |-> Held, shared |-> 0]
    /\ height \in Starts
    /\ acts = 0

Act ==
    /\ acts < MaxActs
    /\ acts' = acts + 1
    /\ UNCHANGED height

(* Unsigned: before block Day, Back is past every block. *)
Back == (height - Day) % Modulus

(* The token contract refuses a transfer that overdraws the account. *)
Pay(amount, shared) ==
    /\ amount <= account.balance
    /\ account' = [balance |-> account.balance - amount, shared |-> account.shared + shared]

Take(amount) == account' = [account EXCEPT !.balance = @ + amount]
-----------------------------------------------------------------------------
(* Mutation: a motion that lapsed goes, its approvals stay. *)
MutApprovalsStay(b) == approved

ApprovalsWithout(b) == [approved EXCEPT ![b] = {}]

(* A motion that lapsed gives way to a new one, its deposit returned. *)
punishbp(i, b) ==
    /\ Act
    /\ b \in drained
    /\ motion[b].open => motion[b].at < Back
    /\ IF motion[b].open THEN UNCHANGED account ELSE Take(PunishFee)
    /\ motion' = [motion EXCEPT ![b] = [open |-> TRUE, by |-> i, at |-> height]]
    /\ approved' = IF motion[b].open THEN ApprovalsWithout(b) ELSE approved
    /\ UNCHANGED <<bp, super, drained>>

(* The deposit is returned only if the motion has lapsed. *)
canclepunish(i, b) ==
    /\ Act
    /\ motion[b].open /\ motion[b].by = i
    /\ IF motion[b].at < Back THEN Pay(PunishFee, 0) ELSE UNCHANGED account
    /\ motion' = [motion EXCEPT ![b] = NoMotion]
    /\ approved' = ApprovalsWithout(b)
    /\ UNCHANGED <<bp, super, drained>>

(* Mutation: the motion stays after it was carried. *)
MutMotionStays(b) == motion

Closed(b) == [motion EXCEPT ![b] = NoMotion]

(* Mutation: the record of missed blocks stays. *)
MutDrainStays(b) == drained

DrainedWithout(b) == drained \ {b}

(* What an approver gets of what the producer lost: half of it is divided   *)
(* among the n approvers of the schedule.                                   *)
Share(b, n) == (bp[b].remain \div 2) \div n

(* The deposit goes back with the other half, and the n approvers are paid: *)
(* all from the system account, though the producer's mortgage lies in the  *)
(* reward account.  A transfer of nothing fails, and the action with it.    *)
exec_punish_bp(b, n) ==
    /\ Share(b, n) > 0
    /\ LET shared == bp[b].remain \div 2 + n * Share(b, n) IN Pay(PunishFee + shared, shared)
    /\ bp' = [bp EXCEPT ![b] = [status |-> "punish", changed |-> height, remain |-> 0]]
    /\ motion' = Closed(b)
    /\ approved' = ApprovalsWithout(b)
    /\ drained' = DrainedWithout(b)

(* The number that executes is taken from all approvers; of these enough     *)
(* must still be in the schedule.                                           *)
apppunish(p, b) ==
    LET approvers == approved[b] \cup {p}
    IN  /\ Act
        /\ p \in super
        /\ motion[b].open /\ motion[b].at > Back
        /\ p \notin approved[b]
        /\ IF /\ Cardinality(approvers) > (NumTop * 2) \div 3
              /\ Cardinality(approvers \cap super) >= (NumTop * 2) \div 3
           THEN exec_punish_bp(b, Cardinality(approvers \cap super))
           ELSE /\ approved' = [approved EXCEPT ![b] = approvers]
                /\ UNCHANGED <<bp, drained, motion, account>>
        /\ UNCHANGED super

(* unapppunish drops the approvals of everyone. *)
unapppunish(p, b) ==
    /\ Act
    /\ approved[b] # {}
    /\ approved' = ApprovalsWithout(b)
    /\ UNCHANGED <<bp, super, drained, motion, account>>

bailpunish(b) ==
    /\ Act
    /\ bp[b].status = "punish" /\ bp[b].changed + 2 * Day < height
    /\ bp' = [bp EXCEPT ![b].status = "normal"]
    /\ Take(BailFee)
    /\ UNCHANGED <<super, drained, motion, approved>>

removebp(b) ==
    /\ Act
    /\ bp' = [bp EXCEPT ![b].status = "removed"]
    /\ UNCHANGED <<super, drained, motion, approved, account>>
-----------------------------------------------------------------------------
(* reward_block at the end of a cycle: the producers of D missed blocks,    *)
(* the rest of the schedule did not.                                        *)
reward_block(D, amount) ==
    /\ Act
    /\ D \subseteq super
    /\ bp' = [b \in Producers |-> [bp[b] EXCEPT !.remain = IF b \in D THEN @ + amount ELSE @]]
    /\ drained' = (drained \ super) \cup D
    /\ UNCHANGED <<super, motion, approved, account>>

(* An election and the chain's change of schedule. *)
elect(S) ==
    /\ Act
    /\ \A b \in S : bp[b].status \notin {"removed", "punish"}
    /\ super' = S
    /\ UNCHANGED <<bp, drained, motion, approved, account>>

next_block ==
    /\ height < MaxHeight
    /\ height' = height + 1
    /\ UNCHANGED <<bp, super, drained, motion, approved, account, acts>>

PunishNext ==
    \/ \E i \in Initiator, b \in Producers : punishbp(i, b) \/ canclepunish(i, b)
    \/ \E p \in Producers, b \in Producers : apppunish(p, b) \/ unapppunish(p, b)
    \/ \E b \in Producers : bailpunish(b) \/ removebp(b)
    \/ \E D \in SUBSET Producers, a \in Drains : reward_block(D, a)
    \/ \E S \in kSubset(NumTop, Producers) : elect(S)
    \/ next_block

PunishSpec == PunishInit /\ [][PunishNext]_punish_vars
-----------------------------------------------------------------------------
(* Whatever is moved, renewed, cancelled, carried or bailed out, the system *)
(* account lacks nothing of the voters' stakes and of the deposits of open  *)
(* motions but what was shared among those who carried a motion.            *)
DepositsHeld ==
    account.balance + account.shared >=
        Held + PunishFee * Cardinality({b \in Producers : motion[b].open})

(* Approvals never outlive their motion, so that a later motion against the *)
(* same producer is not carried by them.                                    *)
ApprovalsOfMotion == \A b \in Producers : approved[b] # {} => motion[b].open

(* While a motion is open there is something for every approver when it is  *)
(* carried, even if the producer has since missed no more blocks and lost   *)
(* its record of missed ones: a transfer of nothing would throw, and no     *)
(* approval could carry the motion.                                         *)
MotionPays == \A b \in Producers : motion[b].open => Share(b, NumTop) > 0
=============================================================================
