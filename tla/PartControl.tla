----------------------------- MODULE PartControl -----------------------------
(***************************************************************************)
(* Registration of the motors, the counters of the command groups and the  *)
(* transmission of the set points: PartControl::joint_add,                 *)
(* DeviceMonitor::register_and_init, PartControl::set_online_cnt,          *)
(* PartControl::set_can_current and transimitionCanTx.                     *)
(*                                                                         *)
(* Two tasks of equal priority share the group counters: motor_control     *)
(* counts the joints it registers and then sends one frame per group with  *)
(* a counter that is not zero; device_monitor counts every change of a     *)
(* joint's online flag.  When and why a flag changes is left open here     *)
(* and modelled in DeviceMonitor, which implements this module.            *)
(*                                                                         *)
(* Joints are numbered by their place in device_joint_[1]: every motor of  *)
(* the shipped configuration hangs on HCAN1, whose number is 1.            *)
(***************************************************************************)
EXTENDS Integers, Sequences, FiniteSets

CONSTANTS
  CntMod,    \* number of values of a group counter (uint8_t: 256)
  MaxJoint,  \* the vectors are reserved for 8 devices and hold no more
  Configs,   \* the motor configurations: sequences of joint ids
  MailBox    \* transmit mailboxes of the CAN controller (3)

ASSUME ConfigAssumption ==
  /\ CntMod \in Nat \ {0} /\ MaxJoint \in Nat /\ MailBox \in Nat \ {0}
  /\ 2 * MaxJoint < CntMod
  /\ Configs \subseteq Seq(1..11)
  /\ \A c \in Configs : Len(c) <= MaxJoint

VARIABLES
  config,  \* the joint ids the parts register, in order
  nreg,    \* size of device_joint_[1]
  online,  \* DeviceStatus::online of a joint
  cnt,     \* joint_cmd_group_online_cnt_[1]
  halted,  \* freertosErrorHandler() was entered: nothing runs any more
  mpc,     \* device_monitor: at set_online_cnt's load or store, or elsewhere
  mi,      \* the joint it is counting
  mreg,    \* the register of its read-modify-write
  rpc,     \* motor_control: registering, or in its loop
  rreg,    \* the register of its read-modify-write
  sj,      \* the group set_can_current is at
  mail,    \* occupied transmit mailboxes
  frame,   \* the last frame handed to the CAN controller
  sent,    \* history: the frames of this round of set_can_current
  lost     \* history: groups with a counter update that a stale one overwrote

counter == <<config, nreg, online, cnt, halted, mpc, mi, mreg, rpc, rreg, lost>>
sender  == <<sj, mail, frame, sent>>
vars    == <<counter, sender>>

Joint      == 1..MaxJoint
Group      == 0..3
Registered == 1..nreg
IdAt(i)    == config[i]

\* Unsigned counters with m values.
Inc(x, m) == IF x + 1 = m THEN 0 ELSE x + 1
Dec(x, m) == IF x = 0 THEN m - 1 ELSE x - 1

\* The head of the frame that carries the set point of motor id.
gCanHeadTarget(id) ==
  CASE id \in 1..4  -> "0x200" [] id \in 5..8 -> "0x1FF"
    [] id \in 9..11 -> "0x2FF" [] OTHER -> "0x000"

\* id >> 2, the group whose counter set_online_cnt changes.
GroupOf(id) == id \div 4

\* (j << 2) | k, the joint whose set point is in slot k of group j's frame.
SlotId(j, k) == IF k = 4 /\ j % 2 = 1 THEN 4 * j ELSE 4 * j + k

NoFrame == [head |-> "none", slots |-> [k \in 1..4 |-> 0]]

CurrentFrame(j) ==
  [head  |-> gCanHeadTarget(SlotId(j, 1)),
   slots |-> [k \in 1..4 |-> SlotId(j, k)]]

\* The groups with a lost update, after a store of reg + 1 or reg - 1 to the
\* counter of group g.
Overwritten(g, reg) == IF cnt[g] = reg THEN lost ELSE lost \union {g}

CounterInit ==
  /\ config \in Configs
  /\ nreg = 0
  /\ online = [i \in Joint |-> FALSE]
  /\ cnt = [g \in Group |-> 0]
  /\ halted = FALSE
  /\ mpc = "idle" /\ mi = 0 /\ mreg = 0
  /\ rpc = "add" /\ rreg = 0
  /\ lost = {}

Init ==
  /\ CounterInit
  /\ sj = 0 /\ mail = 0 /\ frame = NoFrame /\ sent = {}

-----------------------------------------------------------------------------
(* The motor_control task: on_init of the parts. *)

\* Mutant: register_and_init without its search for the same feedback id.
JointAddUnchecked ==
  /\ ~halted /\ rpc = "add" /\ nreg < Len(config)
  /\ nreg' = nreg + 1
  /\ online' = [online EXCEPT ![nreg + 1] = FALSE]
  /\ rpc' = "load"
  /\ UNCHANGED <<config, cnt, halted, mpc, mi, mreg, rreg, lost, sender>>

\* joint_add up to register_and_init's push_back.  An id that is already on
\* the bus enters freertosErrorHandler, which never returns.
JointAdd ==
  /\ ~halted /\ rpc = "add" /\ nreg < Len(config)
  /\ IF \E i \in Registered : IdAt(i) = config[nreg + 1]
       THEN halted' = TRUE /\ UNCHANGED <<nreg, online, rpc>>
       ELSE /\ nreg' = nreg + 1
            /\ online' = [online EXCEPT ![nreg + 1] = FALSE]
            /\ rpc' = "load"
            /\ UNCHANGED halted
  /\ UNCHANGED <<config, cnt, mpc, mi, mreg, rreg, lost, sender>>

\* set_online_cnt(can_num, id, 1): the += is a load and a store.
JointLoad ==
  /\ ~halted /\ rpc = "load"
  /\ rreg' = cnt[GroupOf(IdAt(nreg))]
  /\ rpc' = "store"
  /\ UNCHANGED <<config, nreg, online, cnt, halted, mpc, mi, mreg, lost, sender>>

JointStore ==
  LET g == GroupOf(IdAt(nreg))
  IN  /\ ~halted /\ rpc = "store"
      /\ cnt' = [cnt EXCEPT ![g] = Inc(rreg, CntMod)]
      /\ lost' = Overwritten(g, rreg)
      /\ rpc' = IF nreg = Len(config) THEN "send" ELSE "add"
      /\ rreg' = 0
      /\ UNCHANGED <<config, nreg, online, halted, mpc, mi, mreg, sender>>

-----------------------------------------------------------------------------
(* The device_monitor task: the flag of joint i changes and is counted. *)

Judge(i) ==
  /\ ~halted /\ mpc = "idle"
  /\ online' = [online EXCEPT ![i] = ~@]
  /\ mi' = i /\ mpc' = "load"
  /\ UNCHANGED <<config, nreg, cnt, halted, mreg, rpc, rreg, lost, sender>>

\* set_online_cnt(can_num, id, online ? 1 : -1).
CountLoad ==
  /\ ~halted /\ mpc = "load"
  /\ mreg' = cnt[GroupOf(IdAt(mi))]
  /\ mpc' = "store"
  /\ UNCHANGED <<config, nreg, online, cnt, halted, mi, rpc, rreg, lost, sender>>

\* Mutant: every change of a flag counts as +1.
CountStoreUp ==
  LET g == GroupOf(IdAt(mi))
  IN  /\ ~halted /\ mpc = "store"
      /\ cnt' = [cnt EXCEPT ![g] = Inc(mreg, CntMod)]
      /\ lost' = Overwritten(g, mreg)
      /\ mpc' = "idle" /\ mi' = 0 /\ mreg' = 0
      /\ UNCHANGED <<config, nreg, online, halted, rpc, rreg, sender>>

CountStore ==
  LET g == GroupOf(IdAt(mi))
  IN  /\ ~halted /\ mpc = "store"
      /\ cnt' = [cnt EXCEPT ![g] = IF online[mi] THEN Inc(mreg, CntMod)
                                                 ELSE Dec(mreg, CntMod)]
      /\ lost' = Overwritten(g, mreg)
      /\ mpc' = "idle" /\ mi' = 0 /\ mreg' = 0
      /\ UNCHANGED <<config, nreg, online, halted, rpc, rreg, sender>>

-----------------------------------------------------------------------------
(* The motor_control task: set_can_current, once per osDelay(1). *)

\* Mutants of one iteration: a group needs more than low joints, and the
\* transmission waits for room mailboxes.
SendGroupIf(low, room) ==
  /\ ~halted /\ rpc = "send" /\ sj < 4
  /\ IF cnt[sj] > low
       THEN /\ mail + room <= MailBox /\ mail' = mail + 1
            /\ frame' = CurrentFrame(sj)
            /\ sent' = sent \union {CurrentFrame(sj)}
       ELSE UNCHANGED <<mail, frame, sent>>
  /\ sj' = sj + 1
  /\ UNCHANGED counter

SendGroupTwo   == SendGroupIf(1, 1)
SendGroupSpare == SendGroupIf(0, 2)

\* One iteration: a group with a counter of zero is left out, and
\* transimitionCanTx spins until a mailbox is free.
SendGroup ==
  /\ ~halted /\ rpc = "send" /\ sj < 4
  /\ IF cnt[sj] # 0
       THEN /\ mail < MailBox /\ mail' = mail + 1
            /\ frame' = CurrentFrame(sj)
            /\ sent' = sent \union {CurrentFrame(sj)}
       ELSE UNCHANGED <<mail, frame, sent>>
  /\ sj' = sj + 1
  /\ UNCHANGED counter

\* osDelay and the next round.
NextRound ==
  /\ ~halted /\ rpc = "send" /\ sj = 4
  /\ sj' = 0 /\ sent' = {}
  /\ UNCHANGED <<counter, mail, frame>>

\* The CAN controller puts a pending frame on the bus.
Transmit ==
  /\ mail > 0 /\ mail' = mail - 1
  /\ UNCHANGED <<counter, sj, frame, sent>>

-----------------------------------------------------------------------------
Register == JointAdd \/ JointLoad \/ JointStore
Count    == CountLoad \/ CountStore
Send     == SendGroup \/ NextRound

Next ==
  \/ Register \/ Count \/ Send \/ Transmit
  \/ \E i \in Registered : Judge(i)

Spec == Init /\ [][Next]_vars

\* The scheduler serves every ready task, and the controller gets its frames
\* out as long as another node acknowledges them.
FairSpec == Spec /\ WF_vars(Register \/ Send) /\ WF_vars(Transmit)

-----------------------------------------------------------------------------
(* Properties *)

\* No two registered joints answer to the same feedback id, so the first
\* match of jointUpdate is the only one: register_and_init stops the system
\* before it would push the second.
FeedbackIdsDistinct ==
  \A i, j \in Registered : i # j => IdAt(i) # IdAt(j)

\* The joints of group g whose registration joint_add has counted.
Counted(g) ==
  {i \in Registered : /\ GroupOf(IdAt(i)) = g
                      /\ ~(i = nreg /\ rpc \in {"load", "store"})}

\* The joints of group g whose online flag the monitor has counted; the flag
\* of joint mi is written before its change is counted.
OnlineCounted(g) ==
  {i \in Registered : /\ GroupOf(IdAt(i)) = g
                      /\ online[i] # (i = mi /\ mpc \in {"load", "store"})}

\* As long as none of its updates was lost between another task's load and
\* store, the counter of a group is the number of its registered joints plus
\* the number of its online joints, whatever happened to the other groups.
GroupCounts ==
  \A g \in Group \ lost :
    cnt[g] = Cardinality(Counted(g)) + Cardinality(OnlineCounted(g))

\* The motor with an id takes its current from one place of one frame: of four
\* motors that share a head, each has its own two bytes.
Place(id)  == ((id - 1) % 4) + 1
Bearer(id) == (id - 1) \div 4

\* A frame of this round had the set point of joint id where its motor looks.
Commanded(id) ==
  \E f \in sent : f.head = gCanHeadTarget(id) /\ f.slots[Place(id)] = id

\* At the end of every set_can_current the set point of every registered joint
\* has been sent, under the head and in the slot that its motor listens to,
\* whatever the monitor does to the counters meanwhile; only a lost update of
\* the very counter that decides on this frame can silence a motor.  This
\* needs a configuration without id 8, which has no slot, and with 1, 2 or 3
\* beside 4, which group 1 counts and group 0 sends.
JointsCommanded ==
  rpc = "send" /\ sj = 4 =>
    \A i \in Registered : Bearer(IdAt(i)) \in lost \/ Commanded(IdAt(i))

\* The slots of a frame carry the set points of the joints whose head_target
\* is the head of that frame ("register to different cmd packet. @see
\* gCanHeadTarget").
SlotsFollowHeads ==
  frame # NoFrame =>
    \A k \in 1..4 : gCanHeadTarget(frame.slots[k]) = frame.head

\* Unless the system halted on a duplicate id, the motor task finishes every
\* round: it leaves every spin on a full set of mailboxes.
KeepsSending == []<>(halted \/ (rpc = "send" /\ sj = 4))
=============================================================================
