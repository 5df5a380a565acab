---------------------------- MODULE MotorControl ----------------------------
(***************************************************************************)
(* A round of the motor_control task (ChassisControl::update,              *)
(* GimbalControl::update, ExtraControl::update and set_can_current), while *)
(* the DBUS interrupt replaces the receiver's data (dbusUpdate) and the    *)
(* device_monitor task changes the online flags it reads.                  *)
(*                                                                         *)
(* The firmware is built with -O0, so every read of gDeviceMonitor in the  *)
(* source is a load of its own and a step of its own here.  An interrupt   *)
(* is one step.  Channels are abstracted to 0 (neutral), 1 (deflected, at  *)
(* most RC_CHANNEL_VALUE_ERROR) and 2 (beyond it); switch positions are    *)
(* the two bits of the frame.                                              *)
(***************************************************************************)
EXTENDS Integers, FiniteSets

CONSTANT Frames   \* the DBUS frames that may arrive

Axis   == {"wheel", "pitch", "yaw"}     \* channel[4], channel[3], channel[2]
Raw    == [chan : [Axis -> 0..2], sw : [0..1 -> 0..3]]
Joint  == 0..1                          \* pitch_sub_ and yaw_sub_
Pitch  == 0
Yaw    == 1
Mode   == {"test", "zero_speed"}

ASSUME FrameAssumption == Frames \subseteq Raw

VARIABLES
  rc,        \* device_dbus_.data.dbus: channels and switches
  rcOnline,  \* device_dbus_.online
  online,    \* DeviceStatus::online of the gimbal's joints
  pc,        \* where motor_control is
  axis,      \* the channel get_command_default is called for
  j,         \* the joint GimbalControl::update is at
  cmd,       \* the last command of every channel: the chassis' target.speed,
             \* the gimbal's target.angle relative to the origin
  mode,      \* GimbalControl::mode_
  lastMode,  \* get_mode_change's static mode
  changed,   \* mode_changed
  origin,    \* where angle_calibration_[.][kOriginValue] comes from
  acc,       \* what pid_calc[.].out of a joint was accumulated from: the modes,
             \* and "before" for what predates its last outage
  current,   \* target.current of a joint, "zero" or "driven"
  bullet,    \* ExtraControl::mode_
  rcDown,    \* history: the receiver was offline during the whole round
  down,      \* history: so was the joint
  seen,      \* history: its last outage was seen by the first check
  swOn,      \* history: the left switch was at 1 or 2 during the round
  renewed    \* history: a frame came between the loads of the bullet switch

receiver == <<rc, rcOnline>>
gimbal   == <<j, mode, lastMode, changed, origin, acc, current>>
history  == <<rcDown, down, seen, swOn, renewed>>
vars == <<receiver, online, pc, axis, cmd, gimbal, bullet, history>>

Zero == [chan |-> [a \in Axis |-> 0], sw |-> [s \in 0..1 |-> 0]]

Init ==
  /\ rc = Zero /\ rcOnline = FALSE
  /\ online = [i \in Joint |-> FALSE]
  /\ pc = "link" /\ axis = "wheel" /\ j = 0
  /\ cmd = [a \in Axis |-> 0]
  /\ mode = "test" /\ lastMode = "test" /\ changed = FALSE
  /\ origin = [i \in Joint |-> "on_init"]
  /\ acc = [i \in Joint |-> {}]
  /\ current = [i \in Joint |-> "zero"]
  /\ bullet = "on"
  /\ rcDown = TRUE /\ down = [i \in Joint |-> TRUE]
  /\ seen = [i \in Joint |-> FALSE]
  /\ swOn = FALSE /\ renewed = FALSE

-----------------------------------------------------------------------------
(* The receiver's interrupt and the monitor. *)

\* dbusUpdate tests four channels, of which the gimbal uses two, and the
\* switches.  The wheel is decoded later and not tested.
Valid(f) ==
  /\ f.chan["pitch"] <= 1 /\ f.chan["yaw"] <= 1
  /\ f.sw[0] # 0 /\ f.sw[1] # 0

\* dbusUpdate: a frame that fails the test leaves zeros.
dbusUpdate(f) ==
  /\ rc' = IF Valid(f) THEN f ELSE Zero
  /\ swOn' = (swOn \/ rc'.sw[0] \in 1..2)
  /\ renewed' = (renewed \/ pc = "bullet2")
  /\ UNCHANGED <<rcOnline, online, pc, axis, cmd, gimbal, bullet, rcDown, down,
                 seen>>

\* update_to_controller changes the flag of the receiver or of a joint.
MonReceiver ==
  /\ rcOnline' = ~rcOnline
  /\ rcDown' = FALSE
  /\ UNCHANGED <<rc, online, pc, axis, cmd, gimbal, bullet, down, seen, swOn,
                 renewed>>

MonJoint(i) ==
  /\ online' = [online EXCEPT ![i] = ~@]
  /\ down' = [down EXCEPT ![i] = FALSE]
  /\ seen' = [seen EXCEPT ![i] = @ /\ ~online[i]]
  /\ acc' = [acc EXCEPT ![i] = IF online[i] /\ @ # {} THEN {"before"} ELSE @]
  /\ UNCHANGED <<receiver, pc, axis, cmd, j, mode, lastMode, changed, origin,
                 current, bullet, rcDown, swOn, renewed>>

-----------------------------------------------------------------------------
(* get_command_default, called for the wheel by the chassis and for the     *)
(* sticks by the gimbal.                                                    *)

\* The wheel is the chassis' only command; the gimbal reads its mode first.
AfterCommand ==
  \/ axis = "wheel" /\ pc' = "mode" /\ axis' = "wheel"
  \/ axis = "pitch" /\ pc' = "link" /\ axis' = "yaw"
  \/ axis = "yaw" /\ pc' = "calibrate" /\ axis' = "wheel"

\* Mutant: the command does not depend on the receiver's online flag.
CommandUngated ==
  /\ pc = "link"
  /\ pc' = "channel" /\ UNCHANGED <<axis, cmd>>
  /\ UNCHANGED <<receiver, online, gimbal, bullet, history>>

CommandLink ==
  /\ pc = "link"
  /\ IF rcOnline
       THEN pc' = "channel" /\ UNCHANGED <<axis, cmd>>
       ELSE cmd' = [cmd EXCEPT ![axis] = 0] /\ AfterCommand
  /\ UNCHANGED <<receiver, online, gimbal, bullet, history>>

CommandChannel ==
  /\ pc = "channel"
  /\ cmd' = [cmd EXCEPT ![axis] = rc.chan[axis]]
  /\ AfterCommand
  /\ UNCHANGED <<receiver, online, gimbal, bullet, history>>

-----------------------------------------------------------------------------
(* GimbalControl::update *)

\* get_command: the mode comes from button[kSwitchRight], which is button[0].
GimbalMode ==
  /\ pc = "mode"
  /\ mode' = IF rc.sw[0] = 0 THEN "test" ELSE "zero_speed"
  /\ pc' = "link" /\ axis' = "pitch"
  /\ UNCHANGED <<receiver, online, cmd, j, lastMode, changed, origin, acc,
                 current, bullet, history>>

\* Mutant: a change of mode is never noticed.
CalibrateBlind ==
  /\ pc = "calibrate"
  /\ changed' = FALSE /\ lastMode' = mode
  /\ origin' = IF rc.sw[1] = 1 THEN [origin EXCEPT ![Yaw] = "feedback"] ELSE origin
  /\ pc' = "check" /\ j' = 0
  /\ UNCHANGED <<receiver, online, axis, cmd, mode, acc, current, bullet, history>>

\* get_mode_change, and the OFF position of the other switch: the code writes
\* the rows 1 and 2 of angle_calibration_, of which only row 1, the yaw's, is
\* ever used.
Calibrate ==
  /\ pc = "calibrate"
  /\ changed' = (mode # lastMode) /\ lastMode' = mode
  /\ origin' = IF rc.sw[1] = 1 THEN [origin EXCEPT ![Yaw] = "feedback"] ELSE origin
  /\ pc' = "check" /\ j' = 0
  /\ UNCHANGED <<receiver, online, axis, cmd, mode, acc, current, bullet, history>>

\* Mutant: only a change of mode clears the accumulators.
CheckModeOnly ==
  /\ pc = "check"
  /\ acc' = IF changed THEN [acc EXCEPT ![j] = {}] ELSE acc
  /\ seen' = IF online[j] THEN seen ELSE [seen EXCEPT ![j] = TRUE]
  /\ pc' = "act"
  /\ UNCHANGED <<receiver, online, axis, cmd, j, mode, lastMode, changed, origin,
                 current, bullet, rcDown, down, swOn, renewed>>

\* The first get_online of a joint.
Check ==
  /\ pc = "check"
  /\ acc' = IF ~online[j] \/ changed THEN [acc EXCEPT ![j] = {}] ELSE acc
  /\ seen' = IF online[j] THEN seen ELSE [seen EXCEPT ![j] = TRUE]
  /\ pc' = "act"
  /\ UNCHANGED <<receiver, online, axis, cmd, j, mode, lastMode, changed, origin,
                 current, bullet, rcDown, down, swOn, renewed>>

\* The next iteration of the loop; mode_changed is gone after the last one.
NextJoint ==
  IF j < 1 THEN pc' = "check" /\ j' = j + 1 /\ UNCHANGED changed
           ELSE pc' = "bullet1" /\ j' = 0 /\ changed' = FALSE

\* Mutant: the current of an offline joint stays as it was.
ActKeep ==
  /\ pc = "act"
  /\ IF online[j]
       THEN /\ acc' = [acc EXCEPT ![j] = @ \union {mode}]
            /\ current' = [current EXCEPT ![j] = "driven"]
       ELSE UNCHANGED <<acc, current>>
  /\ NextJoint
  /\ UNCHANGED <<receiver, online, axis, cmd, mode, lastMode, origin, bullet,
                 history>>

\* The second get_online, the two controllers and update_target.
Act ==
  /\ pc = "act"
  /\ IF online[j]
       THEN /\ acc' = [acc EXCEPT ![j] = @ \union {mode}]
            /\ current' = [current EXCEPT ![j] = "driven"]
       ELSE current' = [current EXCEPT ![j] = "zero"] /\ UNCHANGED acc
  /\ NextJoint
  /\ UNCHANGED <<receiver, online, axis, cmd, mode, lastMode, origin, bullet,
                 history>>

-----------------------------------------------------------------------------
(* ExtraControl::update and the end of the round. *)

\* button[0] == 3, and || goes on to the second comparison if it is not.
BulletFirst ==
  /\ pc = "bullet1"
  /\ IF rc.sw[0] = 3 THEN bullet' = "off" /\ pc' = "send"
                     ELSE pc' = "bullet2" /\ UNCHANGED bullet
  /\ renewed' = FALSE
  /\ UNCHANGED <<receiver, online, axis, cmd, gimbal, rcDown, down, seen,
                 swOn>>

\* Mutant: a cleared switch does not stop the motors.
BulletAlways ==
  /\ pc = "bullet2"
  /\ bullet' = "on"
  /\ pc' = "send"
  /\ UNCHANGED <<receiver, online, axis, cmd, gimbal, history>>

\* button[0] == 0.
BulletSecond ==
  /\ pc = "bullet2"
  /\ bullet' = IF rc.sw[0] = 0 THEN "off" ELSE "on"
  /\ pc' = "send"
  /\ UNCHANGED <<receiver, online, axis, cmd, gimbal, history>>

\* set_can_current sends what was computed; osDelay; the next round starts.
set_can_current ==
  /\ pc = "send"
  /\ pc' = "link"
  /\ rcDown' = ~rcOnline
  /\ down' = [i \in Joint |-> ~online[i]]
  /\ swOn' = (rc.sw[0] \in 1..2)
  /\ renewed' = FALSE
  /\ UNCHANGED <<receiver, online, axis, cmd, gimbal, bullet, seen>>

-----------------------------------------------------------------------------
Gimbal  == GimbalMode \/ Calibrate \/ Check \/ Act
Command == CommandLink \/ CommandChannel
Bullet  == BulletFirst \/ BulletSecond

Next ==
  \/ \E f \in Frames : dbusUpdate(f)
  \/ MonReceiver \/ \E i \in Joint : MonJoint(i)
  \/ Command \/ Gimbal \/ Bullet \/ set_can_current

Spec == Init /\ [][Next]_vars

-----------------------------------------------------------------------------
(* Properties *)

\* Every variable keeps the range its C++ type and its use give it.
TypeOK ==
  /\ rc \in Raw /\ rcOnline \in BOOLEAN
  /\ online \in [Joint -> BOOLEAN]
  /\ pc \in {"link", "channel", "mode", "calibrate", "check", "act", "bullet1",
             "bullet2", "send"}
  /\ axis \in Axis /\ j \in Joint
  /\ cmd \in [Axis -> 0..2]
  /\ mode \in Mode /\ lastMode \in Mode /\ changed \in BOOLEAN
  /\ origin \in [Joint -> {"on_init", "feedback"}]
  /\ acc \in [Joint -> SUBSET (Mode \union {"before"})]
  /\ current \in [Joint -> {"zero", "driven"}]
  /\ bullet \in {"on", "off"}
  /\ rcDown \in BOOLEAN /\ down \in [Joint -> BOOLEAN]
  /\ seen \in [Joint -> BOOLEAN]
  /\ swOn \in BOOLEAN /\ renewed \in BOOLEAN

\* After a round during which the receiver was offline, get_command_default
\* has left nothing of its data in the commands: the chassis stands and the
\* gimbal is sent to its origin, whatever frames came in the meantime.
NeutralWithoutReceiver ==
  pc = "send" /\ rcDown => \A a \in Axis : cmd[a] = 0

\* The gimbal is never sent further than kOffsetMaxValue from its origin:
\* dbusUpdate lets no stick position beyond RC_CHANNEL_VALUE_ERROR through.
\* (The chassis' wheel is not tested, and nothing bounds it.)
SticksInRange == cmd["pitch"] <= 1 /\ cmd["yaw"] <= 1

\* A gimbal motor that was offline during the whole round gets no current,
\* although update reads the flag twice.
RelaxedWhenDown ==
  pc = "send" => \A i \in Joint : down[i] => current[i] = "zero"

\* Nothing accumulated before an outage survives it once the first check of
\* update has seen the outage; only one that begins and ends between two of
\* these checks, or is seen by the second get_online alone, goes unnoticed.
OutageClears == \A i \in Joint : seen[i] => "before" \notin acc[i]

\* After update the accumulators of both joints come from the present mode
\* alone: a switch of modes does not carry one controller's sum into the other.
ModeClears ==
  pc \in {"bullet1", "bullet2", "send"} =>
    \A i \in Joint : acc[i] \subseteq {mode, "before"}

\* The bullet motors run only if the switch was in an on position during the
\* round.  The exception: the two comparisons of update load the switch twice,
\* and a frame between them may turn a cleared switch (0) into "off" (3), which
\* neither comparison sees.
BulletsNeedSwitch == pc = "send" /\ bullet = "on" => swOn \/ renewed

-----------------------------------------------------------------------------
(* The inductive invariant. *)

AfterGimbal == pc \in {"bullet1", "bullet2", "send"}

\* The channels this round's get_command_default has been called for.
Commanded(a) ==
  \/ pc \in {"calibrate", "check", "act", "bullet1", "bullet2", "send"}
  \/ a = "wheel" /\ (pc = "mode" \/ axis # "wheel")
  \/ a = "pitch" /\ axis = "yaw"

\* The joints GimbalControl::update has checked, and has finished, this round.
Checked(i) == AfterGimbal \/ (pc \in {"check", "act"} /\ i < j) \/ (pc = "act" /\ i = j)
Acted(i)   == AfterGimbal \/ (pc \in {"check", "act"} /\ i < j)

DownIsOffline ==
  /\ rcDown => ~rcOnline
  /\ \A i \in Joint : down[i] => ~online[i]

CommandsSoFar ==
  /\ rc.chan["pitch"] <= 1 /\ rc.chan["yaw"] <= 1 /\ SticksInRange
  /\ axis # "wheel" => pc \in {"link", "channel"}
  /\ rcDown => pc # "channel" /\ \A a \in Axis : Commanded(a) => cmd[a] = 0

RelaxedSoFar == \A i \in Joint : down[i] /\ Acted(i) => current[i] = "zero"

ModeSoFar ==
  /\ pc \in {"check", "act"} \/ AfterGimbal => lastMode = mode
  /\ \A i \in Joint :
       \/ acc[i] \subseteq {lastMode, "before"}
       \/ changed /\ pc \in {"check", "act"} /\ ~Checked(i)

BulletSoFar ==
  /\ rc.sw[0] \in 1..2 => swOn
  /\ pc = "bullet2" /\ ~renewed => rc.sw[0] # 3
  /\ BulletsNeedSwitch

\* What the steps of a round keep true while the interrupt and the monitor
\* change the data under it; the properties of the finished round follow.
RoundInv ==
  /\ TypeOK /\ DownIsOffline /\ CommandsSoFar /\ RelaxedSoFar /\ ModeSoFar
  /\ OutageClears /\ BulletSoFar
=============================================================================
