------------------------- MODULE MotorControlProofs -------------------------
(***************************************************************************)
(* What a round of motor_control guarantees, for every set of frames: the  *)
(* parts of RoundInv are preserved by every step of the task, the          *)
(* receiver's interrupt and the monitor, and imply the properties.         *)
(***************************************************************************)
EXTENDS MotorControl, TLAPS

\* RoundInv holds when the tasks start.
LEMMA RoundInit == Init => RoundInv
<1> SUFFICES ASSUME Init PROVE RoundInv
  OBVIOUS
<1>1. Zero \in Raw /\ Zero.chan = [a \in Axis |-> 0] /\ Zero.sw = [k \in 0..1 |-> 0]
  BY DEF Zero, Raw, Axis
<1>2. TypeOK
  <2>1. acc \in [Joint -> SUBSET (Mode \union {"before"})]
    BY DEF Init
  <2>2. cmd \in [Axis -> 0..2] /\ axis \in Axis /\ j \in Joint
    BY DEF Init, Axis, Joint
  <2>3. mode \in Mode /\ lastMode \in Mode
    BY DEF Init, Mode
  <2>4. /\ online \in [Joint -> BOOLEAN] /\ down \in [Joint -> BOOLEAN]
        /\ seen \in [Joint -> BOOLEAN]
    BY DEF Init
  <2> QED BY <1>1, <2>1, <2>2, <2>3, <2>4 DEF Init, TypeOK
<1>3. DownIsOffline /\ CommandsSoFar
  BY <1>1 DEF Init, DownIsOffline, CommandsSoFar, SticksInRange, Commanded, Axis, Joint
<1>4. RelaxedSoFar /\ ModeSoFar /\ OutageClears
  BY DEF Init, RelaxedSoFar, ModeSoFar, OutageClears, Acted, Checked, AfterGimbal, Joint
<1>5. BulletSoFar
  BY <1>1 DEF Init, BulletSoFar, BulletsNeedSwitch
<1> QED BY <1>2, <1>3, <1>4, <1>5 DEF RoundInv

\* The interrupt preserves RoundInv: what it stores is a frame that passed the
\* test, or zeros.
LEMMA RoundDbus == ASSUME RoundInv, NEW f \in Frames, dbusUpdate(f) PROVE RoundInv'
<1>1. rc' \in Raw /\ rc'.chan["pitch"] <= 1 /\ rc'.chan["yaw"] <= 1
  BY FrameAssumption DEF dbusUpdate, Valid, Zero, Raw, Axis
<1>2. TypeOK'
  BY <1>1 DEF RoundInv, TypeOK, dbusUpdate, gimbal
<1>3. (DownIsOffline /\ CommandsSoFar)'
  BY <1>1 DEF RoundInv, DownIsOffline, CommandsSoFar, SticksInRange, Commanded,
              dbusUpdate, gimbal
<1>4. (RelaxedSoFar /\ ModeSoFar /\ OutageClears)'
  BY DEF RoundInv, RelaxedSoFar, ModeSoFar, OutageClears, Acted, Checked,
         AfterGimbal, dbusUpdate, gimbal
<1>5. BulletSoFar'
  BY DEF RoundInv, TypeOK, BulletSoFar, BulletsNeedSwitch, dbusUpdate
<1> QED BY <1>2, <1>3, <1>4, <1>5 DEF RoundInv

\* So does a change of an online flag by the monitor.
LEMMA RoundReceiver == ASSUME RoundInv, MonReceiver PROVE RoundInv'
<1>1. TypeOK'
  BY DEF RoundInv, TypeOK, MonReceiver, gimbal
<1>2. (DownIsOffline /\ CommandsSoFar)'
  BY DEF RoundInv, DownIsOffline, CommandsSoFar, SticksInRange, MonReceiver, gimbal
<1>3. (RelaxedSoFar /\ ModeSoFar /\ OutageClears /\ BulletSoFar)'
  BY DEF RoundInv, RelaxedSoFar, ModeSoFar, OutageClears, Acted, Checked,
         AfterGimbal, BulletSoFar, BulletsNeedSwitch, MonReceiver, gimbal
<1> QED BY <1>1, <1>2, <1>3 DEF RoundInv

LEMMA RoundJoint == ASSUME RoundInv, NEW i \in Joint, MonJoint(i) PROVE RoundInv'
<1>1. TypeOK'
  BY DEF RoundInv, TypeOK, MonJoint, receiver
<1>2. (DownIsOffline /\ CommandsSoFar)'
  BY DEF RoundInv, TypeOK, DownIsOffline, CommandsSoFar, SticksInRange, Commanded,
         MonJoint, receiver
<1>3. RelaxedSoFar' /\ BulletSoFar'
  BY DEF RoundInv, TypeOK, RelaxedSoFar, Acted, AfterGimbal, BulletSoFar,
         BulletsNeedSwitch, MonJoint, receiver
<1>4. ModeSoFar' /\ OutageClears'
  BY DEF RoundInv, TypeOK, ModeSoFar, OutageClears, Checked, AfterGimbal, MonJoint
<1> QED BY <1>1, <1>2, <1>3, <1>4 DEF RoundInv

\* get_command_default: an offline receiver leaves zero in the command.
LEMMA RoundCommand == ASSUME RoundInv, Command PROVE RoundInv'
<1> USE DEF Command, CommandLink, CommandChannel, AfterCommand
<1>1. TypeOK'
  BY DEF RoundInv, TypeOK, Raw, Axis, receiver, gimbal, history
<1>2. (DownIsOffline /\ CommandsSoFar)'
  BY DEF RoundInv, TypeOK, DownIsOffline, CommandsSoFar, SticksInRange, Commanded,
         Axis, receiver, history
<1>3. (RelaxedSoFar /\ ModeSoFar /\ OutageClears /\ BulletSoFar)'
  BY DEF RoundInv, RelaxedSoFar, ModeSoFar, OutageClears, Acted, Checked,
         AfterGimbal, BulletSoFar, BulletsNeedSwitch, receiver, gimbal, history
<1> QED BY <1>1, <1>2, <1>3 DEF RoundInv

\* GimbalControl::update up to its loop.
LEMMA RoundMode == ASSUME RoundInv, GimbalMode \/ Calibrate PROVE RoundInv'
<1> USE DEF GimbalMode, Calibrate
<1>1. TypeOK'
  <2>1. changed' \in BOOLEAN /\ origin' \in [Joint -> {"on_init", "feedback"}]
    BY DEF RoundInv, TypeOK, Yaw, Joint
  <2>2. mode' \in Mode /\ lastMode' \in Mode
    BY DEF RoundInv, TypeOK, Mode
  <2>3. pc' \in {"link", "check"} /\ axis' \in Axis /\ j' \in Joint
    BY DEF RoundInv, TypeOK, Axis, Joint
  <2> QED BY <2>1, <2>2, <2>3 DEF RoundInv, TypeOK, receiver, history
<1>2. (DownIsOffline /\ CommandsSoFar)'
  BY DEF RoundInv, TypeOK, DownIsOffline, CommandsSoFar, SticksInRange, Commanded,
         Axis, receiver, history
<1>3. (RelaxedSoFar /\ OutageClears /\ BulletSoFar)'
  BY DEF RoundInv, RelaxedSoFar, OutageClears, Acted, AfterGimbal, BulletSoFar,
         BulletsNeedSwitch, Joint, receiver, history
<1>4. ModeSoFar'
  <2>1. CASE GimbalMode
    BY <2>1 DEF RoundInv, ModeSoFar, Checked, AfterGimbal
  <2>2. CASE Calibrate
    <3>1. pc' = "check" /\ lastMode' = mode /\ mode' = mode
      BY <2>2
    <3>2. ASSUME NEW i \in Joint
          PROVE  (acc[i] \subseteq {lastMode, "before"} \/ (changed /\ ~Checked(i)))'
      <4>1. acc'[i] \subseteq {lastMode, "before"}
        BY <2>2 DEF RoundInv, ModeSoFar
      <4>2. ~Checked(i)'
        BY <2>2 DEF Checked, AfterGimbal, Joint
      <4>3. mode # lastMode => changed'
        BY <2>2
      <4> QED BY <3>1, <4>1, <4>2, <4>3
    <3> QED BY <3>1, <3>2 DEF ModeSoFar
  <2> QED BY <2>1, <2>2
<1> QED BY <1>1, <1>2, <1>3, <1>4 DEF RoundInv

\* The loop over the joints: the check clears, the second check drives or
\* relaxes.
LEMMA RoundCheck == ASSUME RoundInv, Check PROVE RoundInv'
<1> USE DEF Check
<1>1. TypeOK'
  BY DEF RoundInv, TypeOK, receiver
<1>2. (DownIsOffline /\ CommandsSoFar)'
  BY DEF RoundInv, DownIsOffline, CommandsSoFar, SticksInRange, Commanded, receiver
<1>3. (RelaxedSoFar /\ BulletSoFar)'
  BY DEF RoundInv, TypeOK, Joint, RelaxedSoFar, Acted, AfterGimbal, BulletSoFar,
         BulletsNeedSwitch, receiver
<1>4. ModeSoFar' /\ OutageClears'
  BY DEF RoundInv, TypeOK, ModeSoFar, OutageClears, Checked, AfterGimbal, Joint
<1> QED BY <1>1, <1>2, <1>3, <1>4 DEF RoundInv

LEMMA RoundAct == ASSUME RoundInv, Act PROVE RoundInv'
<1> USE DEF Act, NextJoint
<1>1. TypeOK'
  <2>1. acc' \in [Joint -> SUBSET (Mode \union {"before"})]
    BY DEF RoundInv, TypeOK
  <2>2. current' \in [Joint -> {"zero", "driven"}]
    BY DEF RoundInv, TypeOK
  <2>3. pc' \in {"check", "bullet1"} /\ j' \in Joint
    BY DEF RoundInv, TypeOK, Joint
  <2>4. changed' \in BOOLEAN
    BY Zenon DEF RoundInv, TypeOK
  <2> QED BY <2>1, <2>2, <2>3, <2>4 DEF RoundInv, TypeOK, receiver, history
<1>2. (DownIsOffline /\ CommandsSoFar)'
  BY DEF RoundInv, DownIsOffline, CommandsSoFar, SticksInRange, Commanded, receiver,
         history
<1>3. RelaxedSoFar' /\ BulletSoFar'
  BY DEF RoundInv, TypeOK, DownIsOffline, Joint, RelaxedSoFar, Acted, AfterGimbal,
         BulletSoFar, BulletsNeedSwitch, receiver, history
<1>4. ModeSoFar' /\ OutageClears'
  BY DEF RoundInv, TypeOK, ModeSoFar, OutageClears, Checked, AfterGimbal, Joint, Mode,
         history
<1> QED BY <1>1, <1>2, <1>3, <1>4 DEF RoundInv

\* ExtraControl::update and the end of the round.
LEMMA RoundBullet == ASSUME RoundInv, Bullet \/ set_can_current PROVE RoundInv'
<1> USE DEF Bullet, BulletFirst, BulletSecond, set_can_current
<1>1. TypeOK'
  <2>1. (rcDown \in BOOLEAN /\ swOn \in BOOLEAN /\ renewed \in BOOLEAN)'
    <3>1. CASE Bullet
      BY <3>1 DEF RoundInv, TypeOK, history
    <3>2. CASE set_can_current
      <4>1. rcDown' = ~rcOnline
        BY <3>2
      <4>2. swOn' = (rc.sw[0] \in 1..2) /\ renewed' = FALSE
        BY <3>2
      <4>3. rcDown' \in BOOLEAN
        BY ONLY <4>1
      <4>4. swOn' \in BOOLEAN
        BY ONLY <4>2
      <4> QED BY <4>2, <4>3, <4>4
    <3> QED BY <3>1, <3>2
  <2>2. down' \in [Joint -> BOOLEAN]
    BY DEF RoundInv, TypeOK, history
  <2>3. pc' \in {"link", "bullet2", "send"} /\ bullet' \in {"on", "off"}
    BY DEF RoundInv, TypeOK
  <2> QED BY <2>1, <2>2, <2>3 DEF RoundInv, TypeOK, receiver, gimbal, history
<1>2. (DownIsOffline /\ CommandsSoFar)'
  BY DEF RoundInv, TypeOK, DownIsOffline, CommandsSoFar, SticksInRange, Commanded,
         Axis, receiver, history
<1>3. (RelaxedSoFar /\ ModeSoFar /\ OutageClears)'
  BY DEF RoundInv, RelaxedSoFar, ModeSoFar, OutageClears, Acted, Checked,
         AfterGimbal, gimbal, history
<1>4. BulletSoFar'
  BY DEF RoundInv, TypeOK, Raw, BulletSoFar, BulletsNeedSwitch, receiver, history
<1> QED BY <1>1, <1>2, <1>3, <1>4 DEF RoundInv

\* The invariant of the rounds of motor_control under every interleaving of
\* dbusUpdate and update_to_controller.
THEOREM RoundInvariant == Spec => []RoundInv
<1>1. RoundInv /\ [Next]_vars => RoundInv'
  <2> SUFFICES ASSUME RoundInv, [Next]_vars PROVE RoundInv'
    OBVIOUS
  <2>1. CASE UNCHANGED vars
    BY <2>1 DEF RoundInv, TypeOK, DownIsOffline, CommandsSoFar, RelaxedSoFar,
                ModeSoFar, OutageClears, BulletSoFar, BulletsNeedSwitch,
                SticksInRange, Commanded, Acted, Checked, AfterGimbal, vars,
                receiver, gimbal, history
  <2>2. CASE Next
    BY <2>2, RoundDbus, RoundReceiver, RoundJoint, RoundCommand, RoundMode,
       RoundCheck, RoundAct, RoundBullet DEF Next, Gimbal
  <2> QED BY <2>1, <2>2
<1> QED BY RoundInit, <1>1, PTL DEF Spec

\* A round without the receiver commands nothing.
THEOREM NeutralRounds == Spec => []NeutralWithoutReceiver
<1>1. RoundInv => NeutralWithoutReceiver
  BY DEF RoundInv, CommandsSoFar, NeutralWithoutReceiver, Commanded
<1> QED BY RoundInvariant, <1>1, PTL

\* A gimbal motor that was offline for a round gets no current.
THEOREM RelaxedRounds == Spec => []RelaxedWhenDown
<1>1. RoundInv => RelaxedWhenDown
  BY DEF RoundInv, RelaxedSoFar, RelaxedWhenDown, Acted, AfterGimbal
<1> QED BY RoundInvariant, <1>1, PTL

\* Nothing that a controller summed up before an outage is used after it, once
\* the first get_online of GimbalControl::update has seen the outage.
THEOREM OutageRounds == Spec => []OutageClears
<1>1. RoundInv => OutageClears
  BY DEF RoundInv
<1> QED BY RoundInvariant, <1>1, PTL

\* After GimbalControl::update the accumulators belong to the present mode.
THEOREM ModeRounds == Spec => []ModeClears
<1>1. RoundInv => ModeClears
  BY DEF RoundInv, ModeSoFar, ModeClears, AfterGimbal, Checked
<1> QED BY RoundInvariant, <1>1, PTL

\* The bullet motors run only when the switch says so, but for the frame
\* between the two loads of ExtraControl::update.
THEOREM BulletRounds == Spec => []BulletsNeedSwitch
<1>1. RoundInv => BulletsNeedSwitch
  BY DEF RoundInv, BulletSoFar
<1> QED BY RoundInvariant, <1>1, PTL
=============================================================================
