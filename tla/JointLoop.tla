----------------------------- MODULE JointLoop -----------------------------
(***************************************************************************)
(* The control loop of one motor: frames of the CAN interrupt              *)
(* (jointUpdate), the window of feedback that the device_monitor task      *)
(* shifts (update_to_controller), and the controllers that the             *)
(* motor_control task runs over it (update of the three parts).            *)
(*                                                                         *)
(* get_mean_speed takes the joint by value, so the window is copied entry  *)
(* by entry while the monitor may shift it.  Speeds, errors and outputs of *)
(* the speed controller are multiples of 1 / Depth, like the mean.         *)
(***************************************************************************)
EXTENDS Pid

CONSTANTS
  Parts,      \* the joints: kind, coefficients, limits and what they are told
  Readings,   \* what a frame of the motor may say
  Depth,      \* entries of JointData::feedback
  Width,      \* bits of CtrlInfo's members
  MaxOut      \* bound on the output of the speed controller

Kinds == {"gimbal", "chassis", "bullet"}

Part == [kind : Kinds, speed : Coeff, angle : Coeff, turn : Nat,
         current_limit : Int \X Int, targets : SUBSET Int]

ASSUME LoopAssumption ==
  /\ Depth \in Nat \ {0} /\ Width \in Nat \ {0} /\ MaxOut \in Nat
  /\ Parts \subseteq Part
  /\ \A p \in Parts : p.current_limit[1] <= 0 /\ 0 <= p.current_limit[2]
  /\ Readings \subseteq [angle : Int, speed : Int]

\* An integer of Width bits holds as many negative numbers as others; a law of
\* exponents, written out because the provers know none.
ASSUME PowerAssumption ==
  2^(Width - 1) \in Nat \ {0} /\ 2^Width = 2 * 2^(Width - 1)

Entry == 0 .. Depth - 1

VARIABLES
  part,     \* the joint
  heard,    \* the last frame is at most 30 ticks old
  reading,  \* device.data.joint, the last frame
  online,   \* DeviceStatus::online
  win,      \* JointData::feedback, newest first; history: old tells what
            \* was read before the last outage, or never
  pc,       \* where motor_control is
  k,        \* the next entry get_mean_speed copies
  sum,      \* the entries copied so far
  target,   \* the command: target.angle of a gimbal joint, else target.speed
  changed,  \* mode_changed
  pid,      \* pid_calc[0], the speed controller, and pid_calc[1]
  current,  \* target.current
  owed,     \* history: what the speed controller's output holds beside its
            \* proportional and derivative part
  since,    \* history: shifts since the joint came online, up to Depth
  begun,    \* history: since when the copy began, 0 after an outage
  stale     \* history: entries copied that predate the outage

device  == <<heard, reading>>
monitor == <<online, win, since>>
copy    == <<k, sum, begun, stale>>
loop    == <<target, changed, pid, current, owed>>
vars == <<part, device, monitor, pc, copy, loop>>

Unread == [angle |-> 0, speed |-> 0, old |-> TRUE]

\* A joint registered in the first 30 ticks counts as heard, and its zeros as
\* read, because its stamp is 0.
Init ==
  /\ part \in Parts
  /\ heard \in BOOLEAN /\ reading = [Unread EXCEPT !.old = ~heard]
  /\ online = FALSE /\ win = [i \in Entry |-> Unread]
  /\ pc = "command" /\ k = 0 /\ sum = 0
  /\ target = 0 /\ changed = FALSE
  /\ pid = [i \in 0..1 |-> Cleared] /\ current = 0 /\ owed = 0
  /\ since = 0 /\ begun = 0 /\ stale = 0

-----------------------------------------------------------------------------
(* The link. *)

\* HAL_CAN_RxFifo0MsgPendingCallback and jointUpdate.
jointUpdate(r) ==
  /\ heard' = TRUE
  /\ reading' = [angle |-> r.angle, speed |-> r.speed, old |-> FALSE]
  /\ UNCHANGED <<part, monitor, pc, copy, loop>>

\* 31 ticks without a frame.
Silent ==
  /\ heard /\ heard' = FALSE
  /\ UNCHANGED <<part, reading, monitor, pc, copy, loop>>

\* Mutant: the first memmove leaves the last entry where it is.
ShiftShort ==
  [i \in Entry |-> IF i = 0 THEN reading
                   ELSE IF i = Depth - 1 THEN win[i] ELSE win[i - 1]]

\* The two memmove, between taskENTER_CRITICAL and taskEXIT_CRITICAL: the CAN
\* interrupt has a priority that the critical section masks.
Shift == [i \in Entry |-> IF i = 0 THEN reading ELSE win[i - 1]]

\* A round of update_to_controller for this joint.  A frame that overtakes the
\* subtraction of its stamp has a joint that was just heard judged offline (see
\* OfflineJustified in DeviceMonitor).
update_to_controller ==
  /\ online' \in {heard, FALSE}
  /\ win' = IF online' THEN Shift ELSE [i \in Entry |-> [win[i] EXCEPT !.old = TRUE]]
  /\ since' = IF ~online' THEN 0 ELSE IF since < Depth THEN since + 1 ELSE Depth
  /\ begun' = IF online' THEN begun ELSE 0
  /\ UNCHANGED <<part, device, pc, k, sum, stale, loop>>

-----------------------------------------------------------------------------
(* A round of motor_control. *)

\* get_command and get_mode_change.  The modes of the gimbal come from a switch
\* of their own, the chassis has one mode, the bullet's mode is its target.
Command(t) ==
  /\ pc = "command"
  /\ target' = Signed(t, Width)
  /\ changed' \in IF part.kind = "gimbal" THEN BOOLEAN
                  ELSE {part.kind = "bullet" /\ target' # target}
  /\ pc' = "check"
  /\ UNCHANGED <<part, device, monitor, copy, pid, current, owed>>

\* Mutant: the output survives a reset.
ResetSumOnly == [i \in 0..1 |-> [pid[i] EXCEPT !.i_out = 0]]

\* i_out and out of both controllers are cleared, the errors are not.
Reset == [i \in 0..1 |-> [pid[i] EXCEPT !.i_out = 0, !.out = 0]]

\* What the output owes to the present errors.
Present(p, c) == c.kp * p.e0 + c.kd * (p.e0 - p.e1)

\* The first get_online.  Only the gimbal acts upon it.
Check ==
  /\ pc = "check" /\ pc' = "act"
  /\ IF changed \/ (part.kind = "gimbal" /\ ~online)
       THEN pid' = Reset /\ owed' = -Present(pid[0], part.speed)
       ELSE UNCHANGED <<pid, owed>>
  /\ UNCHANGED <<part, device, monitor, copy, target, changed, current>>

BeginCopy ==
  /\ pc' = "copy" /\ k' = 0 /\ sum' = 0
  /\ begun' = since /\ stale' = 0

\* An offline gimbal joint gets no current.
Relax ==
  /\ pc = "act" /\ part.kind = "gimbal" /\ ~online
  /\ current' = 0 /\ pc' = "command" /\ changed' = FALSE
  /\ UNCHANGED <<part, device, monitor, copy, target, pid, owed>>

\* The angle controller of an online gimbal joint; the copy begins.
Aim ==
  /\ pc = "act" /\ part.kind = "gimbal" /\ online
  /\ pid' = [pid EXCEPT ![1] =
               pid_angle(@, part.angle, win[0].angle, target, part.turn)]
  /\ BeginCopy
  /\ UNCHANGED <<part, device, monitor, target, changed, current, owed>>

\* The other parts have no angle controller and ignore the flag.
Follow ==
  /\ pc = "act" /\ part.kind # "gimbal"
  /\ BeginCopy
  /\ UNCHANGED <<part, device, monitor, target, changed, pid, current, owed>>

\* get_mean_speed, an entry at a time.
get_mean_speed ==
  /\ pc = "copy"
  /\ sum' = sum + win[k].speed
  /\ stale' = IF win[k].old THEN stale + 1 ELSE stale
  /\ k' = k + 1
  /\ pc' = IF k' = Depth THEN "drive" ELSE "copy"
  /\ UNCHANGED <<part, device, monitor, begun, loop>>

\* Mutant: the limit is forgotten.
NarrowOnly(out) == Signed(Truncate(out, Depth), Width)

\* The output becomes an int16_t, and only then is limited, in the gimbal.
Narrow(out) ==
  LET n == Signed(Truncate(out, Depth), Width)
  IN IF part.kind = "gimbal" THEN CONSTRAIN_ARR(n, part.current_limit) ELSE n

\* target.speed: the command, or what the angle controller asks for.
Speed == IF part.kind = "gimbal" THEN Signed(pid[1].out, Width) ELSE target

\* The speed controller and update_target; the locals are gone.
Drive ==
  /\ pc = "drive"
  /\ LET p == pid_speed(pid[0], part.speed, sum, Depth * Speed)
     IN /\ pid' = [pid EXCEPT ![0] = p]
        /\ owed' = owed + p.i_out
        /\ current' = Narrow(p.out)
  /\ pc' = "command" /\ changed' = FALSE
  /\ k' = 0 /\ sum' = 0 /\ begun' = 0 /\ stale' = 0
  /\ UNCHANGED <<part, device, monitor, target>>

-----------------------------------------------------------------------------
\* The bound of the model: larger outputs are not looked at.
WithinBound == pid'[0].out \in -MaxOut..MaxOut

Link == (\E r \in Readings : jointUpdate(r)) \/ Silent \/ update_to_controller
Round == \/ \E t \in part.targets : Command(t)
         \/ Check \/ Relax \/ Aim \/ Follow \/ get_mean_speed \/ (Drive /\ WithinBound)

Next == Link \/ Round

Spec == Init /\ [][Next]_vars

-----------------------------------------------------------------------------
(* Properties *)

\* The output of a speed controller without k_limit is its proportional and
\* derivative part, plus what was integrated since the last reset, less the
\* part that belonged to the error at that reset: the increments of pid_delta
\* add up to this whatever outages, resets and torn copies lie between.
Telescopes ==
  part.speed.k_limit = 0 =>
    pid[0].out = Present(pid[0], part.speed) + owed

\* A joint that is back for n rounds of the monitor feeds get_mean_speed at
\* most Depth - n speeds from before its outage: update_to_controller flushes
\* the window, even if it shifts it during the copy.
StaleShare == stale <= Depth - begun

\* After a round the current never opposes the output of the speed controller
\* nor exceeds it, as long as the output fits the int16_t it is stored in; and
\* a gimbal joint stays within current_limit even if it does not.
NeverAgainstOutput ==
  pc = "command" =>
    LET n == Truncate(pid[0].out, Depth) IN
    /\ Fits(n, Width) => current \in (0 .. n) \union (n .. 0)
    /\ part.kind = "gimbal" => current \in part.current_limit[1] .. part.current_limit[2]
=============================================================================
