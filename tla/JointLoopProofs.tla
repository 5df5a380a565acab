-------------------------- MODULE JointLoopProofs --------------------------
(***************************************************************************)
(* Proofs about the control loop of one motor, for joints with any         *)
(* coefficients and limits, windows of any depth and integers of any       *)
(* width.                                                                  *)
(***************************************************************************)
EXTENDS JointLoop, TLAPS

Frame == [angle : Int, speed : Int, old : BOOLEAN]

-----------------------------------------------------------------------------
(* The invariant. *)

\* The loop computes on numbers, and get_mean_speed stays within the window.
NumbersOK ==
  /\ part \in Parts
  /\ pc \in {"command", "check", "act", "copy", "drive"}
  /\ reading \in Frame /\ win \in [Entry -> Frame]
  /\ k \in 0..Depth /\ (pc = "copy" => k < Depth)
  /\ sum \in Int /\ target \in Int /\ current \in Int /\ owed \in Int
  /\ pid \in [0..1 -> Info]

\* After n rounds of the monitor with a joint that is back, the first n entries
\* of the window were read after its outage; what is heard now is.
WindowInv ==
  /\ heard => ~reading.old
  /\ since \in 0..Depth
  /\ \A i \in Entry : i < since => ~win[i].old

\* The k entries that get_mean_speed has copied hold no more old speeds than
\* those beyond the entries that were flushed when the copy began; later rounds
\* of the monitor flush more, and an outage forgets when it began.
CopyInv ==
  /\ begun \in 0..since /\ stale \in 0..k
  /\ stale > 0 => stale <= k - begun

LoopInv == NumbersOK /\ WindowInv /\ CopyInv /\ Telescopes /\ NeverAgainstOutput

-----------------------------------------------------------------------------
(* The arithmetic of pid.hpp. *)

\* A limited number is a number.
LEMMA ConstrainNumber ==
  ASSUME NEW v \in Int, NEW l \in Nat
  PROVE  /\ constrain_abs_no_zero(v, l) \in Int
         /\ l = 0 => constrain_abs_no_zero(v, l) = v
BY DEF constrain_abs_no_zero

\* A speed controller turns numbers into numbers; it shifts its errors and adds
\* to its output the increment of pid_delta.
LEMMA PidSpeed ==
  ASSUME NEW p \in Info, NEW c \in Coeff, NEW get \in Int, NEW set \in Int
  PROVE  LET q == pid_speed(p, c, get, set) IN
         /\ q \in Info
         /\ q.e0 = set - get /\ q.e1 = p.e0
         /\ c.k_limit = 0 =>
              q.out = p.out + (c.kp * (q.e0 - p.e0) + q.i_out
                                 + c.kd * (q.e0 - 2 * p.e0 + p.e1))
<1> DEFINE r == [p EXCEPT !.e0 = set - get, !.e1 = p.e0, !.e2 = p.e1]
           i == Integral(r.e0, c)
           step == c.kp * (r.e0 - r.e1) + i + c.kd * (r.e0 - 2 * r.e1 + r.e2)
           q == pid_speed(p, c, get, set)
<1>1. /\ r \in Info /\ r.e0 = set - get /\ r.e1 = p.e0 /\ r.e2 = p.e1
      /\ r.out = p.out
  <2> DEFINE a == [p EXCEPT !.e0 = set - get]
             b == [a EXCEPT !.e1 = p.e0]
  <2>1. a \in Info /\ a.e0 = set - get /\ a.out = p.out
    BY DEF Info
  <2>2. r = [b EXCEPT !.e2 = p.e1]
    OBVIOUS
  <2> HIDE DEF a, r
  <2>3. b \in Info /\ b.e0 = set - get /\ b.e1 = p.e0 /\ b.out = p.out
    BY <2>1 DEF Info
  <2> HIDE DEF b
  <2> QED BY <2>2, <2>3 DEF Info
<1>2. c.kp \in Int /\ c.ki \in Int /\ c.kd \in Int /\ c.ki_limit \in Nat /\ c.k_limit \in Nat
  BY DEF Coeff
<1>3. i \in Int
  <2>1. c.ki * r.e0 \in Int
    BY <1>1, <1>2 DEF Info
  <2> QED BY <1>2, <2>1, ConstrainNumber DEF Integral
<1>4. p.out + step \in Int
  <2>1. /\ r.e0 - r.e1 \in Int /\ r.e0 - 2 * r.e1 + r.e2 \in Int
        /\ p.out \in Int
    BY <1>1 DEF Info
  <2> HIDE DEF r, i
  <2>2. c.kp * (r.e0 - r.e1) \in Int /\ c.kd * (r.e0 - 2 * r.e1 + r.e2) \in Int
    BY <1>2, <2>1
  <2> QED BY <1>3, <2>1, <2>2
<1>5. q = [r EXCEPT !.i_out = i, !.out = constrain_abs_no_zero(r.out + step, c.k_limit)]
  BY DEF pid_speed, pid_delta
<1> HIDE DEF r, i, q, step
<1>6. /\ constrain_abs_no_zero(r.out + step, c.k_limit) \in Int
      /\ c.k_limit = 0 => constrain_abs_no_zero(r.out + step, c.k_limit) = p.out + step
  BY <1>1, <1>2, <1>4, ConstrainNumber
<1>7. /\ q \in Info /\ q.e0 = r.e0 /\ q.e1 = r.e1 /\ q.i_out = i
      /\ q.out = constrain_abs_no_zero(r.out + step, c.k_limit)
  BY <1>1, <1>3, <1>5, <1>6 DEF Info
<1>8. step = c.kp * (q.e0 - p.e0) + q.i_out + c.kd * (q.e0 - 2 * p.e0 + p.e1)
  BY <1>1, <1>7 DEF step
<1> QED BY <1>1, <1>6, <1>7, <1>8 DEF q

\* An angle controller turns numbers into numbers.
LEMMA PidAngle ==
  ASSUME NEW p \in Info, NEW c \in Coeff, NEW get \in Int, NEW set \in Int,
         NEW limit \in Nat
  PROVE  pid_angle(p, c, get, set, limit) \in Info
<1> DEFINE e == format_angle_delta(set - get, limit)
           r == [p EXCEPT !.e0 = e, !.e1 = p.e0]
           s == constrain_abs_no_zero(r.i_out + c.ki * r.e0, c.ki_limit)
           o == c.kp * r.e0 + s + c.kd * (r.e0 - r.e1)
<1>1. e \in Int
  BY DEF format_angle_delta
<1> HIDE DEF e
<1>2. r \in Info
  BY <1>1 DEF Info
<1> HIDE DEF r
<1>3. c.kp \in Int /\ c.ki \in Int /\ c.kd \in Int /\ c.ki_limit \in Nat /\ c.k_limit \in Nat
  BY DEF Coeff
<1>4. s \in Int
  <2>1. r.i_out + c.ki * r.e0 \in Int
    BY <1>2, <1>3 DEF Info
  <2> QED BY <1>3, <2>1, ConstrainNumber
<1> HIDE DEF s
<1>5. o \in Int
  BY <1>2, <1>3, <1>4 DEF Info
<1> HIDE DEF o
<1>6. constrain_abs_no_zero(o, c.k_limit) \in Int
  BY <1>3, <1>5, ConstrainNumber
<1>7. pid_angle(p, c, get, set, limit)
        = [r EXCEPT !.i_out = s, !.out = constrain_abs_no_zero(o, c.k_limit)]
  BY DEF pid_angle, pid_target, e, r, s, o
<1> QED BY <1>2, <1>4, <1>6, <1>7 DEF Info

\* The increments of pid_delta telescope: what the proportional and derivative
\* part of the next error adds is what the next output has more.
LEMMA Telescope ==
  ASSUME NEW kp \in Int, NEW kd \in Int, NEW e0 \in Int, NEW e1 \in Int,
         NEW e \in Int, NEW i \in Int, NEW rest \in Int
  PROVE  kp * e0 + kd * (e0 - e1) + rest
           + (kp * (e - e0) + i + kd * (e - 2 * e0 + e1))
         = kp * e + kd * (e - e0) + (rest + i)
OBVIOUS

\* A number divided by Depth and rounded towards zero is a number.
LEMMA TruncateNumber ==
  ASSUME NEW n \in Int PROVE Truncate(n, Depth) \in Int
BY LoopAssumption DEF Truncate

\* A number stored in an integer of Width bits is a number, itself if it fits.
LEMMA StoreNumber ==
  ASSUME NEW n \in Int
  PROVE  Signed(n, Width) \in Int /\ (Fits(n, Width) => Signed(n, Width) = n)
<1>1. \A h \in Nat \ {0} : \A m \in Int :
        /\ ((m + h) % (2 * h)) - h \in Int
        /\ m \in -h..(h - 1) => ((m + h) % (2 * h)) - h = m
  OBVIOUS
<1> QED BY <1>1, PowerAssumption DEF Signed, Fits

\* The current that update_target gets: a number, within the limits of a gimbal
\* joint, and between zero and the output if that fits.
LEMMA NarrowNumber ==
  ASSUME NEW out \in Int, part \in Parts
  PROVE  LET n == Truncate(out, Depth) IN
         /\ Narrow(out) \in Int
         /\ Fits(n, Width) => Narrow(out) \in (0 .. n) \union (n .. 0)
         /\ part.kind = "gimbal" =>
              Narrow(out) \in part.current_limit[1] .. part.current_limit[2]
<1> DEFINE n == Truncate(out, Depth)
           m == Signed(n, Width)
           low == part.current_limit[1]
           high == part.current_limit[2]
<1>1. n \in Int
  BY TruncateNumber
<1>2. m \in Int /\ (Fits(n, Width) => m = n)
  BY <1>1, StoreNumber
<1>3. low \in Int /\ high \in Int /\ low <= 0 /\ 0 <= high
  BY LoopAssumption DEF Part
<1>4. Narrow(out) = IF part.kind = "gimbal"
                      THEN IF m >= high THEN high ELSE IF m < low THEN low ELSE m
                      ELSE m
  BY DEF Narrow, CONSTRAIN_ARR
<1> HIDE DEF n, m, low, high
<1>5. Narrow(out) \in Int /\ (part.kind = "gimbal" => Narrow(out) \in low .. high)
  BY <1>2, <1>3, <1>4
<1>6. Fits(n, Width) => Narrow(out) \in (0 .. n) \union (n .. 0)
  BY <1>1, <1>2, <1>3, <1>4
<1> QED BY <1>5, <1>6 DEF n, low, high

\* What the properties of a joint are.
LEMMA PartNumbers ==
  ASSUME part \in Parts
  PROVE  /\ part.speed \in Coeff /\ part.angle \in Coeff /\ part.turn \in Nat
         /\ part.targets \subseteq Int
         /\ part.speed.kp \in Int /\ part.speed.kd \in Int
BY LoopAssumption DEF Part, Coeff

-----------------------------------------------------------------------------
(* The steps. *)

\* A joint starts with cleared controllers and a window of zeros.
LEMMA LoopInit == Init => LoopInv
<1> SUFFICES ASSUME Init PROVE LoopInv
  OBVIOUS
<1> USE LoopAssumption
<1>1. reading \in Frame /\ (heard => ~reading.old)
  <2>1. CASE heard
    <3>1. reading = [angle |-> 0, speed |-> 0, old |-> FALSE]
      BY <2>1 DEF Init, Unread
    <3> QED BY <3>1 DEF Frame
  <2>2. CASE ~heard
    <3>1. reading = [angle |-> 0, speed |-> 0, old |-> TRUE]
      BY <2>2 DEF Init, Unread
    <3> QED BY <2>2, <3>1 DEF Frame
  <2> QED BY <2>1, <2>2
<1>2. win \in [Entry -> Frame]
  BY DEF Init, Unread, Frame
<1>3. pid \in [0..1 -> Info] /\ pid[0] = Cleared
  BY DEF Init, Cleared, Info
<1>4. NumbersOK /\ CopyInv
  BY <1>1, <1>2, <1>3 DEF Init, NumbersOK, CopyInv
<1>5. WindowInv
  BY <1>1 DEF Init, WindowInv, Entry
<1>6. Telescopes
  BY <1>3, PartNumbers DEF Init, Cleared, Telescopes, Present
<1>7. NeverAgainstOutput
  <2>1. Truncate(pid[0].out, Depth) = 0
    BY <1>3 DEF Truncate, Cleared
  <2>2. part.current_limit[1] <= 0 /\ 0 <= part.current_limit[2]
        /\ part.current_limit[1] \in Int /\ part.current_limit[2] \in Int
    BY DEF Init, Part
  <2> QED BY <2>1, <2>2 DEF Init, NeverAgainstOutput
<1> QED BY <1>4, <1>5, <1>6, <1>7 DEF LoopInv

\* A step that leaves the controllers alone keeps what is said of them, unless a
\* round ends.
LEMMA ControllersKept ==
  ASSUME LoopInv, UNCHANGED <<part, pid, owed, current>>, pc' = "command" => pc = "command"
  PROVE  (Telescopes /\ NeverAgainstOutput)'
BY DEF LoopInv, Telescopes, NeverAgainstOutput, Present, Narrow

\* A frame is new; silence makes nothing old until the monitor sees it.
LEMMA LoopFrame ==
  LoopInv /\ ((\E r \in Readings : jointUpdate(r)) \/ Silent) => LoopInv'
<1> SUFFICES ASSUME LoopInv, (\E r \in Readings : jointUpdate(r)) \/ Silent
             PROVE  LoopInv'
  OBVIOUS
<1>1. reading' \in Frame /\ (heard' => ~reading'.old)
  <2>1. CASE Silent
    BY <2>1 DEF LoopInv, NumbersOK, Silent
  <2>2. ASSUME NEW r \in Readings, jointUpdate(r)
        PROVE  reading' \in Frame /\ ~reading'.old
    <3>1. r.angle \in Int /\ r.speed \in Int
      BY LoopAssumption
    <3>2. reading' = [angle |-> r.angle, speed |-> r.speed, old |-> FALSE]
      BY <2>2 DEF jointUpdate
    <3> QED BY <3>1, <3>2 DEF Frame
  <2> QED BY <2>1, <2>2
<1>2. UNCHANGED <<part, online, win, since, pc, k, sum, begun, stale,
                  target, changed, pid, current, owed>>
  BY DEF jointUpdate, Silent, monitor, copy, loop
<1>3. NumbersOK' /\ WindowInv' /\ CopyInv'
  BY <1>1, <1>2 DEF LoopInv, NumbersOK, WindowInv, CopyInv
<1> QED BY <1>2, <1>3, ControllersKept DEF LoopInv

\* update_to_controller shifts what it heard into the window, and starts anew
\* when it judges the joint offline.
LEMMA LoopMonitor == LoopInv /\ update_to_controller => LoopInv'
<1> SUFFICES ASSUME LoopInv, update_to_controller PROVE LoopInv'
  OBVIOUS
<1>1. UNCHANGED <<part, heard, reading, pc, k, sum, stale,
                  target, changed, pid, current, owed>>
  BY DEF update_to_controller, device, loop
<1>2. win' \in [Entry -> Frame] /\ since' \in 0..Depth
      /\ \A i \in Entry : i < since' => ~win'[i].old
  <2>1. CASE online'
    <3>1. /\ win' = [i \in Entry |-> IF i = 0 THEN reading ELSE win[i - 1]]
          /\ since' = IF since < Depth THEN since + 1 ELSE Depth
      BY <2>1 DEF update_to_controller, Shift
    <3>2. reading \in Frame /\ ~reading.old /\ win \in [Entry -> Frame]
      BY <2>1 DEF update_to_controller, LoopInv, NumbersOK, WindowInv
    <3>3. \A i \in Entry : i # 0 => i - 1 \in Entry
      BY LoopAssumption DEF Entry
    <3>4. win' \in [Entry -> Frame]
      BY <3>1, <3>2, <3>3
    <3>5. since' \in 0..Depth /\ since' <= since + 1
      BY <3>1, LoopAssumption DEF LoopInv, WindowInv
    <3>6. ASSUME NEW i \in Entry, i < since' PROVE ~win'[i].old
      <4>1. CASE i = 0
        BY <3>1, <3>2, <4>1
      <4>2. CASE i # 0
        <5>1. i - 1 \in Entry /\ i - 1 < since
          BY <3>3, <3>5, <3>6, <4>2, LoopAssumption DEF LoopInv, WindowInv, Entry
        <5> QED BY <3>1, <4>2, <5>1 DEF LoopInv, WindowInv
      <4> QED BY <4>1, <4>2
    <3> QED BY <3>4, <3>5, <3>6
  <2>2. CASE ~online'
    <3>1. win' = [i \in Entry |-> [win[i] EXCEPT !.old = TRUE]] /\ since' = 0
      BY <2>2 DEF update_to_controller
    <3>2. ASSUME NEW i \in Entry PROVE [win[i] EXCEPT !.old = TRUE] \in Frame
      BY DEF LoopInv, NumbersOK, Frame
    <3>3. win' \in [Entry -> Frame]
      BY <3>1, <3>2
    <3>4. \A i \in Entry : ~(i < since')
      BY <3>1, LoopAssumption DEF Entry
    <3>5. since' \in 0..Depth
      BY <3>1, LoopAssumption
    <3> QED BY <3>3, <3>4, <3>5
  <2> QED BY <2>1, <2>2
<1>3. NumbersOK' /\ WindowInv'
  BY <1>1, <1>2 DEF LoopInv, NumbersOK, WindowInv
<1>4. CopyInv'
  <2>1. CASE online'
    BY <1>1, <2>1, LoopAssumption
       DEF update_to_controller, LoopInv, NumbersOK, WindowInv, CopyInv
  <2>2. CASE ~online'
    BY <1>1, <2>2, LoopAssumption
       DEF update_to_controller, LoopInv, NumbersOK, WindowInv, CopyInv
  <2> QED BY <2>1, <2>2
<1> QED BY <1>1, <1>3, <1>4, ControllersKept DEF LoopInv

\* A command.
LEMMA LoopCommand == LoopInv /\ (\E t \in part.targets : Command(t)) => LoopInv'
<1> SUFFICES ASSUME LoopInv, NEW t \in part.targets, Command(t) PROVE LoopInv'
  OBVIOUS
<1>1. UNCHANGED <<part, heard, reading, online, win, since, k, sum, begun, stale,
                  pid, current, owed>> /\ pc' = "check"
  BY DEF Command, device, monitor, copy
<1>2. target' \in Int
  BY StoreNumber, PartNumbers DEF Command, LoopInv, NumbersOK
<1>3. NumbersOK' /\ WindowInv' /\ CopyInv'
  BY <1>1, <1>2 DEF LoopInv, NumbersOK, WindowInv, CopyInv
<1> QED BY <1>1, <1>3, ControllersKept DEF LoopInv

\* A reset keeps the errors: the output is zero, and owes what they are worth.
LEMMA LoopCheck == LoopInv /\ Check => LoopInv'
<1> SUFFICES ASSUME LoopInv, Check PROVE LoopInv'
  OBVIOUS
<1>1. UNCHANGED <<part, heard, reading, online, win, since, k, sum, begun, stale,
                  target, current>> /\ pc' = "act"
  BY DEF Check, device, monitor, copy
<1>2. pid[0] \in Info /\ pid[1] \in Info
  BY DEF LoopInv, NumbersOK
<1>3. Present(pid[0], part.speed) \in Int
  <2>1. part.speed.kp \in Int /\ part.speed.kd \in Int
    BY PartNumbers DEF LoopInv, NumbersOK
  <2> QED BY <1>2, <2>1 DEF Present, Info
<1>4. pid' \in [0..1 -> Info] /\ owed' \in Int /\ Telescopes'
  <2>1. CASE UNCHANGED <<pid, owed>>
    BY <1>1, <2>1 DEF LoopInv, NumbersOK, Telescopes, Present
  <2>2. CASE pid' = Reset /\ owed' = -Present(pid[0], part.speed)
    <3>1. ASSUME NEW i \in 0..1
          PROVE  [pid[i] EXCEPT !.i_out = 0, !.out = 0] \in Info
      <4>1. pid[i] \in Info
        BY DEF LoopInv, NumbersOK
      <4>2. [pid[i] EXCEPT !.i_out = 0] \in Info
        BY <4>1 DEF Info
      <4>3. [pid[i] EXCEPT !.i_out = 0, !.out = 0]
              = [[pid[i] EXCEPT !.i_out = 0] EXCEPT !.out = 0]
        OBVIOUS
      <4> QED BY <4>2, <4>3 DEF Info
    <3>2. pid' \in [0..1 -> Info]
      BY <2>2, <3>1 DEF Reset
    <3>3. pid'[0] = [pid[0] EXCEPT !.i_out = 0, !.out = 0]
      BY <2>2 DEF Reset
    <3>4. pid'[0].e0 = pid[0].e0 /\ pid'[0].e1 = pid[0].e1 /\ pid'[0].out = 0
      BY <1>2, <3>3 DEF Info
    <3>5. Present(pid'[0], part.speed) = Present(pid[0], part.speed)
      BY <3>4 DEF Present
    <3> QED BY <1>1, <1>3, <2>2, <3>2, <3>4, <3>5 DEF Telescopes
  <2> QED BY <2>1, <2>2 DEF Check
<1>5. NumbersOK' /\ WindowInv' /\ CopyInv' /\ NeverAgainstOutput'
  BY <1>1, <1>4 DEF LoopInv, NumbersOK, WindowInv, CopyInv, NeverAgainstOutput
<1> QED BY <1>4, <1>5 DEF LoopInv

\* A joint without current is within its limits.
LEMMA LoopRelax == LoopInv /\ Relax => LoopInv'
<1> SUFFICES ASSUME LoopInv, Relax PROVE LoopInv'
  OBVIOUS
<1>1. UNCHANGED <<part, heard, reading, online, win, since, k, sum, begun, stale,
                  target, pid, owed>> /\ pc' = "command" /\ current' = 0
  BY DEF Relax, device, monitor, copy
<1>2. NumbersOK' /\ WindowInv' /\ CopyInv' /\ Telescopes'
  BY <1>1 DEF LoopInv, NumbersOK, WindowInv, CopyInv, Telescopes, Present
<1>3. NeverAgainstOutput'
  <2>1. Truncate(pid[0].out, Depth) \in Int
    BY TruncateNumber DEF LoopInv, NumbersOK, Info
  <2>2. /\ part.current_limit[1] <= 0 /\ 0 <= part.current_limit[2]
        /\ part.current_limit[1] \in Int /\ part.current_limit[2] \in Int
    BY LoopAssumption DEF LoopInv, NumbersOK, Part
  <2>3. 0 \in (0 .. Truncate(pid[0].out, Depth)) \union (Truncate(pid[0].out, Depth) .. 0)
    BY <2>1
  <2> QED BY <1>1, <2>2, <2>3 DEF NeverAgainstOutput
<1> QED BY <1>2, <1>3 DEF LoopInv

\* A copy begins; the angle controller has no part in the output of the other.
LEMMA LoopBegin == LoopInv /\ (Aim \/ Follow) => LoopInv'
<1> SUFFICES ASSUME LoopInv, Aim \/ Follow PROVE LoopInv'
  OBVIOUS
<1>1. /\ UNCHANGED <<part, heard, reading, online, win, since, target, current, owed>>
      /\ pc' = "copy" /\ k' = 0 /\ sum' = 0 /\ begun' = since /\ stale' = 0
  BY DEF Aim, Follow, BeginCopy, device, monitor
<1>2. pid' \in [0..1 -> Info] /\ pid'[0] = pid[0]
  <2>1. CASE Follow
    BY <2>1 DEF Follow, LoopInv, NumbersOK
  <2>2. CASE Aim
    <3> DEFINE q == pid_angle(pid[1], part.angle, win[0].angle, target, part.turn)
    <3>1. /\ pid[1] \in Info /\ part.angle \in Coeff /\ target \in Int
          /\ part.turn \in Nat /\ win[0].angle \in Int
      BY PartNumbers, LoopAssumption DEF LoopInv, NumbersOK, Frame, Entry
    <3>2. q \in Info
      BY <3>1, PidAngle
    <3>3. pid' = [pid EXCEPT ![1] = q]
      BY <2>2 DEF Aim
    <3> HIDE DEF q
    <3> QED BY <3>2, <3>3 DEF LoopInv, NumbersOK
  <2> QED BY <2>1, <2>2
<1>3. NumbersOK' /\ WindowInv' /\ CopyInv'
  BY <1>1, <1>2, LoopAssumption DEF LoopInv, NumbersOK, WindowInv, CopyInv
<1>4. Telescopes' /\ NeverAgainstOutput'
  BY <1>1, <1>2 DEF LoopInv, Telescopes, Present, NeverAgainstOutput
<1> QED BY <1>3, <1>4 DEF LoopInv

\* get_mean_speed copies one more entry: an old one lies beyond the entries that
\* were flushed when the copy began.
LEMMA LoopCopy == LoopInv /\ get_mean_speed => LoopInv'
<1> SUFFICES ASSUME LoopInv, get_mean_speed PROVE LoopInv'
  OBVIOUS
<1>1. /\ UNCHANGED <<part, heard, reading, online, win, since, begun,
                     target, pid, current, owed>>
      /\ pc = "copy" /\ k' = k + 1 /\ sum' = sum + win[k].speed
      /\ stale' = IF win[k].old THEN stale + 1 ELSE stale
      /\ pc' = IF k' = Depth THEN "drive" ELSE "copy"
  BY DEF get_mean_speed, device, monitor, loop
<1>2. k \in Entry /\ k \in 0..Depth /\ k < Depth
  BY <1>1, LoopAssumption DEF LoopInv, NumbersOK, Entry
<1>3. win[k] \in Frame /\ sum' \in Int
  BY <1>1, <1>2 DEF LoopInv, NumbersOK, Frame
<1>4. NumbersOK' /\ WindowInv'
  BY <1>1, <1>2, <1>3, LoopAssumption DEF LoopInv, NumbersOK, WindowInv
<1>5. win[k].old => k >= begun
  BY <1>2 DEF LoopInv, WindowInv, CopyInv
<1>6. CopyInv'
  <2>1. CASE win[k].old
    BY <1>1, <1>2, <1>5, <2>1 DEF LoopInv, CopyInv, WindowInv
  <2>2. CASE ~win[k].old
    BY <1>1, <1>2, <2>2 DEF LoopInv, CopyInv, WindowInv
  <2> QED BY <2>1, <2>2
<1> QED BY <1>1, <1>4, <1>6, ControllersKept DEF LoopInv

\* The speed controller and update_target.
LEMMA LoopDrive == LoopInv /\ Drive => LoopInv'
<1> SUFFICES ASSUME LoopInv, Drive PROVE LoopInv'
  OBVIOUS
<1> DEFINE c == part.speed
           q == pid_speed(pid[0], c, sum, Depth * Speed)
<1>1. /\ UNCHANGED <<part, heard, reading, online, win, since, target>>
      /\ pc' = "command" /\ k' = 0 /\ sum' = 0 /\ begun' = 0 /\ stale' = 0
      /\ pid' = [pid EXCEPT ![0] = q] /\ owed' = owed + q.i_out
      /\ current' = Narrow(q.out)
  BY DEF Drive, device, monitor
<1>2. /\ c \in Coeff /\ c.kp \in Int /\ c.kd \in Int /\ pid[0] \in Info /\ pid[1] \in Info
      /\ sum \in Int /\ part \in Parts
  BY PartNumbers DEF LoopInv, NumbersOK
<1>3. Depth * Speed \in Int
  <2>1. Speed \in Int
    BY <1>2, StoreNumber DEF Speed, LoopInv, NumbersOK, Info
  <2> QED BY <2>1, LoopAssumption
<1>4. /\ q \in Info /\ q.e1 = pid[0].e0
      /\ c.k_limit = 0 =>
           q.out = pid[0].out + (c.kp * (q.e0 - pid[0].e0) + q.i_out
                                   + c.kd * (q.e0 - 2 * pid[0].e0 + pid[0].e1))
  BY <1>2, <1>3, PidSpeed
<1> HIDE DEF q, c
<1>5. pid' \in [0..1 -> Info] /\ pid'[0] = q
  BY <1>1, <1>4 DEF LoopInv, NumbersOK
<1>6. current' \in Int /\ NeverAgainstOutput'
  <2>1. q.out \in Int
    BY <1>4 DEF Info
  <2> QED BY <1>1, <1>2, <1>5, <2>1, NarrowNumber DEF NeverAgainstOutput
<1>7. NumbersOK' /\ WindowInv' /\ CopyInv'
  BY <1>1, <1>4, <1>5, <1>6, LoopAssumption
     DEF LoopInv, NumbersOK, WindowInv, CopyInv, Info
<1>8. Telescopes'
  <2> SUFFICES ASSUME c.k_limit = 0
               PROVE  q.out = Present(q, c) + (owed + q.i_out)
    BY <1>1, <1>5 DEF Telescopes, c
  <2>1. pid[0].out = c.kp * pid[0].e0 + c.kd * (pid[0].e0 - pid[0].e1) + owed
    BY DEF LoopInv, Telescopes, Present, c
  <2>2. /\ pid[0].e0 \in Int /\ pid[0].e1 \in Int /\ q.e0 \in Int /\ q.i_out \in Int
        /\ owed \in Int
    BY <1>2, <1>4 DEF Info, LoopInv, NumbersOK
  <2>3. c.kp * pid[0].e0 + c.kd * (pid[0].e0 - pid[0].e1) + owed
          + (c.kp * (q.e0 - pid[0].e0) + q.i_out
               + c.kd * (q.e0 - 2 * pid[0].e0 + pid[0].e1))
        = c.kp * q.e0 + c.kd * (q.e0 - pid[0].e0) + (owed + q.i_out)
    BY <1>2, <2>2, Telescope
  <2> QED BY <1>4, <2>1, <2>3 DEF Present
<1> QED BY <1>6, <1>7, <1>8 DEF LoopInv

-----------------------------------------------------------------------------
(* The theorems. *)

\* The invariant of the loop under every interleaving of the CAN interrupt, the
\* device_monitor task and the motor_control task.
THEOREM LoopInvariant == Spec => []LoopInv
<1>1. LoopInv /\ [Next]_vars => LoopInv'
  <2> SUFFICES ASSUME LoopInv, [Next]_vars PROVE LoopInv'
    OBVIOUS
  <2>1. CASE UNCHANGED vars
    <3>1. UNCHANGED <<part, heard, reading, online, win, since, pc, k, sum, begun,
                      stale, target, changed, pid, current, owed>>
      BY <2>1 DEF vars, device, monitor, copy, loop
    <3>2. NumbersOK' /\ WindowInv' /\ CopyInv'
      BY <3>1 DEF LoopInv, NumbersOK, WindowInv, CopyInv
    <3> QED BY <3>1, <3>2, ControllersKept DEF LoopInv
  <2>2. CASE Next
    BY <2>2, LoopFrame, LoopMonitor, LoopCommand, LoopCheck, LoopRelax, LoopBegin,
       LoopCopy, LoopDrive DEF Next, Link, Round
  <2> QED BY <2>1, <2>2
<1> QED BY LoopInit, <1>1, PTL DEF Spec

\* The increments of pid_delta add up to the proportional and derivative part of
\* the present errors and what was integrated since the last reset.
THEOREM OutputTelescopes == Spec => []Telescopes
<1>1. LoopInv => Telescopes
  BY DEF LoopInv
<1> QED BY LoopInvariant, <1>1, PTL

\* A joint that is back for n rounds of the monitor feeds get_mean_speed at most
\* Depth - n speeds from before its outage.
THEOREM StaleSpeedsBounded == Spec => []StaleShare
<1>1. LoopInv => StaleShare
  BY LoopAssumption DEF LoopInv, NumbersOK, WindowInv, CopyInv, StaleShare
<1> QED BY LoopInvariant, <1>1, PTL

\* The current that update_target stores never opposes the output of the speed
\* controller, and keeps within the limits of a gimbal joint.
THEOREM CurrentFollowsOutput == Spec => []NeverAgainstOutput
<1>1. LoopInv => NeverAgainstOutput
  BY DEF LoopInv
<1> QED BY LoopInvariant, <1>1, PTL
=============================================================================
