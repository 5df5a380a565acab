---------------------------- MODULE MCJointLoop ----------------------------
(* Small joints for model checking JointLoop: a gimbal motor with both       *)
(* controllers, a wheel whose command may exceed its type, a bullet motor    *)
(* with a derivative part.                                                   *)
EXTENDS JointLoop

C(p, i, d, il) == [kp |-> p, ki |-> i, kd |-> d, ki_limit |-> il, k_limit |-> 0]

Joint(kind, s, a, t) ==
  [kind |-> kind, speed |-> s, angle |-> a, turn |-> 3, current_limit |-> <<-2, 2>>,
   targets |-> t]

MCParts ==
  {Joint("gimbal", C(2, 2, 0, 0), C(1, 0, 0, 0), {3}),
   Joint("chassis", C(2, 2, 0, 2), C(0, 0, 0, 0), {0, 7}),
   Joint("bullet", C(1, 2, 1, 0), C(0, 0, 0, 0), {0, 1})}

MCReadings == {[angle |-> 0, speed |-> 0], [angle |-> 2, speed |-> 2]}
=============================================================================
