--------------------------- MODULE MCMotorControl ---------------------------
(* Frames for model checking MotorControl: the bullet switch on and off, the *)
(* wheel inside and outside its range, a stick and a switch that are refused.*)
EXTENDS MotorControl

F(w, p, y, s0, s1) ==
  [chan |-> [a \in Axis |-> CASE a = "wheel" -> w [] a = "pitch" -> p [] OTHER -> y],
   sw |-> [s \in 0..1 |-> IF s = 0 THEN s0 ELSE s1]]

MCFrames ==
  {F(1, 1, 1, 1, 3), F(2, 0, 0, 3, 1), F(1, 2, 1, 1, 1), F(1, 1, 1, 1, 0)}
=============================================================================
