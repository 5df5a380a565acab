------------------------------ MODULE MCSensors ------------------------------
(* A small heater for model checking Sensors: temperatures of 3 bits, a      *)
(* compare register of 3 bits and an integral part in halves.                *)
EXTENDS Sensors

MCHeater == [kp |-> 6, ki |-> 1, kd |-> 0, ki_limit |-> 0, k_limit |-> 0]
=============================================================================
