-------------------------------- MODULE Pid --------------------------------
(***************************************************************************)
(* The controllers of include/tool/pid.hpp and the conversions around      *)
(* them, on exact numbers.  A controller is its three last errors (newest  *)
(* first), what it has integrated and its output; the other members of     *)
(* PidInfo are written and never read.                                     *)
(***************************************************************************)
EXTENDS Integers

Coeff == [kp : Int, ki : Int, kd : Int, ki_limit : Nat, k_limit : Nat]
Info  == [e0 : Int, e1 : Int, e2 : Int, i_out : Int, out : Int]

Cleared == [e0 |-> 0, e1 |-> 0, e2 |-> 0, i_out |-> 0, out |-> 0]

\* A limit of 0 means no limit.
constrain_abs_no_zero(value, limit) ==
  IF limit = 0 THEN value
  ELSE IF value >= limit THEN limit
  ELSE IF value < -limit THEN -limit ELSE value

\* More than half a turn one way is less than half a turn the other way.
format_angle_delta(delta, limit) ==
  IF 2 * delta > limit THEN delta - limit
  ELSE IF -2 * delta > limit THEN delta + limit ELSE delta

Integral(e, c) == constrain_abs_no_zero(c.ki * e, c.ki_limit)

\* The incremental form: the output is corrected by the changes.
pid_delta(p, c) ==
  LET step == c.kp * (p.e0 - p.e1) + Integral(p.e0, c)
                + c.kd * (p.e0 - 2 * p.e1 + p.e2)
  IN [p EXCEPT !.i_out = Integral(p.e0, c),
               !.out = constrain_abs_no_zero(p.out + step, c.k_limit)]

\* The positional form: the output is computed anew from the sum.
pid_target(p, c) ==
  LET sum == constrain_abs_no_zero(p.i_out + c.ki * p.e0, c.ki_limit)
  IN [p EXCEPT !.i_out = sum,
               !.out = constrain_abs_no_zero(
                         c.kp * p.e0 + sum + c.kd * (p.e0 - p.e1), c.k_limit)]

pid_speed(p, c, get, set) ==
  pid_delta([p EXCEPT !.e0 = set - get, !.e1 = p.e0, !.e2 = p.e1], c)

pid_angle(p, c, get, set, limit) ==
  pid_target([p EXCEPT !.e0 = format_angle_delta(set - get, limit), !.e1 = p.e0], c)

\* PidControl::feedback does not shift the errors: error[1] stays 0.
feedback(p, c, value, cmd) == pid_target([p EXCEPT !.e0 = cmd - value], c)

-----------------------------------------------------------------------------
(* Conversions.  The compiler's conversion of a double to a narrow integer  *)
(* goes by a 32-bit one, of which the low bits remain.                      *)

\* n / d rounded towards zero.
Truncate(n, d) == IF n >= 0 THEN n \div d ELSE -((-n) \div d)

\* A value stored in a signed or unsigned integer of w bits.
Signed(n, w)   == ((n + 2^(w - 1)) % 2^w) - 2^(w - 1)
Unsigned(n, w) == n % 2^w

Fits(n, w) == n \in -(2^(w - 1)) .. 2^(w - 1) - 1

CONSTRAIN_ARR(val, minmax) ==
  IF val >= minmax[2] THEN minmax[2]
  ELSE IF val < minmax[1] THEN minmax[1] ELSE val
=============================================================================
