--------------------------- MODULE SensorsProofs ---------------------------
(***************************************************************************)
(* Proofs about the sensor tasks, for every number of faults, of polls and *)
(* of notifications, every heater without limits and every width of the    *)
(* temperature and of the compare register.                                *)
(***************************************************************************)
EXTENDS Sensors, SequenceTheorems, TLAPS

-----------------------------------------------------------------------------
(* The heater. *)

\* The controller has integrated nothing but errors of one sign as long as the
\* temperature was on one side.
HeaterInv ==
  /\ pid \in Info /\ pid.e1 = 0
  /\ cold \in BOOLEAN /\ warm \in BOOLEAN
  /\ ~cold => pid.i_out <= 0 /\ heat = 0
  /\ ~warm => pid.i_out >= 0
  /\ ~warm /\ pid.out < Scale * 2^PwmWidth => heat >= Truncate(Heater.kp * pid.e0, Scale)

\* A limit keeps the sign.
LEMMA LimitKeepsSign ==
  ASSUME NEW x \in Int, NEW limit \in Nat
  PROVE  /\ constrain_abs_no_zero(x, limit) \in Int
         /\ x >= 0 => constrain_abs_no_zero(x, limit) >= 0
         /\ x <= 0 => constrain_abs_no_zero(x, limit) <= 0
BY DEF constrain_abs_no_zero

\* A coefficient that is not negative keeps the sign of an error.
LEMMA ProductSign ==
  ASSUME NEW k \in Int, k >= 0, NEW e \in Int
  PROVE  k * e \in Int /\ (e >= 0 => k * e >= 0) /\ (e <= 0 => k * e <= 0)
BY Z3

\* PidControl::feedback, member by member.
LEMMA FeedbackMembers ==
  ASSUME NEW p \in Info, p.e1 = 0, NEW t \in Int
  PROVE  LET e == Command - t
             sum == constrain_abs_no_zero(p.i_out + Heater.ki * e, Heater.ki_limit)
             f == feedback(p, Heater, t, Command)
         IN  /\ f \in Info /\ f.e0 = e /\ f.e1 = 0 /\ f.i_out = sum
             /\ f.out = Heater.kp * e + sum + Heater.kd * e
<1> DEFINE e == Command - t
           sum == constrain_abs_no_zero(p.i_out + Heater.ki * e, Heater.ki_limit)
           f == feedback(p, Heater, t, Command)
           q == [p EXCEPT !.e0 = e]
           o == Heater.kp * e + sum + Heater.kd * e
<1>1. /\ Heater.kp \in Int /\ Heater.ki \in Int /\ Heater.kd \in Int /\ Heater.ki_limit \in Nat
      /\ Heater.k_limit = 0 /\ e \in Int /\ p.i_out \in Int
  BY SensorAssumption, HeaterAssumption DEF Coeff, Info
<1>2. Heater.kp * e \in Int /\ Heater.ki * e \in Int /\ Heater.kd * e \in Int
  BY <1>1, HeaterAssumption, ProductSign
<1>3. p.i_out + Heater.ki * e \in Int
  BY <1>1, <1>2
<1>4. sum \in Int
  BY <1>1, <1>3, LimitKeepsSign
<1>5. q \in Info /\ q.e0 = e /\ q.e1 = 0 /\ q.i_out = p.i_out
  BY <1>1 DEF Info
<1>6. o \in Int
  BY <1>2, <1>4
<1>7. f = pid_target(q, Heater)
  BY DEF feedback
<1>8. pid_target(q, Heater) = [q EXCEPT !.i_out = sum, !.out = o]
  <2>1. e - 0 = e
    BY <1>1
  <2>2. constrain_abs_no_zero(o, Heater.k_limit) = o
    BY <1>1 DEF constrain_abs_no_zero
  <2>3. pid_target(q, Heater)
          = [q EXCEPT !.i_out = sum,
                      !.out = constrain_abs_no_zero(
                                Heater.kp * e + sum + Heater.kd * (e - 0), Heater.k_limit)]
    <3> HIDE DEF q, e
    <3> QED BY <1>5 DEF pid_target
  <2> HIDE DEF q, e, sum
  <2> QED BY <2>1, <2>2, <2>3
<1> HIDE DEF q, sum, e, o
<1>9. f \in Info /\ f.e0 = e /\ f.e1 = 0 /\ f.i_out = sum /\ f.out = o
  <2> HIDE DEF f
  <2> QED BY <1>1, <1>4, <1>5, <1>6, <1>7, <1>8 DEF Info
<1> QED BY <1>9 DEF e, sum, o

\* What the conversion to the compare register makes of an output.
LEMMA PwmFacts ==
  ASSUME NEW out \in Int
  PROVE  /\ out <= 0 => Pwm(out) = 0
         /\ \A n \in Nat : n <= out /\ out < Scale * 2^PwmWidth => Pwm(out) >= Truncate(n, Scale)
<1> DEFINE w == 2^PwmWidth
<1>1. Scale \in Nat /\ Scale > 0 /\ w \in Nat /\ w > 0
  BY SensorAssumption, RegisterAssumption
<1>2. out <= 0 => Pwm(out) = 0
  BY DEF Pwm
<1>3. ASSUME NEW n \in Nat, n <= out, out < Scale * w
      PROVE  Pwm(out) >= Truncate(n, Scale)
  <2> HIDE DEF w
  <2>1. Truncate(n, Scale) = n \div Scale /\ Truncate(out, Scale) = out \div Scale
    BY <1>3 DEF Truncate
  <2>2. PICK a \in Int : a = n \div Scale
    BY <1>1
  <2>3. PICK b \in Int : b = out \div Scale
    BY <1>1
  <2>4. Scale * a <= n /\ n < Scale * a + Scale
    BY <1>1, <2>2, Z3
  <2>5. Scale * b <= out /\ out < Scale * b + Scale
    BY <1>1, <2>3, Z3
  <2>6. a <= b
    BY <1>1, <1>3, <2>4, <2>5, Z3
  <2>7. 0 <= b /\ b < w
    BY <1>1, <1>3, <2>5, Z3
  <2>8. b % w = b
    BY <1>1, <2>7, Z3
  <2>9. CASE out > 0
    <3>1. Pwm(out) = b % w
      BY <2>1, <2>3, <2>9 DEF Pwm, Unsigned, w
    <3> QED BY <2>1, <2>2, <2>6, <2>8, <3>1
  <2>10. CASE out = 0
    <3>1. n = 0 /\ Pwm(out) = 0
      BY <1>3, <2>10 DEF Pwm
    <3>2. 0 \div Scale = 0
      BY <1>1, Z3
    <3> QED BY <2>1, <3>1, <3>2
  <2> QED BY <1>3, <2>9, <2>10
<1> QED BY <1>2, <1>3

\* A raw temperature is converted to a number.
LEMMA TemperatureInt == \A raw \in Raws : Temperature(raw) \in Int
<1>1. \A raw \in Raws : raw \in Int
  BY SensorAssumption
<1>2. 2^RawWidth \in Int /\ Offset \in Int
  BY SensorAssumption
<1> QED BY <1>1, <1>2 DEF Temperature

\* deviceBmi088Read, the controller and heatTrigger.
LEMMA HeaterSense ==
  ASSUME HeaterInv, NEW raw \in Raws, Sense(raw)
  PROVE  HeaterInv'
<1>1. CASE UNCHANGED heating
  BY <1>1 DEF heating, HeaterInv
<1>2. CASE task = "imu"
  <2> DEFINE t == Temperature(raw)
             p == feedback(pid, Heater, t, Command)
  <2>1. /\ pid' = p /\ heat' = Pwm(p.out)
        /\ cold' = (cold \/ t < Command) /\ warm' = (warm \/ t > Command)
    BY <1>2 DEF Sense
  <2>2. t \in Int
    BY TemperatureInt
  <2> HIDE DEF t
  <2>3. PICK e \in Int : e = Command - t
    BY <2>2, SensorAssumption
  <2>4. PICK k \in Int : k = Heater.ki * e /\ (e >= 0 => k >= 0) /\ (e <= 0 => k <= 0)
    BY SensorAssumption, HeaterAssumption, ProductSign DEF Coeff
  <2>5. PICK a \in Int : a = Heater.kp * e /\ (e >= 0 => a >= 0) /\ (e <= 0 => a <= 0)
    BY SensorAssumption, HeaterAssumption, ProductSign DEF Coeff
  <2>6. PICK d \in Int : d = Heater.kd * e /\ (e >= 0 => d >= 0) /\ (e <= 0 => d <= 0)
    BY SensorAssumption, HeaterAssumption, ProductSign DEF Coeff
  <2>7. /\ pid \in Info /\ pid.e1 = 0 /\ pid.i_out \in Int
        /\ cold \in BOOLEAN /\ warm \in BOOLEAN
        /\ ~cold => pid.i_out <= 0
        /\ ~warm => pid.i_out >= 0
    BY DEF HeaterInv, Info
  <2>8. PICK sum \in Int : /\ sum = constrain_abs_no_zero(pid.i_out + k, Heater.ki_limit)
                           /\ pid.i_out + k >= 0 => sum >= 0
                           /\ pid.i_out + k <= 0 => sum <= 0
    <3>1. pid.i_out + k \in Int /\ Heater.ki_limit \in Nat
      BY <2>7, SensorAssumption DEF Coeff
    <3> QED BY <3>1, LimitKeepsSign
  <2>9. p \in Info /\ p.e0 = e /\ p.e1 = 0 /\ p.i_out = sum /\ p.out = a + sum + d
    BY <2>2, <2>3, <2>4, <2>5, <2>6, <2>7, <2>8, FeedbackMembers
  <2> HIDE DEF p
  <2>10. PICK out \in Int : out = p.out /\ out = a + sum + d
    BY <2>9
  <2>11. pid' \in Info /\ pid'.e0 = e /\ pid'.e1 = 0 /\ pid'.i_out = sum /\ pid'.out = out
         /\ heat' = Pwm(out)
    BY <2>1, <2>9, <2>10
  <2>12. cold' \in BOOLEAN /\ warm' \in BOOLEAN
    BY <2>1, Zenon
  <2>13. ~cold' => ~cold /\ e <= 0
    <3>1. ~cold' => ~cold /\ ~(t < Command)
      BY <2>1, Zenon
    <3>2. ~(t < Command) => e <= 0
      BY <2>2, <2>3, SensorAssumption
    <3> QED BY <3>1, <3>2
  <2>14. ~warm' => ~warm /\ e >= 0
    <3>1. ~warm' => ~warm /\ ~(t > Command)
      BY <2>1, Zenon
    <3>2. ~(t > Command) => e >= 0
      BY <2>2, <2>3, SensorAssumption
    <3> QED BY <3>1, <3>2
  <2>15. ~cold' => sum <= 0 /\ Pwm(out) = 0
    <3> SUFFICES ASSUME ~cold' PROVE sum <= 0 /\ Pwm(out) = 0
      OBVIOUS
    <3>1. sum <= 0 /\ out <= 0
      BY <2>4, <2>5, <2>6, <2>7, <2>8, <2>10, <2>13
    <3> QED BY <3>1, PwmFacts
  <2>16. ~warm' => sum >= 0 /\ (out < Scale * 2^PwmWidth => Pwm(out) >= Truncate(a, Scale))
    <3> SUFFICES ASSUME ~warm'
                 PROVE  sum >= 0 /\ (out < Scale * 2^PwmWidth => Pwm(out) >= Truncate(a, Scale))
      OBVIOUS
    <3>1. sum >= 0 /\ a \in Nat /\ a <= out
      BY <2>4, <2>5, <2>6, <2>7, <2>8, <2>10, <2>14
    <3> QED BY <3>1, PwmFacts
  <2> QED BY <2>5, <2>11, <2>12, <2>15, <2>16 DEF HeaterInv
<1> QED BY <1>1, <1>2 DEF Sense

\* The heater's controller remembers on which side the temperature was.
THEOREM HeaterInvariant == Spec => []HeaterInv
<1>1. Init => HeaterInv
  <2> SUFFICES ASSUME Init PROVE HeaterInv
    OBVIOUS
  <2>1. /\ pid = Cleared /\ heat = 0 /\ cold = FALSE /\ warm = FALSE
    BY DEF Init
  <2>2. /\ pid \in Info /\ pid.e1 = 0 /\ pid.i_out = 0 /\ pid.e0 = 0 /\ pid.out = 0
    BY <2>1 DEF Cleared, Info
  <2>3. Heater.kp * 0 = 0
    BY SensorAssumption DEF Coeff
  <2>4. Truncate(0, Scale) = 0
    BY SensorAssumption, Z3 DEF Truncate
  <2>5. cold \in BOOLEAN /\ warm \in BOOLEAN /\ ~cold /\ ~warm
    BY <2>1, Zenon
  <2>6. heat >= Truncate(Heater.kp * pid.e0, Scale)
    BY <2>1, <2>2, <2>3, <2>4
  <2> QED BY <2>1, <2>2, <2>5, <2>6 DEF HeaterInv
<1>2. HeaterInv /\ [Next]_vars => HeaterInv'
  <2> SUFFICES ASSUME HeaterInv, [Next]_vars PROVE HeaterInv'
    OBVIOUS
  <2>1. CASE UNCHANGED heating
    BY <2>1 DEF heating, HeaterInv
  <2>2. CASE \E raw \in Raws : Sense(raw)
    BY <2>2, HeaterSense
  <2>3. CASE Setup
    BY <2>1, <2>3 DEF Setup, Probe, Reset, Who, WriteAndCheck, Respond, Judge, Trigger, Poll,
                      Finish, Retry
  <2>4. CASE ulTaskNotifyTake \/ osThreadNew \/ HAL_GPIO_EXTI_Callback \/ Hardware
             \/ UNCHANGED vars
    BY <2>1, <2>4 DEF ulTaskNotifyTake, osThreadNew, HAL_GPIO_EXTI_Callback, Hardware, Brownout,
                      vars
  <2> QED BY <2>2, <2>3, <2>4 DEF Next, Task
<1> QED BY <1>1, <1>2, PTL DEF Spec

\* sensorExternInterrupt heats only a BMI088 that was cold, and one that was never
\* warm at least in proportion, for every controller without limits.
THEOREM ColdIsHeated == Spec => []HeatsTheCold
<1>1. HeaterInv => HeatsTheCold
  BY DEF HeaterInv, HeatsTheCold
<1> QED BY <1>1, HeaterInvariant, PTL

-----------------------------------------------------------------------------
(* The set-up functions as sequences of steps. *)

\* The members of a step.
LEMMA StepMembers ==
  /\ \A o : Step(o).op = o
  /\ \A r, v : Set(r, v).op = "set" /\ Set(r, v).reg = r /\ Set(r, v).val = v
BY DEF Step, Set

\* One function body after another.
LEMMA Joined ==
  ASSUME NEW A, NEW B, NEW s \in Seq(A), NEW t \in Seq(B)
  PROVE  /\ s \o t \in Seq(A \union B) /\ Len(s \o t) = Len(s) + Len(t)
         /\ \A i \in 1..Len(s) : (s \o t)[i] = s[i]
         /\ \A i \in 1..Len(t) : (s \o t)[Len(s) + i] = t[i]
<1>1. s \in Seq(A \union B) /\ t \in Seq(A \union B)
  OBVIOUS
<1>2. Len(s) \in Nat /\ Len(t) \in Nat
  OBVIOUS
<1> QED BY <1>1, <1>2, ConcatProperties

\* The loop over a register table.
LEMMA SetsSeq ==
  ASSUME NEW t, Len(t) \in Nat
  PROVE  /\ Sets(t) \in Seq({Sets(t)[i] : i \in 1..Len(t)}) /\ Len(Sets(t)) = Len(t)
         /\ \A i \in 1..Len(t) : Sets(t)[i] = Set(t[i][1], t[i][2])
<1> DEFINE S == {Sets(t)[i] : i \in 1..Len(t)}
<1>1. \A i \in 1..Len(t) : Sets(t)[i] = Set(t[i][1], t[i][2])
  BY DEF Sets
<1>2. Sets(t) \in [1..Len(t) -> S]
  <2>1. Sets(t) = [i \in 1..Len(t) |-> Set(t[i][1], t[i][2])]
    BY DEF Sets
  <2>2. DOMAIN Sets(t) = 1..Len(t) /\ Sets(t) = [i \in 1..Len(t) |-> Sets(t)[i]]
    BY <2>1, Zenon
  <2> QED BY <2>2, Zenon
<1> HIDE DEF S
<1>3. Sets(t) \in Seq(S)
  BY <1>2, SeqDef, Zenon
<1>4. Len(Sets(t)) = Len(t)
  BY <1>2, <1>3, LenProperties
<1> QED BY <1>1, <1>3, <1>4 DEF S

\* The init functions of the BMI088: the chip is contacted and identified, then the
\* table is written.
LEMMA ContactThenSets ==
  ASSUME NEW t, Len(t) \in Nat
  PROVE  LET s == Contact \o <<Step("who")>> \o Sets(t)
         IN  /\ Len(s) = Len(t) + 4
             /\ \E S : s \in Seq(S)
             /\ \A i \in 1..4 : s[i].op # "set"
             /\ \A i \in 1..Len(t) : s[i + 4] = Set(t[i][1], t[i][2])
<1> DEFINE w == <<Step("who")>>
           A == {Step("probe"), Step("reset"), Step("probe")}
           B == {Step("who")}
           u == Contact \o w
<1>1. Contact \in Seq(A) /\ Len(Contact) = 3
      /\ Contact[1].op # "set" /\ Contact[2].op # "set" /\ Contact[3].op # "set"
  <2>1. \A a, b, c : <<a, b, c>> \in Seq({a, b, c})
    OBVIOUS
  <2>2. Contact \in Seq(A)
    BY <2>1 DEF Contact
  <2> QED BY <2>2, StepMembers DEF Contact
<1>2. w \in Seq(B) /\ Len(w) = 1 /\ w[1].op # "set"
  <2>1. \A a : <<a>> \in Seq({a})
    OBVIOUS
  <2> QED BY <2>1, StepMembers
<1> HIDE DEF w, A, B
<1>3. /\ u \in Seq(A \union B) /\ Len(u) = Len(Contact) + Len(w)
      /\ \A i \in 1..Len(Contact) : u[i] = Contact[i]
      /\ \A i \in 1..Len(w) : u[Len(Contact) + i] = w[i]
  <2>1. Contact \in Seq(A) /\ w \in Seq(B)
    BY <1>1, <1>2
  <2> QED BY ONLY <2>1, Joined
<1> HIDE DEF u
<1>4. u[1].op # "set" /\ u[2].op # "set" /\ u[3].op # "set" /\ u[4].op # "set" /\ Len(u) = 4
  <2>1. u[1] = Contact[1] /\ u[2] = Contact[2] /\ u[3] = Contact[3] /\ u[3 + 1] = w[1]
    BY <1>1, <1>2, <1>3
  <2> QED BY <1>1, <1>2, <1>3, <2>1
<1> DEFINE s == u \o Sets(t)
           S == {Sets(t)[i] : i \in 1..Len(t)}
<1>5. Sets(t) \in Seq(S) /\ Len(Sets(t)) = Len(t)
      /\ \A i \in 1..Len(t) : Sets(t)[i] = Set(t[i][1], t[i][2])
  BY SetsSeq
<1> HIDE DEF S
<1>6. /\ s \in Seq((A \union B) \union S) /\ Len(s) = Len(u) + Len(Sets(t))
      /\ \A i \in 1..Len(u) : s[i] = u[i]
      /\ \A i \in 1..Len(Sets(t)) : s[Len(u) + i] = Sets(t)[i]
  <2>1. u \in Seq(A \union B) /\ Sets(t) \in Seq(S)
    BY <1>3, <1>5
  <2> QED BY ONLY <2>1, Joined
<1> HIDE DEF s
<1>7. \A i \in 1..4 : s[i].op # "set"
  <2>1. s[1] = u[1] /\ s[2] = u[2] /\ s[3] = u[3] /\ s[4] = u[4]
    BY <1>4, <1>6
  <2> QED BY <1>4, <2>1
<1>8. Len(s) = Len(t) + 4 /\ \A i \in 1..Len(t) : s[i + 4] = Set(t[i][1], t[i][2])
  BY <1>4, <1>5, <1>6
<1>9. \E T : s \in Seq(T)
  BY <1>6
<1> QED BY <1>7, <1>8, <1>9 DEF s, u, w

\* The lengths of the tables.
LEMMA TableLengths ==
  /\ Len(AccelTable) = 6 /\ Len(GyroTable) = 6 /\ Len(MagTable) = 4
  /\ Len(AccelSelfTestTable) = 4
BY DEF AccelTable, GyroTable, MagTable, AccelSelfTestTable

\* bmi088_accel_init.
LEMMA AccelInitSteps ==
  /\ Len(bmi088_accel_init) = 10
  /\ \A i \in 1..4 : bmi088_accel_init[i].op # "set"
  /\ \A i \in 1..6 : bmi088_accel_init[i + 4] = Set(AccelTable[i][1], AccelTable[i][2])
<1>1. Len(AccelTable) = 6
  BY TableLengths
<1> DEFINE s == Contact \o <<Step("who")>> \o Sets(AccelTable)
<1>2. /\ Len(s) = Len(AccelTable) + 4
      /\ \A i \in 1..4 : s[i].op # "set"
      /\ \A i \in 1..Len(AccelTable) : s[i + 4] = Set(AccelTable[i][1], AccelTable[i][2])
  <2>1. Len(AccelTable) \in Nat
    BY <1>1
  <2> QED BY <2>1, ContactThenSets
<1>3. s = bmi088_accel_init
  BY DEF bmi088_accel_init
<1> HIDE DEF s
<1> QED BY <1>1, <1>2, <1>3

\* bmi088_gyro_init.
LEMMA GyroInitSteps ==
  /\ Len(bmi088_gyro_init) = 10
  /\ \A i \in 1..4 : bmi088_gyro_init[i].op # "set"
  /\ \A i \in 1..6 : bmi088_gyro_init[i + 4] = Set(GyroTable[i][1], GyroTable[i][2])
<1>1. Len(GyroTable) = 6
  BY TableLengths
<1> DEFINE s == Contact \o <<Step("who")>> \o Sets(GyroTable)
<1>2. /\ Len(s) = Len(GyroTable) + 4
      /\ \A i \in 1..4 : s[i].op # "set"
      /\ \A i \in 1..Len(GyroTable) : s[i + 4] = Set(GyroTable[i][1], GyroTable[i][2])
  <2>1. Len(GyroTable) \in Nat
    BY <1>1
  <2> QED BY <2>1, ContactThenSets
<1>3. s = bmi088_gyro_init
  BY DEF bmi088_gyro_init
<1> HIDE DEF s
<1> QED BY <1>1, <1>2, <1>3

\* bmi088_accel_self_test ends with the excitation switched off, a reset and the
\* judgement.
LEMMA AccelSelfTestSteps ==
  /\ Len(bmi088_accel_self_test) = 16
  /\ bmi088_accel_self_test[13] = Set("SELF_TEST", Off)
  /\ \A i \in 14..16 : bmi088_accel_self_test[i].op # "set"
<1> DEFINE s == Contact \o <<Step("who")>> \o Sets(AccelSelfTestTable)
           e == <<Set("SELF_TEST", Positive), Step("respond"), Set("SELF_TEST", Negative),
                  Step("respond"), Set("SELF_TEST", Off), Step("reset"), Step("judge"),
                  Step("probe")>>
<1>1. Len(s) = 8 /\ \E S : s \in Seq(S)
  <2>1. Len(AccelSelfTestTable) = 4
    BY TableLengths
  <2>2. Len(s) = Len(AccelSelfTestTable) + 4 /\ \E S : s \in Seq(S)
    <3>1. Len(AccelSelfTestTable) \in Nat
      BY <2>1
    <3> QED BY <3>1, ContactThenSets
  <2> HIDE DEF s
  <2> QED BY <2>1, <2>2
<1>2. /\ Len(e) = 8 /\ \E S : e \in Seq(S)
      /\ e[5] = Set("SELF_TEST", Off) /\ e[6] = Step("reset") /\ e[7] = Step("judge")
      /\ e[8] = Step("probe")
  <2>1. \A a, b, c, d, f, g, h, k :
          <<a, b, c, d, f, g, h, k>> \in Seq({a, b, c, d, f, g, h, k})
    OBVIOUS
  <2>2. \E S : e \in Seq(S)
    BY <2>1
  <2> QED BY <2>2
<1>3. bmi088_accel_self_test = s \o e
  BY DEF bmi088_accel_self_test
<1> HIDE DEF s, e
<1>4. PICK A : s \in Seq(A)
  BY <1>1
<1>5. PICK B : e \in Seq(B)
  BY <1>2
<1> DEFINE u == s \o e
<1>6. Len(u) = Len(s) + Len(e) /\ \A i \in 1..Len(e) : u[Len(s) + i] = e[i]
  BY ONLY <1>4, <1>5, Joined
<1>7. bmi088_accel_self_test = u
  BY <1>3
<1> HIDE DEF u
<1>8. Len(u) = 16 /\ u[8 + 5] = e[5] /\ u[8 + 6] = e[6] /\ u[8 + 7] = e[7] /\ u[8 + 8] = e[8]
  BY <1>1, <1>2, <1>6
<1>9. u[13] = e[5] /\ u[14] = e[6] /\ u[15] = e[7] /\ u[16] = e[8]
  BY <1>8
<1>10. e[6].op # "set" /\ e[7].op # "set" /\ e[8].op # "set"
  BY <1>2, StepMembers
<1>11. \A i \in 14..16 : i = 14 \/ i = 15 \/ i = 16
  OBVIOUS
<1> QED BY <1>2, <1>7, <1>8, <1>9, <1>10, <1>11

\* bmi088_gyro_self_test.
LEMMA GyroSelfTestSteps == Len(bmi088_gyro_self_test) = 5
<1> DEFINE e == <<Step("trigger"), Step("poll")>>
<1>1. Len(Contact) = 3 /\ \E S : Contact \in Seq(S)
  <2>1. \A a, b, c : <<a, b, c>> \in Seq({a, b, c})
    OBVIOUS
  <2>2. Contact \in Seq({Step("probe"), Step("reset"), Step("probe")})
    BY <2>1 DEF Contact
  <2>3. Len(Contact) = 3
    BY DEF Contact
  <2> QED BY <2>2, <2>3
<1>2. Len(e) = 2 /\ \E S : e \in Seq(S)
  <2>1. \A a, b : <<a, b>> \in Seq({a, b})
    OBVIOUS
  <2> QED BY <2>1
<1>3. bmi088_gyro_self_test = Contact \o e
  BY DEF bmi088_gyro_self_test
<1> HIDE DEF e
<1>4. PICK A : Contact \in Seq(A)
  BY <1>1
<1>5. PICK B : e \in Seq(B)
  BY <1>2
<1>6. Len(Contact \o e) = Len(Contact) + Len(e)
  BY ONLY <1>4, <1>5, Joined
<1> QED BY <1>1, <1>2, <1>3, <1>6

\* deviceIst8310Init.
LEMMA MagInitSteps ==
  LET s == <<Step("pin"), Step("probe"), Step("who")>> \o Sets(MagTable)
  IN  /\ Len(s) = 7
      /\ \A i \in 1..3 : s[i].op # "set"
      /\ \A i \in 1..4 : s[i + 3] = Set(MagTable[i][1], MagTable[i][2])
<1> DEFINE h == <<Step("pin"), Step("probe"), Step("who")>>
           s == h \o Sets(MagTable)
           S == {Sets(MagTable)[i] : i \in 1..Len(MagTable)}
<1>1. Len(h) = 3 /\ h[1].op # "set" /\ h[2].op # "set" /\ h[3].op # "set"
  BY StepMembers
<1>2. \E A : h \in Seq(A)
  <2>1. \A a, b, c : <<a, b, c>> \in Seq({a, b, c})
    OBVIOUS
  <2> QED BY <2>1
<1>3. Len(MagTable) = 4
  BY TableLengths
<1>4. /\ Sets(MagTable) \in Seq(S) /\ Len(Sets(MagTable)) = 4
      /\ \A i \in 1..4 : Sets(MagTable)[i] = Set(MagTable[i][1], MagTable[i][2])
  <2>1. Len(MagTable) \in Nat
    BY <1>3
  <2>2. /\ Sets(MagTable) \in Seq(S) /\ Len(Sets(MagTable)) = Len(MagTable)
        /\ \A i \in 1..Len(MagTable) : Sets(MagTable)[i] = Set(MagTable[i][1], MagTable[i][2])
    BY <2>1, SetsSeq
  <2> QED BY <1>3, <2>2
<1> HIDE DEF h, S
<1>5. PICK A : h \in Seq(A)
  BY <1>2
<1>6. /\ Len(s) = Len(h) + Len(Sets(MagTable))
      /\ \A i \in 1..Len(h) : s[i] = h[i]
      /\ \A i \in 1..Len(Sets(MagTable)) : s[Len(h) + i] = Sets(MagTable)[i]
  <2>1. h \in Seq(A) /\ Sets(MagTable) \in Seq(S)
    BY <1>4, <1>5
  <2> QED BY ONLY <2>1, Joined
<1> HIDE DEF s
<1>7. \A i \in 1..3 : s[i].op # "set"
  <2>1. s[1] = h[1] /\ s[2] = h[2] /\ s[3] = h[3]
    BY <1>1, <1>6
  <2> QED BY <1>1, <2>1
<1>8. Len(s) = 7 /\ \A i \in 1..4 : s[i + 3] = Set(MagTable[i][1], MagTable[i][2])
  BY <1>1, <1>4, <1>6
<1> QED BY <1>7, <1>8 DEF s, h

-----------------------------------------------------------------------------
(* What the set-up has verified. *)

\* The function that writes the table of chip c, and its first step that does.
Home(c)  == CASE c = "accel" -> 2 [] c = "gyro" -> 4 [] c = "mag" -> 1
First(c) == IF c = "mag" THEN 4 ELSE 5

\* The set-up is where its functions can be, and its history has a value for every
\* chip.
PlaceInv ==
  /\ task \in {"imu", "cmps"} /\ pc \in {"init", "delay", "wait", "read"}
  /\ error \in BOOLEAN
  /\ blk \in 1..(Len(Blocks) + 1)
  /\ blk <= Len(Blocks) => at \in 1..Len(Blocks[blk].steps)
  /\ blk > Len(Blocks) => at = 1
  /\ pc # "init" => blk = 1 /\ at = 1
  /\ blk = 1 \/ (task = "imu" /\ blk = 2) => ~error

RegsInv ==
  /\ regs = [c \in Chip |-> regs[c]]
  /\ \A c \in Chip : regs[c] = [r \in Registers(c) |-> regs[c][r]]
  /\ browned \in [Chip -> BOOLEAN] /\ blind \in [Chip -> BOOLEAN]

\* The rows of the table of chip c that the present attempt has written and read
\* back, or that the one which ended the set-up has.
Verified(c) ==
  IF pc = "delay" THEN 0
  ELSE IF pc # "init" THEN Len(Table(c))
  ELSE IF blk < Home(c) THEN 0
  ELSE IF blk = Home(c) THEN at - First(c)
  ELSE IF error THEN 0 ELSE Len(Table(c))

\* Row i is in the chip, unless what was read back does not tell.
Right(c, i) ==
  \/ browned[c]
  \/ blind[c] /\ c = "mag"
  \/ blind[c] /\ Table(c)[i][2] = 0
  \/ regs[c][Table(c)[i][1]] = Table(c)[i][2]

VerifiedInv == \A c \in Used : \A i \in 1..Verified(c) : Right(c, i)

\* The excitation of the accelerometer has been switched off.
Calmed ==
  /\ task = "imu" /\ pc # "delay"
  /\ pc = "init" => (blk = 1 /\ at >= 14) \/ blk = 2 \/ (blk > 2 /\ ~error)

CalmedInv == Calmed => blind["accel"] \/ regs["accel"]["SELF_TEST"] \in {Unset, Off}

SetupInv == PlaceInv /\ RegsInv /\ VerifiedInv /\ CalmedInv

\* deviceBmi088Init: the self test and the init function of either chip.
LEMMA Bmi088Blocks ==
  LET d == deviceBmi088Init
  IN  /\ Len(d) = 4
      /\ d[1].chip = "accel" /\ d[1].fail = 3 /\ d[1].steps = bmi088_accel_self_test
      /\ d[2].chip = "accel" /\ d[2].fail = 3 /\ d[2].steps = bmi088_accel_init
      /\ d[3].chip = "gyro" /\ d[3].fail = 5 /\ d[3].steps = bmi088_gyro_self_test
      /\ d[4].chip = "gyro" /\ d[4].fail = 5 /\ d[4].steps = bmi088_gyro_init
BY DEF deviceBmi088Init

\* deviceIst8310Init: one function.
LEMMA Ist8310Blocks ==
  LET d == deviceIst8310Init
  IN  /\ Len(d) = 1 /\ d[1].chip = "mag" /\ d[1].fail = 2
      /\ d[1].steps = <<Step("pin"), Step("probe"), Step("who")>> \o Sets(MagTable)
BY DEF deviceIst8310Init

\* Where a step of the set-up is, in numbers.
LEMMA StepPlace ==
  ASSUME PlaceInv, ~Done
  PROVE  /\ Here \in Chip /\ Here \in Used /\ Blocks[blk].fail \in Nat
         /\ \/ /\ task = "imu" /\ Used = {"accel", "gyro"} /\ Len(Blocks) = 4
               /\ \/ blk = 1 /\ Here = "accel" /\ Blocks[blk].fail = 3 /\ Len(Blocks[blk].steps) = 16
                  \/ blk = 2 /\ Here = "accel" /\ Blocks[blk].fail = 3 /\ Len(Blocks[blk].steps) = 10
                  \/ blk = 3 /\ Here = "gyro" /\ Blocks[blk].fail = 5 /\ Len(Blocks[blk].steps) = 5
                  \/ blk = 4 /\ Here = "gyro" /\ Blocks[blk].fail = 5 /\ Len(Blocks[blk].steps) = 10
            \/ /\ task = "cmps" /\ Used = {"mag"} /\ Len(Blocks) = 1 /\ blk = 1
               /\ Here = "mag" /\ Blocks[blk].fail = 2 /\ Len(Blocks[blk].steps) = 7
         /\ at \in 1..Len(Blocks[blk].steps)
<1>1. at \in 1..Len(Blocks[blk].steps)
  BY DEF PlaceInv, Done
<1>2. CASE task = "imu"
  <2>1. Blocks = deviceBmi088Init /\ Used = {"accel", "gyro"}
    BY <1>2 DEF Blocks, Used
  <2>2. blk \in 1..4
    BY <2>1, Bmi088Blocks DEF PlaceInv, Done
  <2>3. blk = 1 \/ blk = 2 \/ blk = 3 \/ blk = 4
    BY <2>2
  <2> QED BY <1>1, <1>2, <2>1, <2>3, Bmi088Blocks, AccelSelfTestSteps, AccelInitSteps,
             GyroSelfTestSteps, GyroInitSteps DEF Here, Chip
<1>3. CASE task = "cmps"
  <2>1. Blocks = deviceIst8310Init /\ Used = {"mag"}
    BY <1>3 DEF Blocks, Used
  <2>2. blk = 1
    BY <2>1, Ist8310Blocks DEF PlaceInv, Done
  <2>3. Len(deviceIst8310Init[1].steps) = 7
    BY Ist8310Blocks, MagInitSteps
  <2> QED BY <1>1, <1>3, <2>1, <2>2, <2>3, Ist8310Blocks DEF Here, Chip
<1> QED BY <1>2, <1>3 DEF PlaceInv

\* Which register a step of the set-up writes.
LEMMA StepWrites ==
  ASSUME PlaceInv, ~Done
  PROVE  /\ blk = Home(Here) /\ at < First(Here) => Now.op # "set"
         /\ blk = Home(Here) /\ at >= First(Here) =>
              /\ at - First(Here) + 1 \in 1..Len(Table(Here))
              /\ Now.op = "set"
              /\ Now.reg = Table(Here)[at - First(Here) + 1][1]
              /\ Now.val = Table(Here)[at - First(Here) + 1][2]
         /\ task = "imu" /\ blk = 1 /\ at = 13 =>
              Now.op = "set" /\ Now.reg = "SELF_TEST" /\ Now.val = Off
         /\ task = "imu" /\ blk = 1 /\ at >= 14 => Now.op # "set"
<1> DEFINE i == at - First(Here) + 1
<1>1. CASE task = "imu"
  <2>1. Blocks = deviceBmi088Init
    BY <1>1 DEF Blocks
  <2>2. CASE blk = 1
    <3>1. Here = "accel" /\ at \in 1..16 /\ Now = bmi088_accel_self_test[at] /\ blk # Home(Here)
      BY <1>1, <2>1, <2>2, StepPlace, Bmi088Blocks DEF Now, Home
    <3>2. at = 13 => Now.op = "set" /\ Now.reg = "SELF_TEST" /\ Now.val = Off
      BY <3>1, AccelSelfTestSteps, StepMembers
    <3>3. at >= 14 => Now.op # "set"
      BY <3>1, AccelSelfTestSteps
    <3> QED BY <3>1, <3>2, <3>3
  <2>3. CASE blk = 2
    <3>1. /\ Here = "accel" /\ at \in 1..10 /\ Now = bmi088_accel_init[at]
          /\ First(Here) = 5 /\ Table(Here) = AccelTable /\ blk # 1
      BY <1>1, <2>1, <2>3, StepPlace, Bmi088Blocks DEF Now, First, Table
    <3>2. at < 5 => Now.op # "set"
      BY <3>1, AccelInitSteps
    <3>3. at >= 5 => (at - 5 + 1) \in 1..6 /\ at = (at - 5 + 1) + 4
      BY <3>1
    <3>4. at >= 5 => Now = Set(AccelTable[at - 5 + 1][1], AccelTable[at - 5 + 1][2])
      BY <3>1, <3>3, AccelInitSteps
    <3>5. at >= 5 => /\ Now.op = "set" /\ Now.reg = AccelTable[at - 5 + 1][1]
                      /\ Now.val = AccelTable[at - 5 + 1][2]
      BY <3>4, StepMembers
    <3>6. Len(AccelTable) = 6
      BY TableLengths
    <3> QED BY <3>1, <3>2, <3>3, <3>5, <3>6
  <2>4. CASE blk = 3
    <3>1. Here = "gyro" /\ blk # Home(Here) /\ blk # 1
      BY <1>1, <2>4, StepPlace DEF Home
    <3> QED BY <3>1
  <2>5. CASE blk = 4
    <3>1. /\ Here = "gyro" /\ at \in 1..10 /\ Now = bmi088_gyro_init[at]
          /\ First(Here) = 5 /\ Table(Here) = GyroTable /\ blk # 1
      BY <1>1, <2>1, <2>5, StepPlace, Bmi088Blocks DEF Now, First, Table
    <3>2. at < 5 => Now.op # "set"
      BY <3>1, GyroInitSteps
    <3>3. at >= 5 => (at - 5 + 1) \in 1..6 /\ at = (at - 5 + 1) + 4
      BY <3>1
    <3>4. at >= 5 => Now = Set(GyroTable[at - 5 + 1][1], GyroTable[at - 5 + 1][2])
      BY <3>1, <3>3, GyroInitSteps
    <3>5. at >= 5 => /\ Now.op = "set" /\ Now.reg = GyroTable[at - 5 + 1][1]
                      /\ Now.val = GyroTable[at - 5 + 1][2]
      BY <3>4, StepMembers
    <3>6. Len(GyroTable) = 6
      BY TableLengths
    <3> QED BY <3>1, <3>2, <3>3, <3>5, <3>6
  <2> QED BY <1>1, <2>2, <2>3, <2>4, <2>5, StepPlace
<1>2. CASE task = "cmps"
  <2>1. Blocks = deviceIst8310Init
    BY <1>2 DEF Blocks
  <2> DEFINE s == deviceIst8310Init[1].steps
  <2>2. /\ Len(s) = 7 /\ \A k \in 1..3 : s[k].op # "set"
        /\ \A k \in 1..4 : s[k + 3] = Set(MagTable[k][1], MagTable[k][2])
    BY Ist8310Blocks, MagInitSteps
  <2>3. /\ Here = "mag" /\ at \in 1..7 /\ Now = s[at]
        /\ First(Here) = 4 /\ Table(Here) = MagTable
    BY <1>2, <2>1, StepPlace DEF Now, First, Table
  <2> HIDE DEF s
  <2>4. at < 4 => Now.op # "set"
    BY <2>2, <2>3
  <2>5. at >= 4 => (at - 4 + 1) \in 1..4 /\ at = (at - 4 + 1) + 3
    BY <2>3
  <2>6. at >= 4 => Now = Set(MagTable[at - 4 + 1][1], MagTable[at - 4 + 1][2])
    BY <2>2, <2>3, <2>5
  <2> QED BY <1>2, <2>3, <2>4, <2>5, <2>6, StepMembers, TableLengths
<1> QED BY <1>1, <1>2 DEF PlaceInv

\* The set-up goes to the next step, to the next function or out of the function.
LEMMA Moves ==
  ASSUME PlaceInv, pc = "init", ~Done, NEW ok \in BOOLEAN, Proceed(ok)
  PROVE  \/ /\ ok /\ at < Len(Blocks[blk].steps)
            /\ blk' = blk /\ at' = at + 1 /\ (error' <=> error)
         \/ /\ ok /\ at = Len(Blocks[blk].steps)
            /\ blk' = blk + 1 /\ at' = 1 /\ (error' <=> error)
         \/ /\ ~ok /\ blk' = Blocks[blk].fail /\ at' = 1 /\ error'
<1>1. at < Len(Blocks[blk].steps) \/ (at = Len(Blocks[blk].steps) /\ ~(at < Len(Blocks[blk].steps)))
  BY StepPlace
<1>2. /\ blk' = IF ~ok THEN Blocks[blk].fail
                ELSE IF at < Len(Blocks[blk].steps) THEN blk ELSE blk + 1
      /\ at' = IF ok /\ at < Len(Blocks[blk].steps) THEN at + 1 ELSE 1
  BY DEF Proceed
<1>3. error' <=> error \/ ~ok
  BY Zenon DEF Proceed
<1> QED BY <1>1, <1>2, <1>3, Zenon

\* Where the set-up goes, in numbers.
LEMMA Goes ==
  ASSUME PlaceInv, pc = "init", ~Done, NEW ok \in BOOLEAN, Proceed(ok)
  PROVE  /\ ~ok => error' /\ at' = 1
         /\ ok => (error' <=> error)
         /\ ok => \/ at' = at + 1 /\ blk' = blk
                  \/ at' = 1 /\ blk' = blk + 1
         /\ task = "imu" /\ blk = 1 =>
              /\ Here = "accel" /\ at \in 1..16
              /\ ~ok => blk' = 3
              /\ ok => IF at < 16 THEN blk' = 1 /\ at' = at + 1 ELSE blk' = 2 /\ at' = 1
         /\ task = "imu" /\ blk = 2 =>
              /\ Here = "accel" /\ at \in 1..10
              /\ ~ok => blk' = 3
              /\ ok => IF at < 10 THEN blk' = 2 /\ at' = at + 1 ELSE blk' = 3 /\ at' = 1
         /\ task = "imu" /\ blk = 3 =>
              /\ Here = "gyro" /\ at \in 1..5
              /\ ~ok => blk' = 5
              /\ ok => IF at < 5 THEN blk' = 3 /\ at' = at + 1 ELSE blk' = 4 /\ at' = 1
         /\ task = "imu" /\ blk = 4 =>
              /\ Here = "gyro" /\ at \in 1..10
              /\ ~ok => blk' = 5
              /\ ok => IF at < 10 THEN blk' = 4 /\ at' = at + 1 ELSE blk' = 5 /\ at' = 1
         /\ task = "cmps" =>
              /\ Here = "mag" /\ at \in 1..7 /\ blk = 1
              /\ ~ok => blk' = 2
              /\ ok => IF at < 7 THEN blk' = 1 /\ at' = at + 1 ELSE blk' = 2 /\ at' = 1
         /\ task = "imu" => blk = 1 \/ blk = 2 \/ blk = 3 \/ blk = 4
<1> DEFINE n == Len(Blocks[blk].steps)
           f == Blocks[blk].fail
<1>1. \/ ok /\ at < n /\ blk' = blk /\ at' = at + 1 /\ (error' <=> error)
      \/ ok /\ at = n /\ blk' = blk + 1 /\ at' = 1 /\ (error' <=> error)
      \/ ~ok /\ blk' = f /\ at' = 1 /\ error'
  BY Moves
<1>2. /\ at \in 1..n
      /\ \/ /\ task = "imu"
            /\ \/ blk = 1 /\ Here = "accel" /\ f = 3 /\ n = 16
               \/ blk = 2 /\ Here = "accel" /\ f = 3 /\ n = 10
               \/ blk = 3 /\ Here = "gyro" /\ f = 5 /\ n = 5
               \/ blk = 4 /\ Here = "gyro" /\ f = 5 /\ n = 10
         \/ task = "cmps" /\ blk = 1 /\ Here = "mag" /\ f = 2 /\ n = 7
  BY StepPlace
<1> HIDE DEF n, f
<1>3. CASE task = "imu"
  <2>1. CASE blk = 1
    BY <1>1, <1>2, <1>3, <2>1
  <2>2. CASE blk = 2
    BY <1>1, <1>2, <1>3, <2>2
  <2>3. CASE blk = 3
    BY <1>1, <1>2, <1>3, <2>3
  <2>4. CASE blk = 4
    BY <1>1, <1>2, <1>3, <2>4
  <2> QED BY <1>2, <1>3, <2>1, <2>2, <2>3, <2>4
<1>4. CASE task = "cmps"
  BY <1>1, <1>2, <1>4
<1> QED BY <1>2, <1>3, <1>4

\* How many functions there are, and how long they are.
LEMMA FunctionLengths ==
  /\ task = "imu" => /\ Len(Blocks) = 4 /\ Len(Blocks[1].steps) = 16 /\ Len(Blocks[2].steps) = 10
                     /\ Len(Blocks[3].steps) = 5 /\ Len(Blocks[4].steps) = 10
  /\ task = "cmps" => Len(Blocks) = 1 /\ Len(Blocks[1].steps) = 7
<1>1. CASE task = "imu"
  <2>1. Blocks = deviceBmi088Init
    BY <1>1 DEF Blocks
  <2> QED BY <1>1, <2>1, Bmi088Blocks, AccelSelfTestSteps, AccelInitSteps, GyroSelfTestSteps,
             GyroInitSteps
<1>2. CASE task = "cmps"
  <2>1. Blocks = deviceIst8310Init
    BY <1>2 DEF Blocks
  <2>2. Len(deviceIst8310Init[1].steps) = 7 /\ Len(deviceIst8310Init) = 1
    BY Ist8310Blocks, MagInitSteps
  <2> QED BY <1>2, <2>1, <2>2
<1> QED BY <1>1, <1>2

\* It stays where its functions can be.
LEMMA PlaceMoves ==
  ASSUME PlaceInv, pc = "init", ~Done, NEW ok \in BOOLEAN, Proceed(ok),
         task' = task, pc' = pc
  PROVE  PlaceInv'
<1>1. error' \in BOOLEAN
  BY Zenon DEF Proceed
<1>2. Blocks' = Blocks
  BY DEF Blocks
<1>3. (blk = 1 \/ (task = "imu" /\ blk = 2) => ~error) /\ task \in {"imu", "cmps"}
  BY Zenon DEF PlaceInv
<1>4. CASE task = "imu"
  <2>1. blk' = 1 \/ blk' = 2 => ~error'
    BY <1>3, <1>4, Goes
  <2>2. /\ blk' \in 1..5 /\ (blk' > 4 => at' = 1)
        /\ \/ blk' = 1 /\ at' \in 1..16
           \/ blk' = 2 /\ at' \in 1..10
           \/ blk' = 3 /\ at' \in 1..5
           \/ blk' = 4 /\ at' \in 1..10
           \/ blk' = 5 /\ at' = 1
    <3>1. CASE blk = 1
      BY <1>4, <3>1, Goes
    <3>2. CASE blk = 2
      BY <1>4, <3>2, Goes
    <3>3. CASE blk = 3
      BY <1>4, <3>3, Goes
    <3>4. CASE blk = 4
      BY <1>4, <3>4, Goes
    <3> QED BY <1>4, <3>1, <3>2, <3>3, <3>4, Goes
  <2>3. blk' <= 4 => at' \in 1..Len(Blocks[blk'].steps)
    <3> DEFINE n(b) == Len(Blocks[b].steps)
    <3>1. n(1) = 16 /\ n(2) = 10 /\ n(3) = 5 /\ n(4) = 10
      BY <1>4, FunctionLengths
    <3> HIDE DEF n
    <3>2. blk' <= 4 => at' \in 1..n(blk')
      BY <2>2, <3>1
    <3> QED BY <3>2 DEF n
  <2>4. Len(Blocks) = 4
    BY <1>4, FunctionLengths
  <2> QED BY <1>1, <1>2, <1>4, <2>1, <2>2, <2>3, <2>4 DEF PlaceInv
<1>5. CASE task = "cmps"
  <2>1. blk' = 1 => ~error'
    BY <1>3, <1>5, Goes
  <2>2. (blk' = 1 /\ at' \in 1..7) \/ (blk' = 2 /\ at' = 1)
    BY <1>5, Goes
  <2>3. Len(Blocks) = 1 /\ Len(Blocks[1].steps) = 7
    BY <1>5, FunctionLengths
  <2>4. CASE blk' = 1 /\ at' \in 1..7
    <3>1. at' \in 1..Len(Blocks[blk'].steps)
      BY <2>3, <2>4
    <3> QED BY <1>1, <1>2, <1>5, <2>1, <2>3, <2>4, <3>1 DEF PlaceInv
  <2>5. CASE blk' = 2 /\ at' = 1
    BY <1>1, <1>2, <1>5, <2>3, <2>5 DEF PlaceInv
  <2> QED BY <2>2, <2>4, <2>5
<1> QED BY <1>3, <1>4, <1>5

\* What a step verifies: a register write one row of its chip, and nothing else
\* anything.
LEMMA VerifiedMoves ==
  ASSUME PlaceInv, pc = "init", ~Done, NEW ok \in BOOLEAN, Proceed(ok),
         task' = task, pc' = pc, NEW c \in Used
  PROVE  /\ c # Here => \A i \in 1..Verified(c)' : i \in 1..Verified(c)
         /\ c = Here /\ ~(blk = Home(c) /\ at >= First(c) /\ ok) => 1..Verified(c)' = {}
         /\ c = Here /\ blk = Home(c) /\ at >= First(c) /\ ok =>
              \A i \in 1..Verified(c)' : i \in 1..Verified(c) \/ i = at - First(c) + 1
<1> DEFINE n == Len(Table(c))
<1>1. /\ blk < Home(c) => Verified(c) = 0
      /\ blk = Home(c) /\ ~(blk < Home(c)) => Verified(c) = at - First(c)
      /\ blk # Home(c) /\ ~(blk < Home(c)) /\ error => Verified(c) = 0
      /\ blk # Home(c) /\ ~(blk < Home(c)) /\ ~error => Verified(c) = n
  BY DEF Verified
<1>2. /\ blk' < Home(c) => Verified(c)' = 0
      /\ blk' = Home(c) /\ ~(blk' < Home(c)) => Verified(c)' = at' - First(c)
      /\ blk' # Home(c) /\ ~(blk' < Home(c)) /\ error' => Verified(c)' = 0
      /\ blk' # Home(c) /\ ~(blk' < Home(c)) /\ ~error' => Verified(c)' = n
  BY DEF Verified
<1>3. blk = 1 \/ (task = "imu" /\ blk = 2) => ~error
  BY Zenon DEF PlaceInv
<1>4. CASE task = "imu"
  <2>1. c = "accel" => Home(c) = 2 /\ First(c) = 5 /\ n = 6
    BY TableLengths DEF Home, First, Table
  <2>2. c = "gyro" => Home(c) = 4 /\ First(c) = 5 /\ n = 6
    BY TableLengths DEF Home, First, Table
  <2>3. c = "accel" \/ c = "gyro"
    BY <1>4 DEF Used
  <2> HIDE DEF n
  <2>4. CASE blk = 1
    BY <1>1, <1>2, <1>3, <1>4, <2>1, <2>2, <2>3, <2>4, Goes
  <2>5. CASE blk = 2
    BY <1>1, <1>2, <1>3, <1>4, <2>1, <2>2, <2>3, <2>5, Goes
  <2>6. CASE blk = 3
    BY <1>1, <1>2, <1>4, <2>1, <2>2, <2>3, <2>6, Goes
  <2>7. CASE blk = 4
    BY <1>1, <1>2, <1>4, <2>1, <2>2, <2>3, <2>7, Goes
  <2> QED BY <1>4, <2>4, <2>5, <2>6, <2>7, Goes
<1>5. CASE task = "cmps"
  <2>1. c = "mag" /\ Home(c) = 1 /\ First(c) = 4 /\ n = 4
    BY <1>5, TableLengths DEF Used, Home, First, Table
  <2> HIDE DEF n
  <2> QED BY <1>1, <1>2, <1>3, <1>5, <2>1, Goes
<1> QED BY <1>4, <1>5 DEF PlaceInv

-----------------------------------------------------------------------------
(* The steps. *)

\* A condition that a step proceeds with is true or false.
LEMMA ProceedCases ==
  ASSUME NEW x, Proceed(x)
  PROVE  \E ok \in BOOLEAN : Proceed(ok) /\ (ok <=> x)
<1>1. CASE x
  <2>1. Proceed(TRUE)
    BY <1>1, Zenon DEF Proceed
  <2> QED BY <1>1, <2>1
<1>2. CASE ~x
  <2>1. Proceed(FALSE)
    BY <1>2, Zenon DEF Proceed
  <2> QED BY <1>2, <2>1
<1> QED BY <1>1, <1>2

\* The registers of one chip change, those of the others stay.
LEMMA OneChip ==
  ASSUME RegsInv, NEW h \in Chip, NEW f, f = [r \in Registers(h) |-> f[r]],
         regs' = [regs EXCEPT ![h] = f]
  PROVE  /\ regs' = [c \in Chip |-> regs'[c]]
         /\ \A c \in Chip : regs'[c] = [r \in Registers(c) |-> regs'[c][r]]
         /\ regs'[h] = f
         /\ \A c \in Chip : c # h => regs'[c] = regs[c]
<1>1. regs = [c \in Chip |-> regs[c]] /\ \A c \in Chip : regs[c] = [r \in Registers(c) |-> regs[c][r]]
  BY DEF RegsInv
<1>2. regs' = [c \in Chip |-> IF c = h THEN f ELSE regs[c]]
  BY <1>1
<1>3. regs'[h] = f /\ \A c \in Chip : c # h => regs'[c] = regs[c]
  BY <1>2
<1>4. regs' = [c \in Chip |-> regs'[c]]
  BY <1>2
<1>5. ASSUME NEW c \in Chip
      PROVE  regs'[c] = [r \in Registers(c) |-> regs'[c][r]]
  <2>1. CASE c = h
    BY <1>3, <2>1
  <2>2. CASE c # h
    BY <1>1, <1>3, <2>2
  <2> QED BY <2>1, <2>2
<1> QED BY <1>3, <1>4, <1>5

\* After a loss of the supply or a reset.
LEMMA WipedChip ==
  ASSUME RegsInv, NEW h \in Chip, regs' = [regs EXCEPT ![h] = Wiped(h)]
  PROVE  /\ regs' = [c \in Chip |-> regs'[c]]
         /\ \A c \in Chip : regs'[c] = [r \in Registers(c) |-> regs'[c][r]]
         /\ \A c \in Chip : c # h => regs'[c] = regs[c]
         /\ regs'["accel"]["SELF_TEST"] \in {regs["accel"]["SELF_TEST"], Unset}
<1>1. Wiped(h) = [r \in Registers(h) |-> Wiped(h)[r]]
  BY DEF Wiped
<1>2. /\ regs' = [c \in Chip |-> regs'[c]]
      /\ \A c \in Chip : regs'[c] = [r \in Registers(c) |-> regs'[c][r]]
      /\ regs'[h] = Wiped(h)
      /\ \A c \in Chip : c # h => regs'[c] = regs[c]
  BY <1>1, OneChip
<1>3. "SELF_TEST" \in Registers("accel") /\ "accel" \in Chip
  BY DEF Registers, Chip
<1>4. h = "accel" => regs'["accel"]["SELF_TEST"] = Unset
  BY <1>2, <1>3 DEF Wiped
<1> QED BY <1>2, <1>3, <1>4

\* A step that writes no register of a table verifies nothing, and leaves the other
\* chip as it was verified.
LEMMA QuietVerified ==
  ASSUME SetupInv, pc = "init", ~Done, Now.op # "set", NEW ok \in BOOLEAN, Proceed(ok),
         task' = task, pc' = pc,
         \A c \in Chip : c # Here =>
           regs'[c] = regs[c] /\ (browned'[c] <=> browned[c]) /\ (blind'[c] <=> blind[c])
  PROVE  VerifiedInv'
<1>1. Used' = Used /\ Used \subseteq Chip
  BY DEF Used, Chip
<1> SUFFICES ASSUME NEW c \in Used, NEW i \in 1..Verified(c)' PROVE Right(c, i)'
  BY <1>1 DEF VerifiedInv
<1>2. PlaceInv
  BY DEF SetupInv
<1>3. CASE c = Here
  <2>1. ~(blk = Home(Here) /\ at >= First(Here))
    BY <1>2, StepWrites
  <2> QED BY <1>2, <1>3, <2>1, VerifiedMoves
<1>4. CASE c # Here
  <2>1. i \in 1..Verified(c)
    BY <1>2, <1>4, VerifiedMoves
  <2>2. Right(c, i)
    BY <2>1 DEF SetupInv, VerifiedInv
  <2>3. c \in Chip
    BY <1>1
  <2> QED BY <1>4, <2>2, <2>3 DEF Right
<1> QED BY <1>3, <1>4

\* It does not excite the accelerometer either.
LEMMA QuietCalmed ==
  ASSUME SetupInv, pc = "init", ~Done, Now.op # "set", NEW ok \in BOOLEAN, Proceed(ok),
         task' = task, pc' = pc, blind' = blind,
         regs'["accel"]["SELF_TEST"] \in {regs["accel"]["SELF_TEST"], Unset}
  PROVE  CalmedInv'
<1>1. PlaceInv
  BY DEF SetupInv
<1>2. blk = 1 \/ (task = "imu" /\ blk = 2) => ~error
  BY <1>1, Zenon DEF PlaceInv
<1> SUFFICES ASSUME Calmed' PROVE CalmedInv'
  BY DEF CalmedInv
<1>3. task = "imu" /\ ((blk' = 1 /\ at' >= 14) \/ blk' = 2 \/ (blk' > 2 /\ ~error'))
  BY DEF Calmed
<1>4. ~(blk = 1 /\ at = 13)
  BY <1>1, <1>3, StepWrites
<1>5. (blk = 1 /\ at >= 14) \/ blk = 2 \/ (blk > 2 /\ ~error)
  <2>1. CASE blk = 1
    BY <1>1, <1>3, <1>4, <2>1, Goes
  <2>2. CASE blk = 2
    BY <2>2
  <2>3. CASE blk = 3
    BY <1>1, <1>3, <2>3, Goes
  <2>4. CASE blk = 4
    BY <1>1, <1>3, <2>4, Goes
  <2> QED BY <1>1, <1>3, <2>1, <2>2, <2>3, <2>4, Goes
<1>6. Calmed
  BY <1>3, <1>5 DEF Calmed
<1>7. blind["accel"] \/ regs["accel"]["SELF_TEST"] \in {Unset, Off}
  BY <1>6 DEF SetupInv, CalmedInv
<1> QED BY <1>7 DEF CalmedInv

\* A step that is no register write, with all it preserves.
LEMMA QuietStep ==
  ASSUME SetupInv, pc = "init", ~Done, Now.op # "set", NEW x, Proceed(x),
         task' = task, pc' = pc, blind' = blind, RegsInv',
         \A c \in Chip : c # Here => regs'[c] = regs[c] /\ (browned'[c] <=> browned[c]),
         regs'["accel"]["SELF_TEST"] \in {regs["accel"]["SELF_TEST"], Unset}
  PROVE  SetupInv'
<1>1. PICK ok \in BOOLEAN : Proceed(ok)
  BY ProceedCases
<1>2. PlaceInv
  BY DEF SetupInv
<1>3. PlaceInv'
  BY <1>1, <1>2, PlaceMoves
<1>4. VerifiedInv'
  BY <1>1, QuietVerified
<1>5. CalmedInv'
  BY <1>1, QuietCalmed
<1> QED BY <1>3, <1>4, <1>5 DEF SetupInv

\* The chip id, the responses, the judgement and the trigger of a self test.
LEMMA ReadsOnly ==
  ASSUME SetupInv, Probe \/ Respond \/ Judge \/ Trigger
  PROVE  SetupInv'
<1>1. /\ pc = "init" /\ ~Done /\ Now.op # "set" /\ task' = task /\ pc' = pc
      /\ regs' = regs /\ browned' = browned /\ blind' = blind
  BY DEF Probe, Respond, Judge, Trigger, At, chips, trust
<1>2. PICK x : Proceed(x)
  BY DEF Probe, Respond, Judge, Trigger
<1>3. RegsInv'
  BY <1>1 DEF SetupInv, RegsInv
<1> QED BY <1>1, <1>2, <1>3, QuietStep

\* A soft reset or the reset pin.
LEMMA ResetStep ==
  ASSUME SetupInv, Reset
  PROVE  SetupInv'
<1>1. /\ pc = "init" /\ ~Done /\ Now.op # "set" /\ task' = task /\ pc' = pc
      /\ browned' = browned /\ blind' = blind /\ Proceed(TRUE)
      /\ regs' = regs \/ regs' = [regs EXCEPT ![Here] = Wiped(Here)]
  BY DEF Reset, At, trust
<1>2. RegsInv /\ Here \in Chip
  BY <1>1, StepPlace DEF SetupInv
<1>3. CASE regs' = regs
  <2>1. RegsInv'
    BY <1>1, <1>2, <1>3 DEF RegsInv
  <2> QED BY <1>1, <1>3, <2>1, QuietStep
<1>4. CASE regs' = [regs EXCEPT ![Here] = Wiped(Here)]
  <2>1. /\ regs' = [c \in Chip |-> regs'[c]]
        /\ \A c \in Chip : regs'[c] = [r \in Registers(c) |-> regs'[c][r]]
        /\ \A c \in Chip : c # Here => regs'[c] = regs[c]
        /\ regs'["accel"]["SELF_TEST"] \in {regs["accel"]["SELF_TEST"], Unset}
    BY <1>2, <1>4, WipedChip
  <2>2. RegsInv'
    BY <1>1, <1>2, <2>1 DEF RegsInv
  <2> QED BY <1>1, <2>1, <2>2, QuietStep
<1> QED BY <1>1, <1>3, <1>4

\* The comparison of the chip id.
LEMMA WhoStep ==
  ASSUME SetupInv, Who
  PROVE  SetupInv'
<1>1. /\ pc = "init" /\ ~Done /\ Now.op # "set" /\ task' = task /\ pc' = pc
      /\ regs' = regs /\ browned' = [browned EXCEPT ![Here] = FALSE] /\ blind' = blind
      /\ Proceed(res)
  BY DEF Who, At, chips
<1>2. RegsInv /\ Here \in Chip
  BY <1>1, StepPlace DEF SetupInv
<1>3. RegsInv'
  BY <1>1, <1>2 DEF RegsInv
<1>4. \A c \in Chip : c # Here => (browned'[c] <=> browned[c])
  BY <1>1, <1>2 DEF RegsInv
<1> QED BY <1>1, <1>3, <1>4, QuietStep

\* A poll of the gyroscope's self test.
LEMMA PollStep ==
  ASSUME SetupInv, Poll
  PROVE  SetupInv'
<1>1. /\ pc = "init" /\ ~Done /\ Now.op # "set" /\ task' = task /\ pc' = pc
      /\ regs' = regs /\ browned' = browned /\ blind' = blind
      /\ UNCHANGED <<error, blk, at>> \/ \E x : Proceed(x)
  BY DEF Poll, At, chips, trust
<1>2. RegsInv'
  BY <1>1 DEF SetupInv, RegsInv
<1>3. CASE \E x : Proceed(x)
  BY <1>1, <1>2, <1>3, QuietStep
<1>4. CASE UNCHANGED <<error, blk, at>>
  <2>1. PlaceInv' /\ VerifiedInv' /\ CalmedInv'
    BY <1>1, <1>4 DEF SetupInv, PlaceInv, VerifiedInv, CalmedInv, Calmed, Blocks, Used, Verified,
                      Right
  <2> QED BY <1>2, <2>1 DEF SetupInv
<1> QED BY <1>1, <1>3, <1>4

\* The rows of a table name different registers, none of them SELF_TEST.
LEMMA TableRows ==
  ASSUME NEW c \in Chip, NEW i \in 1..Len(Table(c))
  PROVE  /\ Table(c)[i][1] \in Registers(c) /\ Table(c)[i][1] # "SELF_TEST"
         /\ Table(c)[i][2] # Noise
         /\ \A j \in 1..Len(Table(c)) : j # i => Table(c)[j][1] # Table(c)[i][1]
<1>1. Table(c)[i][1] \in Registers(c)
  BY DEF Registers
<1>2. CASE c = "accel"
  <2>1. Table(c) = AccelTable /\ Len(AccelTable) = 6
    BY <1>2, TableLengths DEF Table
  <2>2. \A j \in 1..6 : j = 1 \/ j = 2 \/ j = 3 \/ j = 4 \/ j = 5 \/ j = 6
    OBVIOUS
  <2> QED BY <1>1, <2>1, <2>2 DEF AccelTable, Noise
<1>3. CASE c = "gyro"
  <2>1. Table(c) = GyroTable /\ Len(GyroTable) = 6
    BY <1>3, TableLengths DEF Table
  <2>2. \A j \in 1..6 : j = 1 \/ j = 2 \/ j = 3 \/ j = 4 \/ j = 5 \/ j = 6
    OBVIOUS
  <2> QED BY <1>1, <2>1, <2>2 DEF GyroTable, Noise
<1>4. CASE c = "mag"
  <2>1. Table(c) = MagTable /\ Len(MagTable) = 4
    BY <1>4, TableLengths DEF Table
  <2>2. \A j \in 1..4 : j = 1 \/ j = 2 \/ j = 3 \/ j = 4
    OBVIOUS
  <2> QED BY <1>1, <2>1, <2>2 DEF MagTable, Noise
<1> QED BY <1>2, <1>3, <1>4 DEF Chip

\* What a register write that is read back leaves: the step goes on only if the
\* register holds the value, or if the read failed and returned what could be it.
LEMMA WriteFacts ==
  ASSUME SetupInv, WriteAndCheck
  PROVE  /\ RegsInv'
         /\ \A c \in Chip : c # Here => regs'[c] = regs[c] /\ (blind'[c] <=> blind[c])
         /\ blind[Here] => blind'[Here]
         /\ \A r \in Registers(Here) : r # Now.reg => regs'[Here][r] = regs[Here][r]
         /\ \E ok \in BOOLEAN :
              /\ Proceed(ok)
              /\ ok => \/ regs'[Here][Now.reg] = Now.val
                       \/ blind'[Here] /\ (Here = "mag" \/ Now.val = 0 \/ Now.val = Noise)
<1>1. /\ pc = "init" /\ ~Done /\ browned' = browned
  BY DEF WriteAndCheck, At
<1>2. RegsInv /\ Here \in Chip
  BY <1>1, StepPlace DEF SetupInv
<1>3. PICK took \in Works(Here), read \in Works(Here) :
        /\ regs' = IF took THEN [regs EXCEPT ![Here][Now.reg] = Now.val] ELSE regs
        /\ Blinded(read)
        /\ \E v \in Read(Here, regs'[Here][Now.reg], Now.val, read) : Proceed(v = Now.val)
  BY DEF WriteAndCheck
<1>4. read \in BOOLEAN
  BY DEF Works
<1> DEFINE f == [regs[Here] EXCEPT ![Now.reg] = Now.val]
<1>5. regs' = [regs EXCEPT ![Here] = f] \/ regs' = regs
  BY <1>3
<1>6. /\ f = [r \in Registers(Here) |-> f[r]]
      /\ \A r \in Registers(Here) : r # Now.reg => f[r] = regs[Here][r]
  <2>1. regs[Here] = [r \in Registers(Here) |-> regs[Here][r]]
    BY <1>2 DEF RegsInv
  <2> QED BY <2>1
<1> HIDE DEF f
<1>7. /\ regs' = [c \in Chip |-> regs'[c]]
      /\ \A c \in Chip : regs'[c] = [r \in Registers(c) |-> regs'[c][r]]
      /\ \A c \in Chip : c # Here => regs'[c] = regs[c]
      /\ \A r \in Registers(Here) : r # Now.reg => regs'[Here][r] = regs[Here][r]
  <2>1. CASE regs' = [regs EXCEPT ![Here] = f]
    <3>1. /\ regs' = [c \in Chip |-> regs'[c]]
          /\ \A c \in Chip : regs'[c] = [r \in Registers(c) |-> regs'[c][r]]
          /\ regs'[Here] = f
          /\ \A c \in Chip : c # Here => regs'[c] = regs[c]
      BY <1>2, <1>6, <2>1, OneChip
    <3> QED BY <1>6, <3>1
  <2>2. CASE regs' = regs
    BY <1>2, <2>2 DEF RegsInv
  <2> QED BY <1>5, <2>1, <2>2
<1>8. blind' = [blind EXCEPT ![Here] = blind[Here] \/ ~read] /\ blind \in [Chip -> BOOLEAN]
  BY <1>2, <1>3 DEF Blinded, RegsInv
<1>9. /\ blind' \in [Chip -> BOOLEAN]
      /\ \A c \in Chip : c # Here => (blind'[c] <=> blind[c])
      /\ blind'[Here] <=> (blind[Here] \/ ~read)
  BY <1>2, <1>8
<1>10. RegsInv'
  BY <1>1, <1>2, <1>7, <1>9 DEF RegsInv
<1>11. \E ok \in BOOLEAN :
         /\ Proceed(ok)
         /\ ok => \/ regs'[Here][Now.reg] = Now.val
                  \/ blind'[Here] /\ (Here = "mag" \/ Now.val = 0 \/ Now.val = Noise)
  <2>1. PICK v \in Read(Here, regs'[Here][Now.reg], Now.val, read) : Proceed(v = Now.val)
    BY <1>3
  <2>2. PICK ok \in BOOLEAN : Proceed(ok) /\ (ok <=> v = Now.val)
    BY <2>1, ProceedCases
  <2>3. read => v = regs'[Here][Now.reg]
    BY DEF Read
  <2>4. ~read => v \in (IF Here = "mag" THEN {Now.val, Noise} ELSE {0, Noise})
    BY DEF Read, Failed
  <2> QED BY <1>4, <1>9, <2>2, <2>3, <2>4
<1> QED BY <1>7, <1>9, <1>10, <1>11

\* A register write of the set-up.
LEMMA WriteStep ==
  ASSUME SetupInv, WriteAndCheck
  PROVE  SetupInv'
<1>1. /\ pc = "init" /\ ~Done /\ browned' = browned /\ task' = task /\ pc' = pc
  BY DEF WriteAndCheck, At
<1>2. PlaceInv /\ RegsInv /\ VerifiedInv /\ CalmedInv
  BY DEF SetupInv
<1>3. /\ RegsInv'
      /\ \A c \in Chip : c # Here => regs'[c] = regs[c] /\ (blind'[c] <=> blind[c])
      /\ blind[Here] => blind'[Here]
      /\ \A r \in Registers(Here) : r # Now.reg => regs'[Here][r] = regs[Here][r]
  BY WriteFacts
<1>4. PICK ok \in BOOLEAN :
        /\ Proceed(ok)
        /\ ok => \/ regs'[Here][Now.reg] = Now.val
                 \/ blind'[Here] /\ (Here = "mag" \/ Now.val = 0 \/ Now.val = Noise)
  BY WriteFacts
<1>5. PlaceInv'
  BY <1>1, <1>2, <1>4, PlaceMoves
<1>6. Here \in Chip /\ Here \in Used
  BY <1>1, <1>2, StepPlace
<1>7. VerifiedInv'
  <2>1. Used' = Used /\ Used \subseteq Chip
    BY <1>1 DEF Used, Chip
  <2> SUFFICES ASSUME NEW c \in Used, NEW i \in 1..Verified(c)' PROVE Right(c, i)'
    BY <2>1 DEF VerifiedInv
  <2>2. c \in Chip
    BY <2>1
  <2>3. CASE c # Here
    <3>1. i \in 1..Verified(c)
      BY <1>1, <1>2, <1>4, <2>3, VerifiedMoves
    <3>2. Right(c, i)
      BY <1>2, <3>1 DEF VerifiedInv
    <3> QED BY <1>1, <1>3, <2>2, <2>3, <3>2 DEF Right
  <2>4. CASE c = Here
    <3>1. blk = Home(Here) /\ at >= First(Here) /\ ok
      BY <1>1, <1>2, <1>4, <2>4, VerifiedMoves
    <3> DEFINE n == at - First(Here) + 1
    <3>2. n \in 1..Len(Table(Here)) /\ Now.reg = Table(Here)[n][1] /\ Now.val = Table(Here)[n][2]
      BY <1>1, <1>2, <3>1, StepWrites
    <3>3. i \in 1..Verified(c) \/ i = n
      BY <1>1, <1>2, <1>4, <2>4, <3>1, VerifiedMoves
    <3> HIDE DEF n
    <3>4. CASE i = n
      <4>1. Table(Here)[n][2] # Noise
        BY <1>6, <3>2, TableRows
      <4> QED BY <1>4, <2>4, <3>1, <3>2, <3>4, <4>1 DEF Right
    <3>5. CASE i \in 1..Verified(c) /\ i # n
      <4>1. Right(Here, i)
        BY <1>2, <1>6, <2>4, <3>5 DEF VerifiedInv
      <4>2. i \in 1..Len(Table(Here))
        <5>1. at \in Int /\ First(Here) \in Int /\ Len(Table(Here)) \in Int
          BY <1>1, <1>2, <1>6, StepPlace, TableLengths DEF First, Table, Chip
        <5>2. ~(blk < Home(c))
          BY <1>6, <2>4, <3>1 DEF Home, Chip
        <5>3. Verified(c) = at - First(Here)
          BY <1>1, <2>4, <3>1, <5>2 DEF Verified
        <5> QED BY <3>2, <3>5, <5>1, <5>3 DEF n
      <4>3. Table(Here)[i][1] \in Registers(Here) /\ Table(Here)[i][1] # Now.reg
        BY <1>6, <3>2, <3>5, <4>2, TableRows
      <4>4. regs'[Here][Table(Here)[i][1]] = regs[Here][Table(Here)[i][1]]
        BY <1>3, <4>3
      <4> QED BY <1>1, <1>3, <2>4, <4>1, <4>4 DEF Right
    <3> QED BY <3>3, <3>4, <3>5
  <2> QED BY <2>3, <2>4
<1>8. CalmedInv'
  <2> SUFFICES ASSUME Calmed' PROVE CalmedInv'
    BY DEF CalmedInv
  <2>1. task = "imu" /\ ((blk' = 1 /\ at' >= 14) \/ blk' = 2 \/ (blk' > 2 /\ ~error'))
    BY <1>1 DEF Calmed
  <2>2. "accel" \in Chip /\ "SELF_TEST" \in Registers("accel")
    BY DEF Chip, Registers
  <2>3. blk = 1 \/ (task = "imu" /\ blk = 2) => ~error
    BY <1>2, Zenon DEF PlaceInv
  <2>4. CASE blk = 1
    <3>1. Here = "accel" /\ ok /\ at >= 13 /\ at \in Nat
      BY <1>1, <1>2, <1>4, <2>1, <2>4, Goes
    <3>2. Now.op = "set"
      BY DEF WriteAndCheck, At
    <3>3. at = 13
      BY <1>1, <1>2, <2>1, <2>4, <3>1, <3>2, StepWrites
    <3>4. Now.reg = "SELF_TEST" /\ Now.val = Off
      BY <1>1, <1>2, <2>1, <2>4, <3>3, StepWrites
    <3> QED BY <1>4, <3>1, <3>4 DEF CalmedInv
  <2>5. CASE blk = 2
    <3>1. Here = "accel" /\ Home(Here) = 2
      BY <1>1, <1>2, <1>4, <2>1, <2>5, Goes DEF Home
    <3>2. Now.op = "set"
      BY DEF WriteAndCheck, At
    <3> DEFINE n == at - First(Here) + 1
    <3>3. at >= First(Here)
      <4>1. at \in Int /\ First(Here) \in Int
        BY <1>1, <1>2, <1>4, <2>1, <2>5, Goes DEF First
      <4> QED BY <1>1, <1>2, <2>5, <3>1, <3>2, <4>1, StepWrites
    <3>4. n \in 1..Len(Table(Here)) /\ Now.reg = Table(Here)[n][1]
      BY <1>1, <1>2, <2>5, <3>1, <3>3, StepWrites
    <3> HIDE DEF n
    <3>5. Now.reg # "SELF_TEST"
      BY <1>6, <3>4, TableRows
    <3>6. blind["accel"] \/ regs["accel"]["SELF_TEST"] \in {Unset, Off}
      BY <1>1, <1>2, <2>1, <2>5 DEF CalmedInv, Calmed
    <3> QED BY <1>3, <2>2, <3>1, <3>5, <3>6 DEF CalmedInv
  <2>6. CASE blk = 3 \/ blk = 4
    <3>1. Here = "gyro" /\ ~error /\ blk > 2
      BY <1>1, <1>2, <1>4, <2>1, <2>6, Goes
    <3>2. blind["accel"] \/ regs["accel"]["SELF_TEST"] \in {Unset, Off}
      BY <1>1, <1>2, <2>1, <3>1 DEF CalmedInv, Calmed
    <3> QED BY <1>3, <2>2, <3>1, <3>2 DEF CalmedInv
  <2> QED BY <1>1, <1>2, <1>4, <2>1, <2>4, <2>5, <2>6, Goes
<1> QED BY <1>3, <1>5, <1>7, <1>8 DEF SetupInv

\* What the tasks do outside the set-up changes no register, no history and no
\* place in it.
LEMMA RunningSteps ==
  ASSUME SetupInv, pc' = pc \/ (pc \in {"wait", "read"} /\ pc' \in {"wait", "read"}),
         UNCHANGED <<task, regs, blk, at, error, browned, blind>>
  PROVE  SetupInv'
<1>1. Blocks' = Blocks /\ Used' = Used
  BY DEF Blocks, Used
<1>2. PlaceInv'
  BY <1>1 DEF SetupInv, PlaceInv
<1>3. RegsInv'
  BY DEF SetupInv, RegsInv
<1>4. \A c \in Used : Verified(c)' = Verified(c)
  BY DEF Verified
<1>5. VerifiedInv'
  <2> SUFFICES ASSUME NEW c \in Used, NEW i \in 1..Verified(c)' PROVE Right(c, i)'
    BY <1>1 DEF VerifiedInv
  <2>1. Right(c, i)
    BY <1>4 DEF SetupInv, VerifiedInv
  <2> QED BY <2>1 DEF Right
<1>6. CalmedInv'
  BY DEF SetupInv, CalmedInv, Calmed
<1> QED BY <1>2, <1>3, <1>5, <1>6 DEF SetupInv

\* A chip loses its supply.
LEMMA BrownoutStep ==
  ASSUME SetupInv, NEW h \in Used, Brownout(h)
  PROVE  SetupInv'
<1>1. /\ regs' = [regs EXCEPT ![h] = Wiped(h)] /\ browned' = [browned EXCEPT ![h] = TRUE]
      /\ UNCHANGED <<task, pc, blk, at, error, blind>>
  BY DEF Brownout
<1>2. Blocks' = Blocks /\ Used' = Used /\ Used \subseteq Chip
  BY <1>1 DEF Blocks, Used, Chip
<1>3. RegsInv /\ h \in Chip
  BY <1>2 DEF SetupInv
<1>4. /\ regs' = [c \in Chip |-> regs'[c]]
      /\ \A c \in Chip : regs'[c] = [r \in Registers(c) |-> regs'[c][r]]
      /\ \A c \in Chip : c # h => regs'[c] = regs[c]
      /\ regs'["accel"]["SELF_TEST"] \in {regs["accel"]["SELF_TEST"], Unset}
  BY <1>1, <1>3, WipedChip
<1>5. /\ browned' \in [Chip -> BOOLEAN] /\ browned'[h]
      /\ \A c \in Chip : c # h => (browned'[c] <=> browned[c])
  BY <1>1, <1>3 DEF RegsInv
<1>6. RegsInv'
  BY <1>1, <1>3, <1>4, <1>5 DEF RegsInv
<1>7. PlaceInv'
  BY <1>1, <1>2 DEF SetupInv, PlaceInv
<1>8. VerifiedInv'
  <2> SUFFICES ASSUME NEW c \in Used, NEW i \in 1..Verified(c)' PROVE Right(c, i)'
    BY <1>2 DEF VerifiedInv
  <2>1. Verified(c)' = Verified(c)
    BY <1>1 DEF Verified
  <2>2. Right(c, i)
    BY <2>1 DEF SetupInv, VerifiedInv
  <2>3. CASE c = h
    BY <1>5, <2>3 DEF Right
  <2>4. CASE c # h
    BY <1>1, <1>2, <1>4, <1>5, <2>2, <2>4 DEF Right
  <2> QED BY <2>3, <2>4
<1>9. CalmedInv'
  BY <1>1, <1>4 DEF SetupInv, CalmedInv, Calmed
<1> QED BY <1>6, <1>7, <1>8, <1>9 DEF SetupInv

\* The set-up returns.
LEMMA FinishStep ==
  ASSUME SetupInv, Finish
  PROVE  SetupInv'
<1>1. /\ pc = "init" /\ Done /\ blk' = 1 /\ ~error' /\ error' \in BOOLEAN
      /\ UNCHANGED <<task, regs, at, browned, blind>>
      /\ (error /\ pc' = "delay") \/ (~error /\ pc' = "wait")
  BY DEF Finish, chips, trust
<1>2. Blocks' = Blocks /\ Used' = Used
  BY <1>1 DEF Blocks, Used
<1>3. PlaceInv
  BY DEF SetupInv
<1>4. at = 1 /\ blk > Len(Blocks) /\ task \in {"imu", "cmps"}
  BY <1>1, <1>3 DEF PlaceInv, Done
<1>5. RegsInv'
  BY <1>1 DEF SetupInv, RegsInv
<1>6. /\ task = "imu" => blk = 5 /\ Len(Blocks) = 4 /\ Len(Blocks[1].steps) = 16
      /\ task = "cmps" => blk = 2 /\ Len(Blocks) = 1 /\ Len(Blocks[1].steps) = 7
  <2>1. blk \in 1..(Len(Blocks) + 1)
    BY <1>3 DEF PlaceInv
  <2>2. CASE task = "imu"
    <3>1. Len(Blocks) = 4 /\ Len(Blocks[1].steps) = 16
      BY <2>2, FunctionLengths
    <3>2. blk = 5
      BY <1>4, <2>1, <3>1
    <3> QED BY <2>2, <3>1, <3>2
  <2>3. CASE task = "cmps"
    <3>1. Len(Blocks) = 1 /\ Len(Blocks[1].steps) = 7
      BY <2>3, FunctionLengths
    <3>2. blk = 2
      BY <1>4, <2>1, <3>1
    <3> QED BY <2>3, <3>1, <3>2
  <2> QED BY <1>4, <2>2, <2>3
<1>7. PlaceInv'
  <2>1. 1 \in 1..(Len(Blocks) + 1) /\ ~(1 > Len(Blocks)) /\ 1 \in 1..Len(Blocks[1].steps)
    <3>1. CASE Len(Blocks) = 4 /\ Len(Blocks[1].steps) = 16
      BY <3>1
    <3>2. CASE Len(Blocks) = 1 /\ Len(Blocks[1].steps) = 7
      BY <3>2
    <3> QED BY <1>4, <1>6, <3>1, <3>2
  <2>2. blk' = 1 /\ at' = 1 /\ pc' \in {"delay", "wait"} /\ task' \in {"imu", "cmps"}
    BY <1>1, <1>4
  <2>3. at' \in 1..Len(Blocks[blk'].steps)
    BY <2>1, <2>2
  <2> QED BY <1>1, <1>2, <2>1, <2>2, <2>3 DEF PlaceInv
<1>8. VerifiedInv'
  <2> SUFFICES ASSUME NEW c \in Used, NEW i \in 1..Verified(c)' PROVE Right(c, i)'
    BY <1>2 DEF VerifiedInv
  <2>1. ~(blk < Home(c)) /\ blk # Home(c)
    <3>1. CASE task = "imu"
      BY <1>6, <3>1 DEF Home, Used
    <3>2. CASE task = "cmps"
      BY <1>6, <3>2 DEF Home, Used
    <3> QED BY <1>4, <3>1, <3>2
  <2>2. pc' = "delay" => Verified(c)' = 0
    BY DEF Verified
  <2>3. pc' = "wait" => Verified(c)' = Len(Table(c))
    BY DEF Verified
  <2>4. ~error => Verified(c) = Len(Table(c))
    BY <1>1, <2>1 DEF Verified
  <2>5. Right(c, i)
    BY <1>1, <2>2, <2>3, <2>4 DEF SetupInv, VerifiedInv
  <2> QED BY <1>1, <2>5 DEF Right
<1>9. CalmedInv'
  <2> SUFFICES ASSUME Calmed' PROVE CalmedInv'
    BY DEF CalmedInv
  <2>1. task = "imu" /\ pc' = "wait" /\ ~error
    BY <1>1 DEF Calmed
  <2>2. Calmed
    BY <1>1, <1>6, <2>1 DEF Calmed
  <2> QED BY <1>1, <2>2 DEF SetupInv, CalmedInv
<1> QED BY <1>5, <1>7, <1>8, <1>9 DEF SetupInv

\* The next attempt begins.
LEMMA RetryStep ==
  ASSUME SetupInv, Retry
  PROVE  SetupInv'
<1>1. /\ pc = "delay" /\ pc' = "init" /\ blind' = [c \in Chip |-> FALSE]
      /\ UNCHANGED <<task, regs, blk, at, error, browned>>
  BY DEF Retry, chips, setup
<1>2. Blocks' = Blocks /\ Used' = Used
  BY <1>1 DEF Blocks, Used
<1>3. blk = 1 /\ at = 1
  BY <1>1 DEF SetupInv, PlaceInv
<1>4. RegsInv'
  BY <1>1 DEF SetupInv, RegsInv
<1>5. PlaceInv'
  BY <1>1, <1>2, <1>3 DEF SetupInv, PlaceInv
<1>6. VerifiedInv'
  <2> SUFFICES ASSUME NEW c \in Used, NEW i \in 1..Verified(c)' PROVE FALSE
    BY <1>2 DEF VerifiedInv
  <2>1. Used = {"accel", "gyro"} \/ Used = {"mag"}
    BY DEF Used
  <2>2. CASE c = "mag"
    <3>1. Verified(c)' = 1 - 4
      BY <1>1, <1>3, <2>2 DEF Verified, Home, First
    <3> QED BY <3>1
  <2>3. CASE c = "accel" \/ c = "gyro"
    <3>1. Verified(c)' = 0
      BY <1>1, <1>3, <2>3 DEF Verified, Home
    <3> QED BY <3>1
  <2> QED BY <2>1, <2>2, <2>3
<1>7. CalmedInv'
  BY <1>1, <1>3 DEF CalmedInv, Calmed
<1> QED BY <1>4, <1>5, <1>6, <1>7 DEF SetupInv

\* The set-up of a sensor is where its verified rows say, after every step of
\* either task, failed transfers and losses of the supply.
THEOREM SetupInvariant == Spec => []SetupInv
<1>1. Init => SetupInv
  <2> SUFFICES ASSUME Init PROVE SetupInv
    OBVIOUS
  <2>1. /\ task \in {"imu", "cmps"} /\ regs = [c \in Chip |-> Wiped(c)] /\ pc = "init"
        /\ blk = 1 /\ at = 1 /\ ~error /\ error \in BOOLEAN
        /\ browned = [c \in Chip |-> FALSE] /\ blind = [c \in Chip |-> FALSE]
    BY DEF Init
  <2>2. /\ task = "imu" => Len(Blocks) = 4 /\ Len(Blocks[1].steps) = 16
        /\ task = "cmps" => Len(Blocks) = 1 /\ Len(Blocks[1].steps) = 7
    BY FunctionLengths
  <2>3. PlaceInv
    <3>1. 1 \in 1..(Len(Blocks) + 1) /\ ~(1 > Len(Blocks)) /\ 1 \in 1..Len(Blocks[1].steps)
      <4>1. CASE Len(Blocks) = 4 /\ Len(Blocks[1].steps) = 16
        BY <4>1
      <4>2. CASE Len(Blocks) = 1 /\ Len(Blocks[1].steps) = 7
        BY <4>2
      <4> QED BY <2>1, <2>2, <4>1, <4>2
    <3>2. at \in 1..Len(Blocks[blk].steps)
      BY <2>1, <3>1
    <3> QED BY <2>1, <3>1, <3>2 DEF PlaceInv
  <2>4. RegsInv
    BY <2>1 DEF RegsInv, Wiped
  <2>5. VerifiedInv
    <3> SUFFICES ASSUME NEW c \in Used, NEW i \in 1..Verified(c) PROVE FALSE
      BY DEF VerifiedInv
    <3>1. c = "accel" \/ c = "gyro" \/ c = "mag"
      BY DEF Used
    <3>2. CASE c = "mag"
      <4>1. Verified(c) = 1 - 4
        BY <2>1, <3>2 DEF Verified, Home, First
      <4> QED BY <4>1
    <3>3. CASE c = "accel" \/ c = "gyro"
      <4>1. Verified(c) = 0
        BY <2>1, <3>3 DEF Verified, Home
      <4> QED BY <4>1
    <3> QED BY <3>1, <3>2, <3>3
  <2>6. CalmedInv
    BY <2>1 DEF CalmedInv, Calmed
  <2> QED BY <2>3, <2>4, <2>5, <2>6 DEF SetupInv
<1>2. SetupInv /\ [Next]_vars => SetupInv'
  <2> SUFFICES ASSUME SetupInv, [Next]_vars PROVE SetupInv'
    OBVIOUS
  <2>1. CASE Probe \/ Respond \/ Judge \/ Trigger
    BY <2>1, ReadsOnly
  <2>2. CASE Reset
    BY <2>2, ResetStep
  <2>3. CASE Who
    BY <2>3, WhoStep
  <2>4. CASE WriteAndCheck
    BY <2>4, WriteStep
  <2>5. CASE Poll
    BY <2>5, PollStep
  <2>6. CASE Finish
    BY <2>6, FinishStep
  <2>7. CASE Retry
    BY <2>7, RetryStep
  <2>8. CASE Hardware
    BY <2>8, BrownoutStep DEF Hardware
  <2>9. CASE ulTaskNotifyTake \/ osThreadNew \/ HAL_GPIO_EXTI_Callback \/ UNCHANGED vars
    <3>1. /\ pc' = pc \/ (pc \in {"wait", "read"} /\ pc' \in {"wait", "read"})
          /\ UNCHANGED <<task, regs, blk, at, error, browned, blind>>
      BY <2>9 DEF ulTaskNotifyTake, osThreadNew, HAL_GPIO_EXTI_Callback, vars, chips, setup, trust
    <3> QED BY <3>1, RunningSteps
  <2>10. CASE \E raw \in Raws : Sense(raw)
    <3>1. /\ pc' = pc \/ (pc \in {"wait", "read"} /\ pc' \in {"wait", "read"})
          /\ UNCHANGED <<task, regs, blk, at, error, browned, blind>>
      BY <2>10 DEF Sense, chips, setup, trust
    <3> QED BY <3>1, RunningSteps
  <2> QED BY <2>1, <2>2, <2>3, <2>4, <2>5, <2>6, <2>7, <2>8, <2>9, <2>10 DEF Next, Task, Setup
<1> QED BY <1>1, <1>2, PTL DEF Spec

\* sensorExternInterrupt and sensorPeriodical leave their set-up loops only with
\* chips that hold their tables and are not under self-test excitation, up to what
\* failed reads hide, however many transfers fail and attempts are cut off.
THEOREM SensorsConfigured == Spec => []RunsConfigured
<1>1. SetupInv => RunsConfigured
  <2> SUFFICES ASSUME SetupInv, Running, NEW c \in Used, ~browned[c], ~(blind[c] /\ c = "mag")
               PROVE  /\ \A i \in Wrong(c) : blind[c] /\ Table(c)[i][2] = 0
                      /\ c = "accel" /\ ~blind[c] => regs[c]["SELF_TEST"] \in {Unset, Off}
    BY DEF RunsConfigured
  <2>1. pc = "wait" \/ pc = "read"
    BY DEF Running
  <2>2. Verified(c) = Len(Table(c))
    BY <2>1 DEF Verified
  <2>3. \A i \in 1..Len(Table(c)) : Right(c, i)
    BY <2>2 DEF SetupInv, VerifiedInv
  <2>4. \A i \in Wrong(c) : blind[c] /\ Table(c)[i][2] = 0
    BY <2>3 DEF Wrong, Right
  <2>5. c = "accel" => task = "imu"
    BY DEF Used
  <2>6. c = "accel" /\ ~blind[c] => regs[c]["SELF_TEST"] \in {Unset, Off}
    BY <2>1, <2>5 DEF SetupInv, CalmedInv, Calmed
  <2> QED BY <2>4, <2>6
<1> QED BY <1>1, SetupInvariant, PTL
=============================================================================
