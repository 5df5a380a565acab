------------------------------ MODULE Sensors ------------------------------
(***************************************************************************)
(* The sensor tasks: sensorExternInterrupt (a BMI088, which is two chips   *)
(* on the SPI) and sensorPeriodical (an IST8310 on the I2C).  A task tries *)
(* to set up its sensor until that succeeds, then waits for the data-ready *)
(* interrupts and reads a sample for each; the BMI088 is heated.           *)
(*                                                                         *)
(* The set-up functions are straight lines with early returns, so each is  *)
(* the sequence of its steps.  The tasks share nothing: task tells which   *)
(* of them the behaviour is about.  Transfers may fail and the chips may   *)
(* lose their supply for a moment.                                         *)
(***************************************************************************)
EXTENDS Pid, Sequences

CONSTANTS
  MaxFaults,   \* bound: faults of the hardware
  MaxRetry,    \* 10: polls of the gyroscope's self test
  MaxPending,  \* bound on the notifications of a task
  Heater,      \* coefficients of the heater's controller, times Scale
  Scale,
  Command,     \* the temperature it keeps, in units of the sensor
  Offset,      \* the temperature that the raw value 0 stands for
  RawWidth,    \* 11: bits of a raw temperature
  Raws,        \* raw temperatures; a failed transfer reads as 0
  PwmWidth,    \* 16: bits of the compare register
  MaxSum       \* bound on what the controller has integrated

ASSUME SensorAssumption ==
  /\ MaxFaults \in Nat
  /\ MaxRetry \in Nat \ {0} /\ MaxPending \in Nat /\ MaxSum \in Nat
  /\ Heater \in Coeff /\ Scale \in Nat \ {0}
  /\ Command \in Int /\ Offset \in Int
  /\ Raws \subseteq 0 .. 2^RawWidth - 1
  /\ RawWidth \in Nat \ {0} /\ PwmWidth \in Nat \ {0}

\* The heater is a PidControl(1600, 0.2, 0, 40), which has no limits.
ASSUME HeaterAssumption ==
  /\ Heater.kp >= 0 /\ Heater.ki >= 0 /\ Heater.kd >= 0
  /\ Heater.k_limit = 0

\* The compare register has a value; a law of exponents, written out because the
\* provers know none.
ASSUME RegisterAssumption == 2^PwmWidth \in Nat \ {0}

Chip  == {"accel", "gyro", "mag"}
Unset == -1    \* a register after a reset: no value that is written
Noise == -2    \* what a floating bus reads as
Id    == 30    \* the chip id

\* The register tables.
AccelSelfTestTable == <<<<"CONF", 172>>, <<"PWR_CTRL", 4>>, <<"RANGE", 3>>, <<"PWR_CONF", 0>>>>
AccelTable == <<<<"PWR_CTRL", 4>>, <<"PWR_CONF", 0>>, <<"CONF", 171>>, <<"RANGE", 0>>,
                <<"INT1_IO_CTRL", 8>>, <<"INT_MAP_DATA", 4>>>>
GyroTable  == <<<<"RANGE", 0>>, <<"BANDWIDTH", 130>>, <<"LPM1", 0>>, <<"CTRL", 128>>,
                <<"INT3_INT4_IO_CONF", 0>>, <<"INT3_INT4_IO_MAP", 1>>>>
MagTable   == <<<<"0B", 8>>, <<"41", 9>>, <<"42", 192>>, <<"0A", 11>>>>
Positive == 13
Negative == 9
Off      == 0

Table(c) == CASE c = "accel" -> AccelTable [] c = "gyro" -> GyroTable [] c = "mag" -> MagTable

Registers(c) == {Table(c)[i][1] : i \in 1..Len(Table(c))}
                  \union (IF c = "accel" THEN {"SELF_TEST"} ELSE {})

\* What the self test of the gyroscope may leave: running, passed, failed.
Bist == {"running", "passed", "failed"}

Step(op)   == [op |-> op, reg |-> "", val |-> 0]
Set(r, v)  == [op |-> "set", reg |-> r, val |-> v]
Sets(t)    == [i \in 1..Len(t) |-> Set(t[i][1], t[i][2])]
Contact    == <<Step("probe"), Step("reset"), Step("probe")>>

bmi088_accel_self_test ==
  Contact \o <<Step("who")>> \o Sets(AccelSelfTestTable)
    \o <<Set("SELF_TEST", Positive), Step("respond"), Set("SELF_TEST", Negative), Step("respond"),
         Set("SELF_TEST", Off), Step("reset"), Step("judge"), Step("probe")>>

bmi088_accel_init == Contact \o <<Step("who")>> \o Sets(AccelTable)

bmi088_gyro_self_test == Contact \o <<Step("trigger"), Step("poll")>>

bmi088_gyro_init == Contact \o <<Step("who")>> \o Sets(GyroTable)

deviceIst8310Init ==
  <<[chip |-> "mag", fail |-> 2,
     steps |-> <<Step("pin"), Step("probe"), Step("who")>> \o Sets(MagTable)]>>

\* Each chip's init needs its self test; the gyroscope is tried in any case.
deviceBmi088Init ==
  <<[chip |-> "accel", fail |-> 3, steps |-> bmi088_accel_self_test],
    [chip |-> "accel", fail |-> 3, steps |-> bmi088_accel_init],
    [chip |-> "gyro",  fail |-> 5, steps |-> bmi088_gyro_self_test],
    [chip |-> "gyro",  fail |-> 5, steps |-> bmi088_gyro_init]>>

-----------------------------------------------------------------------------
VARIABLES
  task,     \* "imu" or "cmps"
  faults,   \* faults of the hardware that may still come
  regs,     \* the registers of the chips
  asleep,   \* the accelerometer after a reset: its first transfer is lost
  pc,       \* "init", "delay", "wait" or "read"
  blk, at,  \* the next step of the set-up
  res,      \* the chip id read last was right
  resp,     \* self_test_accel
  bist,     \* the gyroscope's self test
  retry,    \* polls of it
  error,    \* a step of the attempt failed
  handle,   \* defaultTask has stored the task's handle
  pending,  \* the task's notification value
  pid,      \* bmi088_temperature
  heat,     \* the compare register of the heater
  browned,  \* history: the chip lost its supply after its last who-am-I
  blind,    \* history: a register of the chip was read back by a failed
            \* transfer in the present attempt
  cold,     \* history: a temperature below Command was read
  warm      \* history: one above Command was read

chips   == <<regs, asleep>>
setup   == <<blk, at, res, resp, bist, retry, error>>
notes   == <<handle, pending>>
heating == <<pid, heat, cold, warm>>
trust   == <<browned, blind>>
vars == <<task, faults, chips, pc, setup, notes, heating, trust>>

Wiped(c) == [r \in Registers(c) |-> Unset]

Init ==
  /\ task \in {"imu", "cmps"} /\ faults = MaxFaults
  /\ regs = [c \in Chip |-> Wiped(c)] /\ asleep = TRUE
  /\ pc = "init" /\ blk = 1 /\ at = 1
  /\ res = FALSE /\ resp = <<>> /\ bist = "running" /\ retry = 0 /\ error = FALSE
  /\ handle = FALSE /\ pending = 0
  /\ pid = Cleared /\ heat = 0 /\ cold = FALSE /\ warm = FALSE
  /\ browned = [c \in Chip |-> FALSE] /\ blind = [c \in Chip |-> FALSE]

Used   == IF task = "imu" THEN {"accel", "gyro"} ELSE {"mag"}
Blocks == IF task = "imu" THEN deviceBmi088Init ELSE deviceIst8310Init
Done   == blk > Len(Blocks)
Here   == Blocks[blk].chip
Now    == Blocks[blk].steps[at]
At(op) == pc = "init" /\ ~Done /\ Now.op = op

-----------------------------------------------------------------------------
(* The hardware. *)

\* A chip loses its supply for a moment.
Brownout(c) ==
  /\ faults > 0 /\ faults' = faults - 1
  /\ regs' = [regs EXCEPT ![c] = Wiped(c)]
  /\ asleep' = (asleep \/ c = "accel")
  /\ bist' = IF c = "gyro" THEN "running" ELSE bist
  /\ browned' = [browned EXCEPT ![c] = TRUE]
  /\ UNCHANGED <<task, pc, blk, at, res, resp, retry, error, notes, heating, blind>>

Deaf(c) == c = "accel" /\ asleep

\* A number of transfers of which failed go wrong; a deaf chip needs no fault.
Faults(failed) == failed <= faults /\ faults' = faults - failed
Works(c)       == IF Deaf(c) THEN {FALSE} ELSE BOOLEAN
Fault(c, ok)   == IF ok \/ Deaf(c) THEN 0 ELSE 1

\* What a failed read returns: bmi088_read_write_byte starts from 0, the
\* result of ist8310_IIC_read_single_reg is not initialised, and may be the
\* value that is expected.
Failed(c, want) == IF c = "mag" THEN {want, Noise} ELSE {0, Noise}

Read(c, value, want, ok) == IF ok THEN {value} ELSE Failed(c, want)

\* The accelerometer interrupts once its data-ready signal is mapped, the
\* magnetometer in its continuous mode.
Ready == IF task = "imu" THEN regs["accel"]["INT_MAP_DATA"] = 4 ELSE regs["mag"]["0A"] = 11

-----------------------------------------------------------------------------
(* Steps of the set-up. *)

\* On to the next step, or out of the function with an error.
Proceed(ok) ==
  LET more == at < Len(Blocks[blk].steps)
  IN  /\ error' = (error \/ ~ok)
      /\ blk' = IF ~ok THEN Blocks[blk].fail ELSE IF more THEN blk ELSE blk + 1
      /\ at' = IF ok /\ more THEN at + 1 ELSE 1

Blinded(ok) == blind' = [blind EXCEPT ![Here] = @ \/ ~ok]

\* Mutant: the chip id is read once.
ProbeOnce ==
  /\ At("probe")
  /\ \E ok \in Works(Here) :
       /\ Faults(Fault(Here, ok))
       /\ \E id \in Read(Here, Id, Id, ok) : res' = (id = Id)
  /\ asleep' = (asleep /\ Here # "accel")
  /\ Proceed(TRUE)
  /\ UNCHANGED <<task, regs, pc, resp, bist, retry, notes, heating, trust>>

\* The chip id, read twice (once from the IST8310): the first transfer wakes
\* the accelerometer.
Probe ==
  /\ At("probe")
  /\ \E ok \in BOOLEAN :
       /\ Faults(IF ok THEN 0 ELSE 1)
       /\ \E id \in Read(Here, Id, Id, ok) : res' = (id = Id)
  /\ asleep' = (asleep /\ Here # "accel")
  /\ Proceed(TRUE)
  /\ UNCHANGED <<task, regs, pc, resp, bist, retry, notes, heating, trust>>

\* A soft reset, which is not verified, or the reset pin.
Reset ==
  /\ At("reset") \/ At("pin")
  /\ \E ok \in IF Now.op = "pin" THEN {TRUE} ELSE Works(Here) :
       /\ Faults(Fault(Here, ok))
       /\ regs' = IF ok THEN [regs EXCEPT ![Here] = Wiped(Here)] ELSE regs
       /\ asleep' = (asleep \/ (ok /\ Here = "accel"))
  /\ Proceed(TRUE)
  /\ UNCHANGED <<task, pc, res, resp, bist, retry, notes, heating, trust>>

Who ==
  /\ At("who")
  /\ browned' = [browned EXCEPT ![Here] = FALSE]
  /\ Proceed(res) /\ res' = FALSE
  /\ UNCHANGED <<task, faults, chips, pc, resp, bist, retry, notes, heating, blind>>

\* Mutant: the register is not read back.
WriteOnly ==
  /\ At("set")
  /\ \E took \in Works(Here) :
       /\ Faults(Fault(Here, took))
       /\ regs' = IF took THEN [regs EXCEPT ![Here][Now.reg] = Now.val] ELSE regs
  /\ asleep' = (asleep /\ Here # "accel")
  /\ Proceed(TRUE)
  /\ UNCHANGED <<task, pc, res, resp, bist, retry, notes, heating, trust>>

\* A register is written, read back and compared.
WriteAndCheck ==
  /\ At("set")
  /\ \E took \in Works(Here), ok \in Works(Here) :
       /\ Faults(Fault(Here, took) + Fault(Here, ok))
       /\ regs' = IF took THEN [regs EXCEPT ![Here][Now.reg] = Now.val] ELSE regs
       /\ Blinded(ok)
       /\ \E v \in Read(Here, regs'[Here][Now.reg], Now.val, ok) : Proceed(v = Now.val)
  /\ asleep' = (asleep /\ Here # "accel")
  /\ UNCHANGED <<task, pc, res, resp, bist, retry, notes, heating, browned>>

\* The accelerometer follows the excitation, 0 stands for no response.
Respond ==
  /\ At("respond")
  /\ \E ok \in Works(Here) :
       /\ Faults(Fault(Here, ok))
       /\ LET on == regs[Here]["SELF_TEST"]
          IN resp' = Append(resp, IF ~ok THEN 0 ELSE IF on = Positive THEN 1
                                  ELSE IF on = Negative THEN -1 ELSE 0)
  /\ asleep' = FALSE
  /\ Proceed(TRUE)
  /\ UNCHANGED <<task, regs, pc, res, bist, retry, notes, heating, trust>>

\* The difference of the responses against the thresholds.
Judge ==
  /\ At("judge")
  /\ resp' = <<>>
  /\ Proceed(resp[1] - resp[2] >= 2)
  /\ UNCHANGED <<task, faults, chips, pc, res, bist, retry, notes, heating, trust>>

\* BMI088_GYRO_TRIG_BIST and the delay after it.
Trigger ==
  /\ At("trigger")
  /\ bist' \in Bist /\ Faults(IF bist' = "passed" THEN 0 ELSE 1)
  /\ retry' = 0 /\ res' = FALSE
  /\ Proceed(TRUE)
  /\ UNCHANGED <<task, chips, pc, resp, notes, heating, trust>>

\* A poll.  The last one counts as a time-out whatever it reads.
Poll ==
  /\ At("poll")
  /\ retry' = retry + 1
  /\ \E ok \in Works(Here) : \E read \in IF ok THEN {bist} ELSE {"running", "failed"} :
       /\ Faults(Fault(Here, ok))
       /\ IF read = "running" /\ retry' < MaxRetry
            THEN UNCHANGED <<error, blk, at>>
            ELSE Proceed(retry' # MaxRetry /\ read # "failed")
  /\ UNCHANGED <<task, chips, pc, res, resp, bist, notes, heating, trust>>

-----------------------------------------------------------------------------
(* The tasks. *)

\* The set-up returns: errors lead to osDelay(100), else the task begins.
Finish ==
  /\ pc = "init" /\ Done
  /\ pc' = IF error THEN "delay" ELSE "wait"
  /\ blk' = 1 /\ error' = FALSE /\ retry' = 0 /\ bist' = "running"
  /\ UNCHANGED <<task, faults, chips, at, res, resp, notes, heating, trust>>

Retry ==
  /\ pc = "delay" /\ pc' = "init"
  /\ blind' = [c \in Chip |-> FALSE]
  /\ UNCHANGED <<task, faults, chips, setup, notes, heating, browned>>

\* osThreadNew returns to defaultTask, maybe after the task has begun to run.
osThreadNew ==
  /\ ~handle /\ handle' = TRUE
  /\ UNCHANGED <<task, faults, chips, pc, setup, pending, heating, trust>>

\* ACCEL_INT_Pin or CMPS_INT_Pin; the gyroscope's interrupt is ignored.
HAL_GPIO_EXTI_Callback ==
  /\ Ready /\ handle /\ pending < MaxPending
  /\ pending' = pending + 1
  /\ UNCHANGED <<task, faults, chips, pc, setup, handle, heating, trust>>

ulTaskNotifyTake ==
  /\ pc = "wait" /\ pending > 0
  /\ pending' = pending - 1 /\ pc' = "read"
  /\ UNCHANGED <<task, faults, chips, setup, handle, heating, trust>>

\* A temperature from its raw bits.
Temperature(raw) ==
  (IF raw > 2^(RawWidth - 1) - 1 THEN raw - 2^RawWidth ELSE raw) + Offset

\* Mutant: the output is not cut at 0.
PwmUncut(out) == Unsigned(Truncate(out, Scale), PwmWidth)

\* d > 0 ? d : 0, and the conversion to uint16_t.
Pwm(out) == IF out > 0 THEN Unsigned(Truncate(out, Scale), PwmWidth) ELSE 0

\* deviceBmi088Read, the controller and heatTrigger; the other values are
\* dropped, like those of deviceIst8310ReadMagnitude.
Sense(raw) ==
  /\ pc = "read" /\ pc' = "wait"
  /\ IF task = "imu"
       THEN LET t == Temperature(raw)
                p == feedback(pid, Heater, t, Command)
            IN  /\ p.i_out \in -MaxSum .. MaxSum
                /\ pid' = p /\ heat' = Pwm(p.out)
                /\ cold' = (cold \/ t < Command) /\ warm' = (warm \/ t > Command)
       ELSE UNCHANGED heating
  /\ UNCHANGED <<task, faults, chips, setup, notes, trust>>

-----------------------------------------------------------------------------
Setup == \/ Probe \/ Reset \/ Who \/ WriteAndCheck \/ Respond \/ Judge \/ Trigger \/ Poll
         \/ Finish \/ Retry
Task == Setup \/ ulTaskNotifyTake \/ \E raw \in Raws : Sense(raw)
Hardware == \E c \in Used : Brownout(c)

Next == Task \/ osThreadNew \/ HAL_GPIO_EXTI_Callback \/ Hardware

Spec == Init /\ [][Next]_vars

\* The task and defaultTask get their turns, and a sensor that is set up
\* keeps interrupting.
FairSpec ==
  Spec /\ WF_vars(Task) /\ WF_vars(osThreadNew) /\ WF_vars(HAL_GPIO_EXTI_Callback)

-----------------------------------------------------------------------------
(* Properties *)

Running == pc \in {"wait", "read"}

\* The registers of a chip that do not hold what its init function writes.
Wrong(c) == {i \in 1..Len(Table(c)) : regs[c][Table(c)[i][1]] # Table(c)[i][2]}

\* A task leaves its set-up loop only with chips that hold every register of
\* their tables and are not under self-test excitation, wherever attempts
\* were cut off before: unless the chip lost its supply since, the only
\* registers that can be wrong are those of value 0, if reads failed, because
\* a failed SPI read is 0; the IST8310's read can return anything.
RunsConfigured ==
  Running => \A c \in Used :
    \/ browned[c]
    \/ blind[c] /\ c = "mag"
    \/ /\ \A i \in Wrong(c) : blind[c] /\ Table(c)[i][2] = 0
       /\ c = "accel" /\ ~blind[c] => regs[c]["SELF_TEST"] \in {Unset, Off}

\* A BMI088 that was never read below the commanded temperature is never
\* heated, and one never read above it is heated at least in proportion to
\* what is missing, as long as the output fits the compare register.
HeatsTheCold ==
  /\ heat # 0 => cold
  /\ ~warm /\ pid.out < Scale * 2^PwmWidth =>
       heat >= Truncate(Heater.kp * pid.e0, Scale)

\* Once the faults are over, a task reads samples for ever, whichever
\* step failed before; or it left its set-up loop just before the sensor lost
\* its set-up, which nothing notices.
KeepsReading ==
  []<>(pc = "read") \/ <>[](Running /\ \E c \in Used : Wrong(c) # {})
=============================================================================
