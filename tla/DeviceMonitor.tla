---------------------------- MODULE DeviceMonitor ----------------------------
(***************************************************************************)
(* Link supervision: the CAN and DBUS interrupts stamp a device with the   *)
(* RTOS tick (update_single_isr), and the device_monitor task compares the *)
(* stamp with the current tick and declares every device online or offline *)
(* (update_to_controller), while motor_control is still registering joints.*)
(*                                                                         *)
(* The tasks have equal priority and are time sliced: a task can lose the  *)
(* processor between any two steps below, and an interrupt can come        *)
(* between any two steps.  Device 0 is device_dbus_, device i > 0 is the   *)
(* i-th element of device_joint_[1].  The counters and the registration    *)
(* are those of PartControl, of which this module is an implementation.    *)
(***************************************************************************)
EXTENDS Integers, Sequences

CONSTANTS
  TickMod,   \* number of values of the tick counter (2^32 in the firmware)
  Timeout,   \* 30: the longest silence, in ticks, of an online device
  MaxLag,    \* bound: ticks that may pass between two steps of the monitor
  CntMod, MaxJoint, Configs   \* see PartControl

ASSUME TimeAssumption ==
  /\ TickMod \in Nat /\ Timeout \in Nat /\ MaxLag \in Nat \ {0}
  /\ Timeout + MaxLag < TickMod

ASSUME MonitorConfigAssumption ==
  /\ CntMod \in Nat \ {0} /\ MaxJoint \in Nat
  /\ Configs \subseteq Seq(1..11)
  /\ \A c \in Configs : Len(c) <= MaxJoint

VARIABLES
  tick,      \* xTickCount
  devTick,   \* DeviceStatus::tick
  dbusOnline,                  \* device_dbus_.online
  config, nreg, online, cnt, halted,         \* see PartControl
  mpc,       \* device_monitor: where update_to_controller is
  mi,        \* the device it looks at
  mend,      \* end() of the list, read when the loop over it starts
  mnow,      \* xTaskGetTickCount(), if it was evaluated first
  mold,      \* device.tick, if it was evaluated first
  mreg,      \* register of the counter's read-modify-write
  mlag,      \* ticks since the monitor's last step
  rpc, rreg, \* motor_control, see PartControl
  silence,   \* history: ticks since the last frame, TickMod when that many
             \* have passed or no frame has come since the start
  mheard,    \* history: silence was within Timeout at the first operand
  overtaken, \* history: a frame of the device came between the two operands
  lost       \* history: see PartControl

monitor == <<mpc, mi, mend, mnow, mold, mreg, mlag>>
history == <<silence, mheard, overtaken, lost>>
vars == <<tick, devTick, dbusOnline, config, nreg, online, cnt, halted, monitor,
          rpc, rreg, history>>

Dbus   == 0
Device == 0..MaxJoint
Joint  == 1..MaxJoint
NoTick == -1

Present == 0..nreg

\* Mutants: a counter that does not wrap, a subtraction that saturates.
IncUnbounded(x, m)    == x + 1
SubSaturated(x, y, m) == IF x >= y THEN x - y ELSE 0

\* Tick arithmetic on unsigned counters with m values.
Inc(x, m)    == IF x + 1 = m THEN 0 ELSE x + 1
Sub(x, y, m) == IF x >= y THEN x - y ELSE x - y + m

IsOnline(d) == IF d = Dbus THEN dbusOnline ELSE online[d]

Init ==
  /\ tick = 0
  /\ devTick = [d \in Device |-> 0]
  /\ dbusOnline = FALSE
  /\ config \in Configs
  /\ nreg = 0
  /\ online = [i \in Joint |-> FALSE]
  /\ cnt = [g \in 0..3 |-> 0]
  /\ halted = FALSE
  /\ mpc = "sleep" /\ mi = 0 /\ mend = 0
  /\ mnow = NoTick /\ mold = NoTick /\ mreg = 0 /\ mlag = 0
  /\ rpc = "add" /\ rreg = 0
  /\ silence = [d \in Device |-> TickMod]
  /\ mheard = FALSE /\ overtaken = FALSE /\ lost = {}

\* What the monitor's program counter is to PartControl.
CountPc == IF mpc \in {"load", "store"} THEN mpc ELSE "idle"
CountMi == IF mpc \in {"load", "store"} THEN mi ELSE 0

-----------------------------------------------------------------------------
(* Time and interrupts. *)

\* The SysTick interrupt.  MaxLag bounds how long the monitor is kept from
\* its next step: it shares the processor with a fixed number of tasks.
Tick ==
  /\ ~halted /\ mlag < MaxLag
  /\ tick' = Inc(tick, TickMod)
  /\ mlag' = mlag + 1
  /\ silence' = [d \in Device |->
                   IF silence[d] < TickMod THEN silence[d] + 1 ELSE TickMod]
  /\ UNCHANGED <<devTick, dbusOnline, config, nreg, online, cnt, halted, mpc, mi,
                 mend, mnow, mold, mreg, rpc, rreg, mheard, overtaken, lost>>

\* Mutant: the frame of any device stamps the receiver.
update_dbus_isr(d) ==
  /\ ~halted
  /\ devTick' = [devTick EXCEPT ![Dbus] = tick]
  /\ silence' = [silence EXCEPT ![d] = 0]
  /\ overtaken' = (overtaken \/ (mpc = "judge" /\ mi = d))
  /\ UNCHANGED <<tick, dbusOnline, config, nreg, online, cnt, halted, monitor,
                 rpc, rreg, mheard, lost>>

\* update_single_isr, called by jointUpdate for the device whose head_feedback
\* is the frame's StdId (a frame that matches none changes nothing) and by
\* dbusUpdate, for a good frame and for one it rejects.
update_single_isr(d) ==
  /\ ~halted
  /\ devTick' = [devTick EXCEPT ![d] = tick]
  /\ silence' = [silence EXCEPT ![d] = 0]
  /\ overtaken' = (overtaken \/ (mpc = "judge" /\ mi = d))
  /\ UNCHANGED <<tick, dbusOnline, config, nreg, online, cnt, halted, monitor,
                 rpc, rreg, mheard, lost>>

-----------------------------------------------------------------------------
(* The device_monitor task: update_to_controller, once per osDelay(1). *)

\* After device mi: the next one of the list, or the end of the round.
Advance ==
  LET end == IF mi = Dbus THEN nreg ELSE mend
  IN  /\ mend' = end
      /\ IF mi < end THEN mpc' = "sample" /\ mi' = mi + 1
                     ELSE mpc' = "sleep" /\ mi' = Dbus

MonWake ==
  /\ ~halted /\ mpc = "sleep" /\ mlag >= 1
  /\ mpc' = "sample" /\ mi' = Dbus /\ mlag' = 0
  /\ UNCHANGED <<tick, devTick, dbusOnline, config, nreg, online, cnt, halted,
                 mend, mnow, mold, mreg, rpc, rreg, history>>

\* xTaskGetTickCount() - device.tick: C++ leaves the order of evaluation of
\* the operands open.
MonSample ==
  /\ ~halted /\ mpc = "sample"
  /\ \/ mnow' = tick /\ mold' = NoTick
     \/ mnow' = NoTick /\ mold' = devTick[mi]
  /\ mpc' = "judge" /\ mlag' = 0
  /\ mheard' = (silence[mi] <= Timeout)
  /\ overtaken' = FALSE
  /\ UNCHANGED <<tick, devTick, dbusOnline, config, nreg, online, cnt, halted,
                 mi, mend, mreg, rpc, rreg, silence, lost>>

\* Mutant: the comparison is >= 30.
offline_time_up ==
  Sub(IF mnow = NoTick THEN tick ELSE mnow,
      IF mold = NoTick THEN devTick[mi] ELSE mold, TickMod) + 1

offline_time ==
  Sub(IF mnow = NoTick THEN tick ELSE mnow,
      IF mold = NoTick THEN devTick[mi] ELSE mold, TickMod)

\* The other operand, the comparison and the new value of online.  The shift
\* of an online joint's feedback window has no influence on the flags.
MonJudge ==
  LET verdict == ~(offline_time > Timeout)
  IN  /\ ~halted /\ mpc = "judge"
      /\ \/ /\ mi = Dbus
            /\ dbusOnline' = verdict
            /\ Advance /\ UNCHANGED online
         \/ /\ mi # Dbus /\ online[mi] = verdict
            /\ Advance /\ UNCHANGED <<dbusOnline, online>>
         \/ /\ mi # Dbus /\ online[mi] # verdict
            /\ online' = [online EXCEPT ![mi] = verdict]
            /\ mpc' = "load" /\ UNCHANGED <<dbusOnline, mi, mend>>
      /\ mnow' = NoTick /\ mold' = NoTick /\ mlag' = 0
      /\ mheard' = FALSE /\ overtaken' = FALSE
      /\ UNCHANGED <<tick, devTick, config, nreg, cnt, halted, mreg, rpc, rreg,
                     silence, lost>>

-----------------------------------------------------------------------------
(* Registration and counting: the actions of PartControl on the state the  *)
(* two modules share.  The sender of PartControl does not write it.        *)

PC == INSTANCE PartControl WITH
        mpc <- CountPc, mi <- CountMi, MailBox <- 1,
        sj <- 0, mail <- 0, sent <- {},
        frame <- [head |-> "none", slots |-> [k \in 1..4 |-> 0]]

GroupOf(id) == id \div 4

Overwritten(g, reg) == IF cnt[g] = reg THEN lost ELSE lost \union {g}

\* joint_add up to push_back: DeviceStatus{10, &joint}, so tick is 0.
JointAdd ==
  /\ ~halted /\ rpc = "add" /\ nreg < Len(config)
  /\ IF \E i \in 1..nreg : config[i] = config[nreg + 1]
       THEN halted' = TRUE /\ UNCHANGED <<devTick, nreg, online, rpc>>
       ELSE /\ nreg' = nreg + 1
            /\ devTick' = [devTick EXCEPT ![nreg + 1] = 0]
            /\ online' = [online EXCEPT ![nreg + 1] = FALSE]
            /\ rpc' = "load"
            /\ UNCHANGED halted
  /\ UNCHANGED <<tick, dbusOnline, config, cnt, monitor, rreg, history>>

JointLoad ==
  /\ ~halted /\ rpc = "load"
  /\ rreg' = cnt[GroupOf(config[nreg])]
  /\ rpc' = "store"
  /\ UNCHANGED <<tick, devTick, dbusOnline, config, nreg, online, cnt, halted,
                 monitor, history>>

JointStore ==
  LET g == GroupOf(config[nreg])
  IN  /\ ~halted /\ rpc = "store"
      /\ cnt' = [cnt EXCEPT ![g] = Inc(rreg, CntMod)]
      /\ lost' = Overwritten(g, rreg)
      /\ rpc' = IF nreg = Len(config) THEN "send" ELSE "add"
      /\ rreg' = 0
      /\ UNCHANGED <<tick, devTick, dbusOnline, config, nreg, online, halted,
                     monitor, silence, mheard, overtaken>>

MonLoad ==
  /\ ~halted /\ mpc = "load"
  /\ mreg' = cnt[GroupOf(config[mi])]
  /\ mpc' = "store" /\ mlag' = 0
  /\ UNCHANGED <<tick, devTick, dbusOnline, config, nreg, online, cnt, halted,
                 mi, mend, mnow, mold, rpc, rreg, history>>

\* Mutant: the counter goes up with every change of the flag.
MonStoreUp ==
  LET g == GroupOf(config[mi])
  IN  /\ ~halted /\ mpc = "store"
      /\ cnt' = [cnt EXCEPT ![g] = Inc(mreg, CntMod)]
      /\ lost' = Overwritten(g, mreg)
      /\ Advance /\ mreg' = 0 /\ mlag' = 0
      /\ UNCHANGED <<tick, devTick, dbusOnline, config, nreg, online, halted,
                     mnow, mold, rpc, rreg, silence, mheard, overtaken>>

MonStore ==
  LET g == GroupOf(config[mi])
  IN  /\ ~halted /\ mpc = "store"
      /\ cnt' = [cnt EXCEPT ![g] = IF online[mi]
                                     THEN Inc(mreg, CntMod)
                                     ELSE Sub(mreg, 1, CntMod)]
      /\ lost' = Overwritten(g, mreg)
      /\ Advance /\ mreg' = 0 /\ mlag' = 0
      /\ UNCHANGED <<tick, devTick, dbusOnline, config, nreg, online, halted,
                     mnow, mold, rpc, rreg, silence, mheard, overtaken>>

-----------------------------------------------------------------------------
Interrupt == \E d \in Present : update_single_isr(d)
Monitor   == MonWake \/ MonSample \/ MonJudge \/ MonLoad \/ MonStore
Register  == JointAdd \/ JointLoad \/ JointStore

Next == Tick \/ Interrupt \/ Monitor \/ Register

Spec == Init /\ [][Next]_vars

-----------------------------------------------------------------------------
(* Properties *)

ClockOK ==
  /\ tick \in 0..(TickMod - 1)
  /\ devTick \in [Device -> 0..(TickMod - 1)]
  /\ silence \in [Device -> 0..TickMod]

MonitorOK ==
  /\ mpc \in {"sleep", "sample", "judge", "load", "store"}
  /\ mi \in 0..nreg
  /\ mpc \in {"load", "store"} => mi # Dbus
  /\ mend \in 0..nreg
  /\ mnow \in (0..(TickMod - 1)) \union {NoTick}
  /\ mold \in (0..(TickMod - 1)) \union {NoTick}
  /\ mlag \in 0..MaxLag

RegisterOK ==
  /\ config \in Configs
  /\ nreg \in 0..Len(config)
  /\ rpc \in {"add", "load", "store", "send"}
  /\ rpc \in {"load", "store"} => nreg # 0

CounterOK ==
  /\ cnt \in [0..3 -> 0..(CntMod - 1)]
  /\ mreg \in 0..(CntMod - 1)
  /\ rreg \in 0..(CntMod - 1)

FlagOK ==
  /\ online \in [Joint -> BOOLEAN]
  /\ dbusOnline \in BOOLEAN /\ halted \in BOOLEAN
  /\ mheard \in BOOLEAN /\ overtaken \in BOOLEAN /\ lost \subseteq 0..3

\* Every variable keeps the range its C++ type and its use give it.
TypeOK == ClockOK /\ MonitorOK /\ RegisterOK /\ CounterOK /\ FlagOK

\* update_to_controller turns a device offline only after more than Timeout
\* ticks without a frame, however the tick counter wraps; the one exception
\* is a frame that lands between the two operands of
\* xTaskGetTickCount() - device.tick.
OfflineJustified ==
  [][\A d \in Present :
       IsOnline(d) /\ ~IsOnline(d)' => silence[d] > Timeout \/ overtaken]_vars

\* update_to_controller turns a device online only if it was heard within
\* Timeout ticks of the sample or while the sample was taken, or if it has
\* been silent for so long (or from the start) that the counter came round.
OnlineJustified ==
  [][\A d \in Present :
       ~IsOnline(d) /\ IsOnline(d)' =>
         mheard \/ silence[d] <= MaxLag \/ silence[d] = TickMod]_vars

\* The distance of a device's stamp from the tick counter is its silence, as
\* long as the counter has not come round.
StampIsSilence ==
  \A d \in Device :
    silence[d] < TickMod => Sub(tick, devTick[d], TickMod) = silence[d]

\* A device is not heard before it is registered.
UnheardIsSilent == \A d \in Device : d > nreg => silence[d] = TickMod

\* One operand of the subtraction has been evaluated, mlag ticks ago.
OperandsInStep ==
  mpc = "judge" =>
    /\ (mnow = NoTick) # (mold = NoTick)
    /\ overtaken => silence[mi] <= mlag
    /\ ~overtaken /\ silence[mi] < TickMod =>
         /\ mlag <= silence[mi]
         /\ mheard <=> (silence[mi] - mlag <= Timeout)
         /\ mold = NoTick =>
              Sub(mnow, devTick[mi], TickMod) = silence[mi] - mlag
    /\ ~overtaken /\ mold # NoTick => mold = devTick[mi]

\* What update_to_controller and the interrupts keep true of ticks and stamps
\* while they interleave; the two justifications follow from it.
TimeInv == StampIsSilence /\ UnheardIsSilent /\ OperandsInStep

\* Steps between two looks of the monitor at one device.
RoundSteps == 4 * nreg + 4

\* A device that is declared online was heard at most Timeout ticks and one
\* round of the monitor ago, unless it has been silent for a whole period of
\* the tick counter or from the start: a link that breaks is noticed in time.
OnlineIsRecent ==
  \A d \in Present :
    IsOnline(d) => \/ silence[d] <= Timeout + MaxLag * RoundSteps
                   \/ silence[d] = TickMod

\* The monitor with its clock implements the counting part of PartControl,
\* in which flags change at any time: what is shown there holds here.
CountsAsPartControl == PC!Spec
=============================================================================
