------------------------ MODULE DeviceMonitorProofs ------------------------
(***************************************************************************)
(* Proofs about DeviceMonitor, for every period of the tick counter, every *)
(* time-out and every motor configuration.                                 *)
(***************************************************************************)
EXTENDS DeviceMonitor, TLAPS

\* The registered joints are a prefix of a configuration that fits the lists.
LEMMA ConfigFacts ==
  ASSUME RegisterOK
  PROVE  /\ nreg \in Nat /\ Len(config) \in Nat /\ nreg <= Len(config)
         /\ Len(config) <= MaxJoint /\ MaxJoint \in Nat
         /\ \A i \in 1..Len(config) : GroupOf(config[i]) \in 0..3
<1>1. config \in Configs /\ nreg \in 0..Len(config)
  BY DEF RegisterOK
<1>2. config \in Seq(1..11) /\ Len(config) <= MaxJoint
  BY <1>1, MonitorConfigAssumption
<1>3. \A i \in 1..Len(config) : config[i] \in 1..11
  BY <1>2
<1>4. \A id \in 1..11 : GroupOf(id) \in 0..3
  BY DEF GroupOf
<1> QED
  BY <1>1, <1>2, <1>3, <1>4, MonitorConfigAssumption

\* The tick counter, the stamps the receive interrupts write and the real
\* silence of each device keep their ranges in every step.
LEMMA ClockPreserved ==
  ASSUME TypeOK, [Next]_vars
  PROVE  ClockOK'
<1> USE TimeAssumption DEF ClockOK
<1>1. CASE Tick
  BY <1>1 DEF TypeOK, Tick, Inc
<1>2. CASE Interrupt
  <2> PICK d \in Present : update_single_isr(d)
    BY <1>2 DEF Interrupt
  <2>1. tick' = tick
    BY DEF update_single_isr
  <2>2. devTick' \in [Device -> 0..(TickMod - 1)]
    BY DEF TypeOK, update_single_isr
  <2>3. silence' \in [Device -> 0..TickMod]
    <3>1. silence \in [Device -> 0..TickMod] /\ 0 \in 0..TickMod
      BY DEF TypeOK
    <3>2. silence' = [silence EXCEPT ![d] = 0]
      BY DEF update_single_isr
    <3> QED
      BY <3>1, <3>2
  <2> QED
    BY <2>1, <2>2, <2>3 DEF TypeOK
<1>3. CASE Monitor
  BY <1>3 DEF TypeOK, Monitor, MonWake, MonSample, MonJudge, MonLoad, MonStore, history
<1>4. CASE JointAdd
  BY <1>4 DEF TypeOK, JointAdd, history
<1>5. CASE JointLoad \/ JointStore \/ UNCHANGED vars
  BY <1>5 DEF TypeOK, JointLoad, JointStore, vars, history
<1> QED
  BY <1>1, <1>2, <1>3, <1>4, <1>5 DEF Next, Register

\* The place of update_to_controller in its round and the operands it has
\* read keep their ranges in every step.
LEMMA MonitorPreserved ==
  ASSUME TypeOK, [Next]_vars
  PROVE  MonitorOK'
<1>0. MonitorOK /\ ClockOK /\ RegisterOK
  BY DEF TypeOK
<1> USE <1>0, TimeAssumption, ConfigFacts DEF MonitorOK, NoTick, Dbus
<1>1. CASE Tick
  BY <1>1 DEF Tick
<1>2. CASE Interrupt
  BY <1>2 DEF Interrupt, update_single_isr, monitor
<1>3. CASE MonWake
  BY <1>3 DEF MonWake
<1>4. CASE MonSample
  <2>1. mi \in Device
    BY DEF Device
  <2> QED
    BY <1>4, <2>1 DEF MonSample, ClockOK
<1>5. CASE MonJudge
  BY <1>5 DEF MonJudge, Advance
<1>6. CASE MonLoad
  BY <1>6 DEF MonLoad
<1>7. CASE MonStore
  BY <1>7 DEF MonStore, Advance
<1>8. CASE JointAdd
  BY <1>8 DEF JointAdd, monitor
<1>9. CASE JointLoad \/ JointStore \/ UNCHANGED vars
  BY <1>9 DEF JointLoad, JointStore, vars, monitor
<1> QED
  BY <1>1, <1>2, <1>3, <1>4, <1>5, <1>6, <1>7, <1>8, <1>9
     DEF Next, Register, Monitor

\* The place of joint_add in the configuration and the value it has loaded
\* keep their ranges in every step.
LEMMA RegisterPreserved ==
  ASSUME TypeOK, [Next]_vars
  PROVE  RegisterOK'
<1>0. RegisterOK
  BY DEF TypeOK
<1> USE <1>0, ConfigFacts DEF RegisterOK
<1>1. CASE Tick \/ Interrupt \/ Monitor \/ UNCHANGED vars
  BY <1>1 DEF Tick, Interrupt, update_single_isr, Monitor, MonWake, MonSample,
              MonJudge, MonLoad, MonStore, vars
<1>2. CASE JointAdd
  BY <1>2 DEF JointAdd
<1>3. CASE JointLoad \/ JointStore
  BY <1>3 DEF JointLoad, JointStore
<1> QED
  BY <1>1, <1>2, <1>3 DEF Next, Register

\* The uint8_t counters of joint_add and set_online_cnt keep their width.
LEMMA CounterPreserved ==
  ASSUME TypeOK, [Next]_vars
  PROVE  CounterOK'
<1>0. CounterOK /\ RegisterOK /\ MonitorOK
  BY DEF TypeOK
<1> USE <1>0, MonitorConfigAssumption DEF CounterOK
<1>1. CASE Tick \/ Interrupt \/ MonWake \/ MonSample \/ MonJudge \/ JointAdd
            \/ UNCHANGED vars
  BY <1>1 DEF Tick, Interrupt, update_single_isr, MonWake, MonSample, MonJudge,
              JointAdd, vars, monitor
<1>2. CASE MonLoad \/ MonStore
  <2>1. GroupOf(config[mi]) \in 0..3
    BY <1>2, ConfigFacts DEF MonLoad, MonStore, MonitorOK, Dbus
  <2> QED
    BY <1>2, <2>1 DEF MonLoad, MonStore, Inc, Sub
<1>3. CASE JointLoad \/ JointStore
  <2>1. GroupOf(config[nreg]) \in 0..3
    BY <1>3, ConfigFacts DEF JointLoad, JointStore, RegisterOK
  <2> QED
    BY <1>3, <2>1 DEF JointLoad, JointStore, Inc, monitor
<1> QED
  BY <1>1, <1>2, <1>3 DEF Next, Register, Monitor

\* The list of registered devices and their online flags keep their types.
LEMMA FlagPreserved ==
  ASSUME TypeOK, [Next]_vars
  PROVE  FlagOK'
<1>0. FlagOK
  BY DEF TypeOK
<1> USE <1>0 DEF FlagOK
<1>1. CASE Tick
  BY <1>1 DEF Tick
<1>2. CASE Interrupt
  BY <1>2 DEF Interrupt, update_single_isr
<1>3. CASE MonWake
  BY <1>3 DEF MonWake, history
<1>4. CASE MonSample
  <2>1. (silence[mi] <= Timeout) \in BOOLEAN
    OBVIOUS
  <2>2. mheard' \in BOOLEAN
    BY <1>4, <2>1 DEF MonSample
  <2> QED
    BY <1>4, <2>2 DEF MonSample
<1>5. CASE MonJudge
  BY <1>5 DEF MonJudge
<1>6. CASE MonLoad \/ MonStore
  <2>1. GroupOf(config[mi]) \in 0..3
    BY <1>6, ConfigFacts DEF MonLoad, MonStore, TypeOK, MonitorOK, Dbus
  <2> QED
    BY <1>6, <2>1 DEF MonLoad, MonStore, Overwritten, history
<1>7. CASE JointAdd
  BY <1>7 DEF JointAdd, history
<1>8. CASE JointLoad \/ UNCHANGED vars
  BY <1>8 DEF JointLoad, vars, history
<1>9. CASE JointStore
  <2>1. GroupOf(config[nreg]) \in 0..3
    BY <1>9, ConfigFacts DEF JointStore, TypeOK, RegisterOK
  <2> QED
    BY <1>9, <2>1 DEF JointStore, Overwritten
<1> QED
  BY <1>1, <1>2, <1>3, <1>4, <1>5, <1>6, <1>7, <1>8, <1>9 DEF Next, Register, Monitor

\* Every variable of the monitor keeps its range.
THEOREM TypeCorrect == Spec => []TypeOK
<1>1. Init => TypeOK
  <2> SUFFICES ASSUME Init PROVE TypeOK
    OBVIOUS
  <2>1. ClockOK
    BY TimeAssumption DEF Init, ClockOK
  <2>2. RegisterOK
    BY MonitorConfigAssumption DEF Init, RegisterOK
  <2>3. MonitorOK
    BY TimeAssumption DEF Init, MonitorOK, NoTick, Dbus
  <2>4. CounterOK
    BY MonitorConfigAssumption DEF Init, CounterOK
  <2>5. FlagOK
    BY DEF Init, FlagOK
  <2> QED
    BY <2>1, <2>2, <2>3, <2>4, <2>5 DEF TypeOK
<1>2. TypeOK /\ [Next]_vars => TypeOK'
  BY ClockPreserved, MonitorPreserved, RegisterPreserved, CounterPreserved,
     FlagPreserved DEF TypeOK
<1> QED
  BY <1>1, <1>2, PTL DEF Spec
-----------------------------------------------------------------------------
(***************************************************************************)
(* The two justification properties rest on TimeInv: the modular distance  *)
(* of the stamp of a device from the tick counter is its silence, and the  *)
(* operand the monitor has already evaluated is at most mlag ticks old.    *)
(***************************************************************************)

\* Whatever interrupts and ticks fall between the steps of
\* update_to_controller, stamps and operands stay in step with real time.
THEOREM TimeInvariant == Spec => []TimeInv
<1>1. Init => TimeInv
  BY TimeAssumption DEF Init, TimeInv, StampIsSilence, UnheardIsSilent,
                        OperandsInStep, Device
<1>2. TypeOK /\ TimeInv /\ [Next]_vars => TimeInv'
  <2> SUFFICES ASSUME TypeOK, TimeInv, [Next]_vars
               PROVE  TimeInv'
    OBVIOUS
  <2>0. ClockOK /\ MonitorOK /\ RegisterOK
    BY DEF TypeOK
  <2>a. /\ tick \in 0..(TickMod - 1) /\ TickMod \in Nat /\ Timeout \in Nat
        /\ mi \in Device /\ mlag \in Nat
        /\ \A d \in Device : devTick[d] \in 0..(TickMod - 1)
        /\ \A d \in Device : silence[d] \in 0..TickMod
    <3>1. mi \in Device /\ mlag \in Nat
      BY <2>0, ConfigFacts, TimeAssumption DEF MonitorOK, Device
    <3> QED
      BY <3>1, <2>0, TimeAssumption DEF ClockOK
  <2>1. CASE Tick
    <3> USE <2>1, <2>0, <2>a DEF Tick
    <3>1. StampIsSilence'
      BY DEF TimeInv, StampIsSilence, Inc, Sub
    <3>2. UnheardIsSilent'
      BY DEF TimeInv, UnheardIsSilent
    <3>3. OperandsInStep'
      BY DEF TimeInv, OperandsInStep, StampIsSilence, Sub
    <3> QED
      BY <3>1, <3>2, <3>3 DEF TimeInv
  <2>2. CASE Interrupt
    <3> PICK d \in Present : update_single_isr(d)
      BY <2>2 DEF Interrupt
    <3>0. d \in Device
      BY <2>0, ConfigFacts DEF Present, Device
    <3> USE <2>0, <2>a, <3>0 DEF update_single_isr
    <3>1. StampIsSilence'
      BY DEF TimeInv, StampIsSilence, Sub, ClockOK
    <3>2. UnheardIsSilent'
      BY DEF TimeInv, UnheardIsSilent, ClockOK, Present, RegisterOK, Device
    <3>3. OperandsInStep'
      <4>1. /\ mpc' = mpc /\ mi' = mi /\ mnow' = mnow /\ mold' = mold
            /\ mlag' = mlag /\ mheard' = mheard
        BY DEF monitor
      <4>2. CASE mpc = "judge" /\ mi = d
        <5>1. overtaken' /\ silence'[mi] = 0
          BY <4>2 DEF ClockOK
        <5> QED
          BY <4>1, <4>2, <5>1 DEF TimeInv, OperandsInStep
      <4>3. CASE ~(mpc = "judge" /\ mi = d)
        <5>1. overtaken' <=> overtaken
          BY <4>3
        <5>2. mpc = "judge" => silence'[mi] = silence[mi] /\ devTick'[mi] = devTick[mi]
          BY <4>3 DEF ClockOK
        <5> QED
          BY <4>1, <5>1, <5>2 DEF TimeInv, OperandsInStep
      <4> QED
        BY <4>2, <4>3
    <3> QED
      BY <3>1, <3>2, <3>3 DEF TimeInv
  <2>3. CASE MonSample
    <3> USE <2>3, <2>0, <2>a DEF MonSample
    <3>1. StampIsSilence' /\ UnheardIsSilent'
      BY DEF TimeInv, StampIsSilence, UnheardIsSilent
    <3>2. OperandsInStep'
      <4>1. /\ mi' = mi /\ silence' = silence /\ devTick' = devTick
            /\ ~overtaken' /\ mlag' = 0
            /\ mheard' <=> (silence[mi] <= Timeout)
        OBVIOUS
      <4>2. silence[mi] < TickMod => Sub(tick, devTick[mi], TickMod) = silence[mi]
        BY DEF TimeInv, StampIsSilence
      <4>3. tick # NoTick /\ devTick[mi] # NoTick
        BY DEF NoTick
      <4>4. CASE mnow' = tick /\ mold' = NoTick
        BY <4>1, <4>2, <4>3, <4>4 DEF OperandsInStep
      <4>5. CASE mnow' = NoTick /\ mold' = devTick[mi]
        BY <4>1, <4>2, <4>3, <4>5 DEF OperandsInStep
      <4> QED
        BY <4>4, <4>5
    <3> QED
      BY <3>1, <3>2 DEF TimeInv
  <2>4. CASE MonWake \/ MonJudge \/ MonLoad \/ MonStore
    BY <2>4 DEF TimeInv, StampIsSilence, UnheardIsSilent, OperandsInStep,
                MonWake, MonJudge, MonLoad, MonStore, Advance, history
  <2>5. CASE JointAdd
    <3>1. CASE UNCHANGED <<devTick, nreg>>
      BY <2>5, <3>1 DEF JointAdd, TimeInv, StampIsSilence, UnheardIsSilent,
                        OperandsInStep, history, monitor
    <3>2. CASE nreg' = nreg + 1 /\ devTick' = [devTick EXCEPT ![nreg + 1] = 0]
      <4>1. nreg \in Nat /\ nreg + 1 \in Device
        BY <2>0, <2>5, ConfigFacts DEF JointAdd, Device
      <4>2. silence' = silence /\ tick' = tick /\ UNCHANGED monitor
            /\ UNCHANGED history
        BY <2>5 DEF JointAdd, history
      <4>3. silence[nreg + 1] = TickMod
        BY <4>1 DEF TimeInv, UnheardIsSilent
      <4>4. \A d \in Device : d # nreg + 1 => devTick'[d] = devTick[d]
        BY <2>0, <3>2 DEF ClockOK
      <4>5. mi # nreg + 1
        BY <2>0, <4>1 DEF MonitorOK
      <4>6. StampIsSilence'
        BY <2>a, <4>2, <4>3, <4>4 DEF TimeInv, StampIsSilence
      <4>7. UnheardIsSilent'
        <5>1. \A d \in Device : d \in Int
          BY <2>0, ConfigFacts DEF Device
        <5> QED
          BY <3>2, <4>1, <4>2, <5>1 DEF TimeInv, UnheardIsSilent
      <4>8. OperandsInStep'
        BY <2>a, <4>2, <4>4, <4>5 DEF TimeInv, OperandsInStep, monitor, history
      <4> QED
        BY <4>6, <4>7, <4>8 DEF TimeInv
    <3> QED
      BY <2>5, <3>1, <3>2 DEF JointAdd
  <2>6. CASE JointLoad \/ JointStore \/ UNCHANGED vars
    BY <2>6 DEF TimeInv, StampIsSilence, UnheardIsSilent, OperandsInStep,
                JointLoad, JointStore, vars, monitor, history
  <2> QED
    BY <2>1, <2>2, <2>3, <2>4, <2>5, <2>6 DEF Next, Monitor, Register
<1> QED
  BY <1>1, <1>2, TypeCorrect, PTL DEF Spec
\* What the monitor reads off the two operands.  Unless a frame came between
\* them, it is no more than the silence of the device, and a short distance
\* means that the device had been heard in time when the first was evaluated.
LEMMA OfflineTime ==
  ASSUME TypeOK, TimeInv, mpc = "judge", ~overtaken, silence[mi] < TickMod
  PROVE  /\ offline_time <= silence[mi]
         /\ offline_time <= Timeout => mheard
<1>0. ClockOK /\ MonitorOK /\ RegisterOK
  BY DEF TypeOK
<1>1. mi \in Device /\ mlag \in Nat
  BY <1>0, ConfigFacts, TimeAssumption DEF MonitorOK, Device
<1>2. silence[mi] \in Nat /\ Timeout \in Nat
  BY <1>0, <1>1, TimeAssumption DEF ClockOK
<1>3. CASE mold = NoTick
  <2>1. offline_time = silence[mi] - mlag
    BY <1>3 DEF offline_time, TimeInv, OperandsInStep
  <2> QED
    BY <2>1, <1>1, <1>2 DEF TimeInv, OperandsInStep
<1>4. CASE mold # NoTick
  <2>1. mnow = NoTick /\ mold = devTick[mi]
    BY <1>4 DEF TimeInv, OperandsInStep
  <2>2. offline_time = silence[mi]
    BY <1>1, <1>4, <2>1 DEF offline_time, TimeInv, StampIsSilence
  <2> QED
    BY <2>2, <1>1, <1>2 DEF TimeInv, OperandsInStep
<1> QED
  BY <1>3, <1>4

\* The unsigned difference update_to_controller computes is an integer.
LEMMA OfflineTimeInt == ASSUME TypeOK PROVE offline_time \in Int
<1>0. ClockOK /\ MonitorOK /\ RegisterOK
  BY DEF TypeOK
<1>1. mi \in Device
  BY <1>0, ConfigFacts DEF MonitorOK, Device
<1>2. /\ tick \in Int /\ devTick[mi] \in Int /\ mnow \in Int /\ mold \in Int
      /\ TickMod \in Int
  BY <1>0, <1>1, TimeAssumption DEF ClockOK, MonitorOK, NoTick
<1> QED
  BY <1>2 DEF offline_time, Sub

\* A flag changes only when the monitor judges that device.
LEMMA FlagChange ==
  ASSUME TypeOK, [Next]_vars, NEW d \in Present, IsOnline(d) # IsOnline(d)'
  PROVE  /\ MonJudge /\ mpc = "judge" /\ d = mi
         /\ IsOnline(d)' <=> ~(offline_time > Timeout)
<1>0. RegisterOK /\ FlagOK /\ nreg \in Nat
  BY ConfigFacts DEF TypeOK
<1>1. d \in 0..nreg
  BY DEF Present
<1>2. CASE MonJudge
  <2>1. CASE mi = Dbus
    BY <1>2, <2>1 DEF MonJudge, IsOnline
  <2>2. CASE mi # Dbus
    <3>1. d # Dbus => d \in Joint
      BY <1>0, <1>1, ConfigFacts DEF Joint, Dbus
    <3>2. online' = [online EXCEPT ![mi] = ~(offline_time > Timeout)]
          /\ dbusOnline' = dbusOnline
      BY <1>2, <2>2, <1>0 DEF MonJudge, FlagOK
    <3> QED
      BY <1>0, <1>2, <3>1, <3>2 DEF MonJudge, IsOnline, FlagOK
  <2> QED
    BY <2>1, <2>2
<1>3. CASE JointAdd
  <2>1. d # nreg + 1
    BY <1>0, <1>1
  <2>2. dbusOnline' = dbusOnline
    BY <1>3 DEF JointAdd
  <2>3. d # Dbus => online'[d] = online[d]
    <3>0. d # Dbus => d \in Joint
      BY <1>0, <1>1, ConfigFacts DEF Joint, Dbus
    <3>1. online' = online \/ online' = [online EXCEPT ![nreg + 1] = FALSE]
      BY <1>3 DEF JointAdd
    <3> QED
      BY <2>1, <3>0, <3>1, <1>0 DEF FlagOK
  <2> QED
    BY <2>2, <2>3 DEF IsOnline
<1>4. CASE Tick \/ Interrupt \/ MonWake \/ MonSample \/ MonLoad \/ MonStore
            \/ JointLoad \/ JointStore \/ UNCHANGED vars
  BY <1>4 DEF IsOnline, Tick, Interrupt, update_single_isr, MonWake, MonSample,
              MonLoad, MonStore, JointLoad, JointStore, vars
<1> QED
  BY <1>2, <1>3, <1>4 DEF Next, Monitor, Register

\* A device goes offline only after a silence of more than Timeout ticks, or
\* when a frame came between the operands of the subtraction.
THEOREM OfflineOnlyWhenSilent == Spec => OfflineJustified
<1>1. TypeOK /\ TimeInv /\ [Next]_vars =>
        [\A d \in Present :
           IsOnline(d) /\ ~IsOnline(d)' => silence[d] > Timeout \/ overtaken]_vars
  <2> SUFFICES ASSUME TypeOK, TimeInv, [Next]_vars, NEW d \in Present,
                      IsOnline(d), ~IsOnline(d)', ~overtaken
               PROVE  silence[d] > Timeout
    OBVIOUS
  <2>1. mpc = "judge" /\ d = mi /\ offline_time > Timeout
    BY FlagChange
  <2>2. silence[d] \in 0..TickMod
    BY ConfigFacts DEF TypeOK, ClockOK, Present, Device
  <2>3. CASE silence[d] < TickMod
    <3>1. offline_time <= silence[mi]
      BY <2>1, <2>3, OfflineTime
    <3>2. offline_time \in Int
      BY OfflineTimeInt
    <3> QED
      BY <2>1, <2>2, <3>1, <3>2, TimeAssumption
  <2>4. CASE silence[d] = TickMod
    BY <2>4, TimeAssumption
  <2> QED
    BY <2>2, <2>3, <2>4, TimeAssumption
<1> QED
  BY <1>1, TypeCorrect, TimeInvariant, PTL DEF Spec, OfflineJustified

\* A device comes online only if it was heard in time, or if the tick counter
\* has come round since its stamp.
THEOREM OnlineOnlyWhenHeard == Spec => OnlineJustified
<1>1. TypeOK /\ TimeInv /\ [Next]_vars =>
        [\A d \in Present :
           ~IsOnline(d) /\ IsOnline(d)' =>
             mheard \/ silence[d] <= MaxLag \/ silence[d] = TickMod]_vars
  <2> SUFFICES ASSUME TypeOK, TimeInv, [Next]_vars, NEW d \in Present,
                      ~IsOnline(d), IsOnline(d)', silence[d] # TickMod
               PROVE  mheard \/ silence[d] <= MaxLag
    OBVIOUS
  <2>1. mpc = "judge" /\ d = mi /\ ~(offline_time > Timeout)
    BY FlagChange
  <2>2. silence[d] \in 0..TickMod
    BY ConfigFacts DEF TypeOK, ClockOK, Present, Device
  <2>3. CASE overtaken
    <3>1. silence[mi] <= mlag /\ mlag \in 0..MaxLag
      BY <2>1, <2>3 DEF TimeInv, OperandsInStep, TypeOK, MonitorOK
    <3> QED
      BY <2>1, <2>2, <3>1, TimeAssumption
  <2>4. CASE ~overtaken
    <3>1. silence[mi] < TickMod
      BY <2>1, <2>2, TimeAssumption
    <3>2. offline_time <= Timeout => mheard
      BY <2>1, <2>4, <3>1, OfflineTime
    <3>3. offline_time \in Int
      BY OfflineTimeInt
    <3> QED
      BY <2>1, <3>2, <3>3, TimeAssumption
  <2> QED
    BY <2>3, <2>4
<1> QED
  BY <1>1, TypeCorrect, TimeInvariant, PTL DEF Spec, OnlineJustified

-----------------------------------------------------------------------------
(* How old the news behind a flag can be. *)

\* The monitor's steps since the start of its round, every joint taken to need
\* the four steps of one whose flag changes.
Progress ==
  CASE mpc = "sleep"  -> 0
    [] mpc = "sample" -> IF mi = Dbus THEN 1 ELSE 4 * mi - 1
    [] mpc = "judge"  -> IF mi = Dbus THEN 2 ELSE 4 * mi
    [] mpc = "load"   -> 4 * mi + 1
    [] mpc = "store"  -> 4 * mi + 2

\* Where device d is judged.
Turn(d) == IF d = Dbus THEN 2 ELSE 4 * d

\* The steps since device d was judged, in this round or in the one before.
Age(d) == IF Progress > Turn(d) THEN Progress - Turn(d) - 1
          ELSE Progress + 4 * nreg + 2 - Turn(d)

\* A joint beyond the end of the list that the round goes by, or not registered
\* at all, is not online yet.
ListInv ==
  /\ mi # Dbus => mi <= mend
  /\ \A d \in Joint : d > nreg \/ (mi # Dbus /\ d > mend) => ~online[d]

\* The silence of an online device is what it may have been when it was judged,
\* and what has passed in the monitor's steps since.
AgeInv ==
  \A d \in Present :
    IsOnline(d) => \/ silence[d] = TickMod
                   \/ silence[d] <= Timeout + MaxLag * (1 + Age(d)) + mlag

\* Where the round stands, in numbers.
LEMMA AgeFacts ==
  ASSUME TypeOK, NEW d \in Present
  PROVE  /\ Progress \in 0..(4 * nreg + 2) /\ Turn(d) \in 2..(4 * nreg + 2)
         /\ Age(d) \in 0..(4 * nreg + 2)
<1>1. nreg \in Nat /\ mi \in 0..nreg /\ d \in 0..nreg
      /\ mpc \in {"sleep", "sample", "judge", "load", "store"}
      /\ (mpc \in {"load", "store"} => mi # Dbus)
  BY ConfigFacts DEF TypeOK, MonitorOK, Present
<1>2. Progress \in 0..(4 * nreg + 2)
  BY <1>1 DEF Progress, Dbus
<1>3. Turn(d) \in 2..(4 * nreg + 2)
  BY <1>1 DEF Turn, Dbus
<1> QED BY <1>1, <1>2, <1>3 DEF Age

\* The same of the state after a step.
LEMMA AgeNext ==
  ASSUME TypeOK', NEW d, d \in 0..nreg'
  PROVE  Progress' \in 0..(4 * nreg' + 2) /\ Age(d)' \in Nat
<1> USE DEF Dbus
<1>1. PICK n \in Nat : n = nreg'
  <2>1. config' \in Seq(1..11) /\ nreg' \in 0..Len(config')
    BY MonitorConfigAssumption DEF TypeOK, RegisterOK
  <2> QED BY <2>1
<1>2. PICK m \in 0..n : m = mi'
  BY <1>1 DEF TypeOK, MonitorOK
<1>3. mpc' \in {"sleep", "sample", "judge", "load", "store"}
      /\ (mpc' \in {"load", "store"} => m # 0)
  BY <1>2 DEF TypeOK, MonitorOK
<1>4. 4 * m + 2 <= 4 * n + 2 /\ (m # 0 => 4 * m - 1 >= 0)
  OBVIOUS
<1>5. Progress' \in 0..(4 * n + 2)
  <2>1. CASE mpc' = "sleep"
    BY <2>1 DEF Progress
  <2>2. CASE mpc' = "sample"
    <3>1. Progress' = IF m = 0 THEN 1 ELSE 4 * m - 1
      BY <1>2, <2>2 DEF Progress
    <3> QED BY <1>4, <3>1
  <2>3. CASE mpc' = "judge"
    <3>1. Progress' = IF m = 0 THEN 2 ELSE 4 * m
      BY <1>2, <2>3 DEF Progress
    <3> QED BY <1>4, <3>1
  <2>4. CASE mpc' \in {"load", "store"}
    <3>1. Progress' = 4 * m + 1 \/ Progress' = 4 * m + 2
      BY <1>2, <2>4 DEF Progress
    <3> QED BY <1>4, <3>1
  <2> QED BY <1>3, <2>1, <2>2, <2>3, <2>4
<1>6. PICK q \in 0..(4 * n + 2) : q = Progress'
  BY <1>5
<1>7. d \in 0..n /\ Turn(d) \in 2..(4 * n + 2)
  <2>1. d \in 0..n
    BY <1>1, Zenon
  <2> QED BY <2>1 DEF Turn
<1>8. (IF q > Turn(d) THEN q - Turn(d) - 1 ELSE q + 4 * n + 2 - Turn(d)) \in Nat
  BY <1>7
<1>9. Age(d)' = IF q > Turn(d) THEN q - Turn(d) - 1 ELSE q + 4 * n + 2 - Turn(d)
  BY <1>1, <1>6 DEF Age, Turn
<1> QED BY <1>1, <1>5, <1>8, <1>9

\* One more step is MaxLag more ticks.
LEMMA OneStepMore ==
  ASSUME NEW a \in Nat, NEW b \in Nat, a + 1 <= b
  PROVE  /\ MaxLag * (1 + a) \in Nat
         /\ MaxLag * (1 + b) \in Nat
         /\ MaxLag * (1 + a) + MaxLag <= MaxLag * (1 + b)
<1>1. MaxLag \in Nat
  BY TimeAssumption
<1>2. \A x \in Nat, m \in Nat : m * x \in Nat
  BY Z3
<1>3. \A m \in Nat, x \in Nat, y \in Nat : x + 1 <= y => m * (1 + x) + m <= m * (1 + y)
  <2> SUFFICES ASSUME NEW m \in Nat, NEW x \in Nat, NEW y \in Nat, x + 1 <= y
               PROVE  m * (1 + x) + m <= m * (1 + y)
    OBVIOUS
  <2>1. PICK k \in Nat : y = x + 1 + k
    <3>1. y - (x + 1) \in Nat /\ y = x + 1 + (y - (x + 1))
      OBVIOUS
    <3> QED BY <3>1
  <2>2. m * (1 + y) = m * (1 + x) + m + m * k
    BY <2>1, Z3
  <2>3. m * k \in Nat /\ m * (1 + x) \in Nat
    BY <1>2
  <2> QED BY <2>2, <2>3
<1> QED BY <1>1, <1>2, <1>3

\* A round that goes on without passing a device's turn, or that ends after it,
\* makes the verdict on the device one step older.
LEMMA OneStepOlder ==
  ASSUME NEW n \in Nat, NEW t \in 2..(4 * n + 2),
         NEW p \in 0..(4 * n + 2), NEW q \in 0..(4 * n + 2),
         \/ p < q /\ (p <= t => q <= t)
         \/ q = 0 /\ p > t
  PROVE  (IF p > t THEN p - t - 1 ELSE p + 4 * n + 2 - t) + 1
           <= (IF q > t THEN q - t - 1 ELSE q + 4 * n + 2 - t)
OBVIOUS

\* The lists of devices and the flags of those that no round has come to.
LEMMA ListStep ==
  ASSUME TypeOK, TypeOK', ListInv, [Next]_vars
  PROVE  ListInv'
<1>1. /\ nreg \in Nat /\ mi \in 0..nreg /\ mend \in 0..nreg
      /\ online \in [Joint -> BOOLEAN] /\ Joint = 1..MaxJoint /\ MaxJoint \in Nat
  BY ConfigFacts DEF TypeOK, MonitorOK, FlagOK, Joint
<1>2. CASE UNCHANGED <<nreg, mi, mend, online>>
  BY <1>2 DEF ListInv
<1>3. ASSUME Advance, nreg' = nreg, \A d \in Joint : d # mi => online'[d] = online[d]
      PROVE  ListInv'
  <2> USE DEF Dbus
  <2>1. CASE mi = Dbus
    <3>1. mend' = nreg /\ (mi' = Dbus \/ (mi' = 1 /\ 0 < nreg))
      BY <1>3, <2>1 DEF Advance
    <3>2. \A d \in Joint : d > nreg => ~online'[d]
      BY <1>1, <1>3, <2>1 DEF ListInv
    <3> QED BY <1>1, <1>3, <3>1, <3>2 DEF ListInv
  <2>2. CASE mi # Dbus
    <3>1. mend' = mend /\ (mi' = Dbus \/ (mi' = mi + 1 /\ mi < mend))
      BY <1>3, <2>2 DEF Advance
    <3>2. \A d \in Joint : d > nreg \/ d > mend => ~online'[d]
      BY <1>1, <1>3, <2>2 DEF ListInv
    <3>3. mi' # Dbus => mi' <= mend
      BY <1>1, <3>1
    <3> QED BY <1>1, <1>3, <3>1, <3>2, <3>3 DEF ListInv
  <2> QED BY <2>1, <2>2
<1>4. CASE MonWake
  <2>1. mi' = Dbus /\ nreg' = nreg /\ online' = online
    BY <1>4 DEF MonWake
  <2> QED BY <2>1 DEF ListInv
<1>5. CASE MonJudge
  <2>1. nreg' = nreg
    BY <1>5 DEF MonJudge
  <2>2. CASE Advance /\ UNCHANGED online
    BY <1>3, <2>1, <2>2
  <2>3. CASE mi # Dbus /\ UNCHANGED <<mi, mend>> /\ mpc' = "load"
    <3>1. online' = [online EXCEPT ![mi] = ~(offline_time > Timeout)]
      BY <1>5, <2>3 DEF MonJudge, Advance
    <3>2. \A d \in Joint : d # mi => online'[d] = online[d]
      BY <1>1, <3>1
    <3> QED BY <1>1, <2>1, <2>3, <3>2 DEF ListInv
  <2> QED BY <1>5, <2>2, <2>3 DEF MonJudge
<1>6. CASE MonStore
  BY <1>3, <1>6 DEF MonStore
<1>7. CASE JointAdd
  <2>1. CASE UNCHANGED <<nreg, online>>
    BY <1>2, <1>7, <2>1 DEF JointAdd, monitor
  <2>2. CASE nreg' = nreg + 1 /\ online' = [online EXCEPT ![nreg + 1] = FALSE]
    <3>1. mi' = mi /\ mend' = mend
      BY <1>7 DEF JointAdd, monitor
    <3>2. \A d \in Joint : online'[d] => online[d]
      BY <1>1, <2>2
    <3>3. \A d \in Joint : d > nreg + 1 => d > nreg
      BY <1>1
    <3> QED BY <1>1, <2>2, <3>1, <3>2, <3>3 DEF ListInv
  <2> QED BY <1>7, <2>1, <2>2 DEF JointAdd
<1>8. CASE Tick \/ Interrupt \/ MonSample \/ MonLoad \/ JointLoad \/ JointStore \/ UNCHANGED vars
  BY <1>2, <1>8 DEF Tick, Interrupt, update_single_isr, MonSample, MonLoad, JointLoad,
                    JointStore, vars, monitor
<1> QED
  BY <1>4, <1>5, <1>6, <1>7, <1>8 DEF Next, Monitor, Register

\* A step of the monitor that does not judge an online device makes the last
\* verdict on it one step older.
LEMMA AgeGrows ==
  ASSUME TypeOK, TypeOK', ListInv, Monitor, NEW d \in Present, IsOnline(d),
         ~(mpc = "judge" /\ mi = d)
  PROVE  Age(d) + 1 <= Age(d)' /\ Age(d)' \in Nat
<1> USE DEF Dbus
<1>1. /\ nreg \in Nat /\ mi \in 0..nreg /\ mend \in 0..nreg /\ d \in 0..nreg
      /\ nreg' = nreg /\ Progress \in 0..(4 * nreg + 2)
  BY ConfigFacts, AgeFacts DEF TypeOK, MonitorOK, Present, Monitor, MonWake, MonSample,
                               MonJudge, MonLoad, MonStore
<1>2. Progress' \in 0..(4 * nreg + 2) /\ Age(d)' \in Nat
  BY <1>1, AgeNext
<1>3. Turn(d) \in 2..(4 * nreg + 2)
  BY <1>1 DEF Turn
<1>4. d > mi => mi < (IF mi = Dbus THEN nreg ELSE mend)
  <2>1. d > mi => d \in Joint /\ online[d]
    BY <1>1, ConfigFacts DEF TypeOK, Joint, IsOnline
  <2>2. d > mi /\ mi # Dbus => d <= mend
    BY <1>1, <2>1 DEF ListInv
  <2> QED BY <1>1, <2>2
<1>5. ASSUME Advance
      PROVE  \/ Progress' = 4 * mi + 3
             \/ Progress' = 0 /\ d <= mi
  <2>1. CASE mpc' = "sample" /\ mi' = mi + 1
    <3>1. Progress' = 4 * (mi + 1) - 1
      BY <1>1, <2>1 DEF Progress
    <3> QED BY <1>1, <3>1
  <2>2. CASE mpc' = "sleep" /\ ~(mi < (IF mi = Dbus THEN nreg ELSE mend))
    <3>1. Progress' = 0
      BY <2>2 DEF Progress
    <3> QED BY <1>1, <1>4, <2>2, <3>1
  <2> QED BY <1>5, <2>1, <2>2 DEF Advance
<1>6. \/ Progress < Progress' /\ (Progress <= Turn(d) => Progress' <= Turn(d))
      \/ Progress' = 0 /\ Progress > Turn(d)
  <2>1. CASE MonWake
    <3>1. Progress = 0 /\ Progress' = 1
      BY <2>1 DEF MonWake, Progress
    <3> QED BY <1>3, <3>1
  <2>2. CASE MonSample
    <3>1. Progress = (IF mi = 0 THEN 1 ELSE 4 * mi - 1)
          /\ Progress' = (IF mi = 0 THEN 2 ELSE 4 * mi)
      BY <2>2 DEF MonSample, Progress
    <3> QED BY <1>1, <3>1 DEF Turn
  <2>3. CASE MonJudge
    <3>1. Progress = (IF mi = 0 THEN 2 ELSE 4 * mi) /\ d # mi
      BY <2>3 DEF MonJudge, Progress
    <3>2. CASE Advance
      BY <1>1, <1>5, <3>1, <3>2 DEF Turn
    <3>3. CASE mi # Dbus /\ mpc' = "load" /\ mi' = mi
      <4>1. Progress' = 4 * mi + 1
        BY <3>3 DEF Progress
      <4> QED BY <1>1, <3>1, <3>3, <4>1 DEF Turn
    <3> QED BY <2>3, <3>2, <3>3 DEF MonJudge
  <2>4. CASE MonLoad
    <3>1. Progress = 4 * mi + 1 /\ Progress' = 4 * mi + 2 /\ mi # 0
      BY <2>4 DEF MonLoad, Progress, TypeOK, MonitorOK
    <3> QED BY <1>1, <3>1 DEF Turn
  <2>5. CASE MonStore
    <3>1. Progress = 4 * mi + 2 /\ mi # 0 /\ Advance
      BY <2>5 DEF MonStore, Progress, TypeOK, MonitorOK
    <3> QED BY <1>1, <1>5, <3>1 DEF Turn
  <2> QED BY <2>1, <2>2, <2>3, <2>4, <2>5 DEF Monitor
<1>7. PICK q \in 0..(4 * nreg + 2) : q = Progress'
  BY <1>2
<1>8. Age(d)' = IF q > Turn(d) THEN q - Turn(d) - 1 ELSE q + 4 * nreg + 2 - Turn(d)
  BY <1>1, <1>7 DEF Age, Turn
<1>9. (IF Progress > Turn(d) THEN Progress - Turn(d) - 1 ELSE Progress + 4 * nreg + 2 - Turn(d)) + 1
        <= IF q > Turn(d) THEN q - Turn(d) - 1 ELSE q + 4 * nreg + 2 - Turn(d)
  BY <1>1, <1>3, <1>6, <1>7, OneStepOlder
<1> QED BY <1>2, <1>8, <1>9 DEF Age

\* What update_to_controller's verdict says of the silence of a device.
LEMMA VerdictIsRecent ==
  ASSUME TypeOK, TimeInv, mpc = "judge", ~(offline_time > Timeout), silence[mi] # TickMod
  PROVE  silence[mi] <= Timeout + MaxLag
<1>1. /\ silence[mi] \in 0..TickMod /\ mlag \in 0..MaxLag /\ offline_time \in Int
      /\ Timeout \in Nat /\ MaxLag \in Nat /\ TickMod \in Nat
  BY ConfigFacts, OfflineTimeInt, TimeAssumption DEF TypeOK, ClockOK, MonitorOK, Device
<1>2. CASE overtaken
  BY <1>1, <1>2 DEF TimeInv, OperandsInStep
<1>3. CASE ~overtaken
  <2>1. silence[mi] < TickMod /\ offline_time <= Timeout
    BY <1>1
  <2>2. mheard
    BY <1>3, <2>1, OfflineTime
  <2>3. silence[mi] - mlag <= Timeout
    BY <1>3, <2>1, <2>2 DEF TimeInv, OperandsInStep
  <2> QED BY <1>1, <2>3
<1> QED BY <1>2, <1>3

\* No step makes the silence of an online device longer than the steps since the
\* verdict allow.
LEMMA AgeStep ==
  ASSUME TypeOK, TypeOK', TimeInv, ListInv, AgeInv, [Next]_vars
  PROVE  AgeInv'
<1> USE TimeAssumption
<1>1. /\ nreg \in Nat /\ nreg \in 0..MaxJoint /\ MaxJoint \in Nat
      /\ silence \in [Device -> 0..TickMod] /\ mlag \in 0..MaxLag
      /\ Present \subseteq Device /\ online \in [Joint -> BOOLEAN]
  BY ConfigFacts DEF TypeOK, ClockOK, MonitorOK, FlagOK, Present, Device
<1>2. ASSUME NEW d \in Present
      PROVE  /\ Age(d) \in Nat /\ MaxLag * (1 + Age(d)) \in Nat
             /\ silence[d] \in 0..TickMod
             /\ IsOnline(d) => \/ silence[d] = TickMod
                               \/ silence[d] <= Timeout + MaxLag * (1 + Age(d)) + mlag
  <2>1. Age(d) \in Nat /\ Age(d) + 1 \in Nat
    BY <1>1, AgeFacts
  <2> QED BY <1>1, <2>1, OneStepMore DEF AgeInv
<1>3. ASSUME UNCHANGED <<nreg, online, dbusOnline, mpc, mi>>,
             NEW d \in Present,
             \/ silence'[d] = 0 /\ mlag' = mlag
             \/ silence'[d] = silence[d] /\ mlag' = mlag
             \/ silence'[d] = TickMod
             \/ silence[d] # TickMod /\ silence'[d] = silence[d] + 1 /\ mlag' = mlag + 1
      PROVE  IsOnline(d)' => \/ silence'[d] = TickMod
                             \/ silence'[d] <= Timeout + MaxLag * (1 + Age(d)') + mlag'
  <2>1. (IsOnline(d)' <=> IsOnline(d)) /\ Age(d)' = Age(d)
    BY <1>3 DEF IsOnline, Age, Progress, Turn
  <2>2. CASE silence'[d] = 0 /\ mlag' = mlag
    <3>1. 0 <= Timeout + MaxLag * (1 + Age(d)) + mlag
      BY <1>1, <1>2
    <3> QED BY <2>1, <2>2, <3>1
  <2>3. CASE silence'[d] = silence[d] /\ mlag' = mlag
    BY <1>2, <2>1, <2>3
  <2>4. CASE silence[d] # TickMod /\ silence'[d] = silence[d] + 1 /\ mlag' = mlag + 1
    <3> SUFFICES ASSUME IsOnline(d)
                 PROVE  silence[d] + 1 <= Timeout + MaxLag * (1 + Age(d)) + (mlag + 1)
      BY <2>1, <2>4
    <3> QED BY <1>1, <1>2, <2>4
  <2> QED BY <1>3, <2>2, <2>3, <2>4
<1>4. CASE Tick
  <2>1. /\ UNCHANGED <<nreg, online, dbusOnline, mpc, mi>> /\ mlag' = mlag + 1
        /\ silence' = [d \in Device |-> IF silence[d] < TickMod THEN silence[d] + 1 ELSE TickMod]
    BY <1>4 DEF Tick
  <2>2. \A d \in Present : \/ silence'[d] = TickMod
                           \/ silence[d] # TickMod /\ silence'[d] = silence[d] + 1
    BY <1>1, <2>1
  <2> QED BY <1>3, <2>1, <2>2 DEF AgeInv, Present
<1>5. CASE Interrupt
  <2>1. /\ UNCHANGED <<nreg, online, dbusOnline, mpc, mi>> /\ mlag' = mlag
        /\ \E e \in Present : silence' = [silence EXCEPT ![e] = 0]
    BY <1>5 DEF Interrupt, update_single_isr, monitor
  <2>2. \A d \in Present : silence'[d] = 0 \/ silence'[d] = silence[d]
    BY <1>1, <2>1
  <2> QED BY <1>3, <2>1, <2>2 DEF AgeInv, Present
<1>6. CASE JointLoad \/ JointStore \/ UNCHANGED vars
  <2>1. UNCHANGED <<nreg, online, dbusOnline, mpc, mi, mlag, silence>>
    BY <1>6 DEF JointLoad, JointStore, vars, monitor, history
  <2> QED BY <1>3, <2>1 DEF AgeInv, Present
<1>7. CASE JointAdd
  <2>1. CASE UNCHANGED <<nreg, online>>
    <3>1. UNCHANGED <<nreg, online, dbusOnline, mpc, mi, mlag, silence>>
      BY <1>7, <2>1 DEF JointAdd, monitor, history
    <3> QED BY <1>3, <3>1 DEF AgeInv, Present
  <2>2. CASE nreg' = nreg + 1 /\ online' = [online EXCEPT ![nreg + 1] = FALSE]
    <3>1. UNCHANGED <<dbusOnline, mpc, mi, mlag, silence>>
      BY <1>7 DEF JointAdd, monitor, history
    <3>2. nreg + 1 \in Joint
      BY <1>1, <1>7, ConfigFacts DEF JointAdd, Joint, TypeOK
    <3> SUFFICES ASSUME NEW d \in 0..(nreg + 1), IsOnline(d)', silence[d] # TickMod
                 PROVE  silence[d] <= Timeout + MaxLag * (1 + Age(d)') + mlag
      BY <2>2, <3>1 DEF AgeInv, Present
    <3>3. d \in Present /\ IsOnline(d)
      <4>1. d # nreg + 1
        BY <1>1, <2>2, <3>2 DEF IsOnline, Dbus
      <4>2. d \in 0..nreg
        BY <1>1, <4>1
      <4>3. d # Dbus => d \in Joint
        BY <1>1, <4>2 DEF Joint, Dbus
      <4> QED BY <1>1, <2>2, <3>1, <4>1, <4>2, <4>3 DEF IsOnline, Present
    <3>4. PICK b \in Nat : b = Age(d)' /\ Age(d) <= b
      <4>1. /\ Progress \in 0..(4 * nreg + 2) /\ Turn(d) \in 2..(4 * nreg + 2)
        BY <3>3, AgeFacts
      <4>2. Progress' = Progress /\ Turn(d)' = Turn(d)
        BY <3>1 DEF Progress, Turn
      <4>3. Age(d)' = IF Progress > Turn(d) THEN Progress - Turn(d) - 1
                      ELSE Progress + 4 * (nreg + 1) + 2 - Turn(d)
        BY <2>2, <4>2 DEF Age
      <4> QED BY <1>1, <4>1, <4>3 DEF Age
    <3>5. MaxLag * (1 + Age(d)) <= MaxLag * (1 + b) /\ MaxLag * (1 + b) \in Nat
      <4>1. Age(d) \in Nat /\ MaxLag * (1 + Age(d)) \in Nat
        BY <1>2, <3>3
      <4>2. CASE Age(d) = b
        BY <4>1, <4>2
      <4>3. CASE Age(d) + 1 <= b
        BY <4>1, <4>3, OneStepMore
      <4> QED BY <3>4, <4>1, <4>2, <4>3
    <3> QED BY <1>1, <1>2, <3>3, <3>4, <3>5
  <2> QED BY <1>7, <2>1, <2>2 DEF JointAdd
<1>8. CASE Monitor
  <2>1. nreg' = nreg /\ silence' = silence /\ mlag' = 0
    BY <1>8 DEF Monitor, MonWake, MonSample, MonJudge, MonLoad, MonStore, history
  <2> SUFFICES ASSUME NEW d \in Present, IsOnline(d)', silence[d] # TickMod
               PROVE  silence[d] <= Timeout + MaxLag * (1 + Age(d)') + 0
    BY <2>1 DEF AgeInv, Present
  <2>2. PICK b \in Nat : b = Age(d)'
    BY <1>1, <2>1, AgeNext DEF Present
  <2>3. MaxLag * (1 + b) \in Nat /\ MaxLag <= MaxLag * (1 + b)
    <3>1. MaxLag * (1 + 0) = MaxLag
      BY Z3
    <3>2. CASE b = 0
      BY <3>1, <3>2
    <3>3. CASE 0 + 1 <= b
      BY <3>1, <3>3, OneStepMore
    <3> QED BY <3>2, <3>3
  <2>4. CASE mpc = "judge" /\ mi = d
    <3>1. MonJudge
      BY <1>8, <2>4 DEF Monitor, MonWake, MonSample, MonLoad, MonStore
    <3>2. ~(offline_time > Timeout)
      <4>1. CASE IsOnline(d)
        <5>1. mi = Dbus => dbusOnline' = ~(offline_time > Timeout)
          BY <3>1 DEF MonJudge
        <5>2. mi # Dbus => online'[mi] = ~(offline_time > Timeout)
          <6>1. mi # Dbus => mi \in Joint
            BY <1>1, <2>4 DEF Present, Joint, Dbus
          <6> QED BY <1>1, <3>1, <6>1 DEF MonJudge
        <5> QED BY <2>4, <5>1, <5>2 DEF IsOnline
      <4>2. CASE ~IsOnline(d)
        BY <4>2, FlagChange
      <4> QED BY <4>1, <4>2
    <3>3. silence[d] <= Timeout + MaxLag
      BY <2>4, <3>2, VerdictIsRecent
    <3> QED BY <1>2, <2>2, <2>3, <3>3
  <2>5. CASE ~(mpc = "judge" /\ mi = d)
    <3>1. IsOnline(d)
      <4>1. CASE IsOnline(d)' <=> IsOnline(d)
        BY <4>1
      <4>2. CASE ~(IsOnline(d)' <=> IsOnline(d))
        BY <2>5, <4>2, FlagChange
      <4> QED BY <4>1, <4>2
    <3>2. Age(d) + 1 <= b
      BY <1>8, <2>2, <2>5, <3>1, AgeGrows
    <3>3. MaxLag * (1 + Age(d)) + MaxLag <= MaxLag * (1 + b)
      BY <1>2, <3>2, OneStepMore
    <3> QED BY <1>1, <1>2, <2>2, <2>3, <3>1, <3>3
  <2> QED BY <2>4, <2>5
<1> QED BY <1>4, <1>5, <1>6, <1>7, <1>8 DEF Next, Register

\* The monitor's rounds bound the age of every verdict.
THEOREM AgeInvariant == Spec => [](ListInv /\ AgeInv)
<1>1. Init => ListInv /\ AgeInv
  BY DEF Init, ListInv, AgeInv, IsOnline, Dbus, Present, Joint
<1>2. TypeOK /\ TypeOK' /\ TimeInv /\ (ListInv /\ AgeInv) /\ [Next]_vars => (ListInv /\ AgeInv)'
  BY ListStep, AgeStep
<1> QED BY <1>1, <1>2, TypeCorrect, TimeInvariant, PTL DEF Spec

\* A broken link is noticed in time: an online device was heard at most Timeout
\* ticks and one round of update_to_controller ago, for every number of joints and
\* however the registration of joints falls into the rounds.
THEOREM OnlineStaysRecent == Spec => []OnlineIsRecent
<1>1. TypeOK /\ AgeInv => OnlineIsRecent
  <2> SUFFICES ASSUME TypeOK, AgeInv, NEW d \in Present, IsOnline(d), silence[d] # TickMod
               PROVE  silence[d] <= Timeout + MaxLag * RoundSteps
    BY DEF OnlineIsRecent
  <2> USE TimeAssumption
  <2>1. /\ Age(d) \in 0..(4 * nreg + 2) /\ nreg \in Nat /\ mlag \in 0..MaxLag
        /\ silence[d] \in Nat
    <3>1. nreg \in Nat /\ nreg <= MaxJoint /\ MaxJoint \in Nat
      BY ConfigFacts DEF TypeOK
    <3>2. d \in Device
      BY <3>1 DEF Present, Device
    <3> QED BY <3>1, <3>2, AgeFacts DEF TypeOK, MonitorOK, ClockOK
  <2>2. silence[d] <= Timeout + MaxLag * (1 + Age(d)) + mlag
    BY DEF AgeInv
  <2>3. MaxLag * (1 + Age(d)) + MaxLag <= MaxLag * (1 + (4 * nreg + 3))
        /\ MaxLag * (1 + Age(d)) \in Nat /\ MaxLag * (1 + (4 * nreg + 3)) \in Nat
    BY <2>1, OneStepMore
  <2>4. RoundSteps = 1 + (4 * nreg + 3)
    BY <2>1 DEF RoundSteps
  <2> QED BY <2>1, <2>2, <2>3, <2>4
<1> QED BY <1>1, TypeCorrect, AgeInvariant, PTL

-----------------------------------------------------------------------------
(* The monitor with its clock implements the counting of PartControl. *)

\* The variables of PartControl as the monitor sees them stay as they are.
CountingUnchanged ==
  UNCHANGED <<config, nreg, online, cnt, halted, CountPc, CountMi, mreg, rpc,
              rreg, lost>>

\* A step that leaves them alone is a stuttering step of PartControl.
LEMMA CountingStutters ==
  ASSUME CountingUnchanged
  PROVE  UNCHANGED PC!vars
BY DEF CountingUnchanged, PC!vars, PC!counter, PC!sender

\* The clock, the interrupts, MonWake and MonSample do not count.
LEMMA ClockStutters ==
  ASSUME Tick \/ Interrupt \/ MonWake \/ MonSample \/ UNCHANGED vars
  PROVE  CountingUnchanged
<1>1. CASE Tick
  BY <1>1 DEF Tick, CountingUnchanged, CountPc, CountMi
<1>2. CASE Interrupt
  BY <1>2 DEF Interrupt, update_single_isr, monitor, CountingUnchanged, CountPc, CountMi
<1>3. CASE MonWake
  BY <1>3 DEF MonWake, history, CountingUnchanged, CountPc, CountMi
<1>4. CASE MonSample
  BY <1>4 DEF MonSample, CountingUnchanged, CountPc, CountMi
<1>5. CASE UNCHANGED vars
  BY <1>5 DEF vars, monitor, history, CountingUnchanged, CountPc, CountMi
<1> QED
  BY <1>1, <1>2, <1>3, <1>4, <1>5

\* MonJudge is a step of PartControl exactly when it changes a joint's flag.
LEMMA JudgeCounts ==
  ASSUME TypeOK, MonJudge
  PROVE  CountingUnchanged \/ \E i \in PC!Registered : PC!Judge(i)
<1> DEFINE verdict == ~(offline_time > Timeout)
<1>1. mpc = "judge" /\ ~halted /\ CountPc = "idle" /\ CountMi = 0
  BY DEF MonJudge, CountPc, CountMi
<1>2. UNCHANGED <<config, nreg, cnt, halted, mreg, rpc, rreg, lost>>
  BY DEF MonJudge
<1>3. CASE Advance /\ UNCHANGED online
  <2>1. mpc' \in {"sample", "sleep"}
    BY <1>3 DEF Advance
  <2>2. CountPc' = "idle" /\ CountMi' = 0
    BY <2>1 DEF CountPc, CountMi
  <2> QED
    BY <1>1, <1>2, <1>3, <2>2 DEF CountingUnchanged
<1>4. CASE /\ mi # Dbus /\ online[mi] # verdict
           /\ online' = [online EXCEPT ![mi] = verdict]
           /\ mpc' = "load" /\ UNCHANGED mi
  <2>1. mi \in PC!Registered /\ mi \in Joint
    BY <1>4, ConfigFacts DEF TypeOK, MonitorOK, PC!Registered, Joint, Dbus
  <2>2. online[mi] \in BOOLEAN /\ verdict \in BOOLEAN
    BY <2>1 DEF TypeOK, FlagOK
  <2>3. verdict = ~online[mi]
    BY <1>4, <2>2, Zenon
  <2>4. CountPc' = "load" /\ CountMi' = mi
    BY <1>4 DEF CountPc, CountMi
  <2>5. PC!Judge(mi)
    BY <1>1, <1>2, <1>4, <2>3, <2>4 DEF PC!Judge, PC!sender
  <2> QED
    BY <2>1, <2>5
<1> QED
  BY <1>3, <1>4 DEF MonJudge

\* Every step of the monitor, of the interrupts and of the registration is a
\* step of PartControl or leaves its variables alone.
LEMMA StepCounts ==
  ASSUME TypeOK, [Next]_vars
  PROVE  [PC!Next]_(PC!vars)
<1>1. CASE Tick \/ Interrupt \/ MonWake \/ MonSample \/ UNCHANGED vars
  BY <1>1, ClockStutters, CountingStutters
<1>2. CASE MonJudge
  <2>1. CASE CountingUnchanged
    BY <2>1, CountingStutters
  <2>2. CASE \E i \in PC!Registered : PC!Judge(i)
    BY <2>2 DEF PC!Next
  <2> QED
    BY <1>2, <2>1, <2>2, JudgeCounts
<1>3. CASE MonLoad
  <2>1. CountPc = "load" /\ CountPc' = "store" /\ CountMi = mi /\ CountMi' = mi
    BY <1>3 DEF MonLoad, CountPc, CountMi
  <2>2. PC!CountLoad
    BY <1>3, <2>1 DEF MonLoad, history, PC!CountLoad, PC!sender, PC!GroupOf,
                      PC!IdAt, GroupOf
  <2> QED
    BY <2>2 DEF PC!Next, PC!Count
<1>4. CASE MonStore
  <2>1. CountPc = "store" /\ CountMi = mi
    BY <1>4 DEF MonStore, CountPc, CountMi
  <2>2. CountPc' = "idle" /\ CountMi' = 0
    BY <1>4 DEF MonStore, Advance, CountPc, CountMi
  <2>3. Sub(mreg, 1, CntMod) = PC!Dec(mreg, CntMod)
    BY MonitorConfigAssumption DEF TypeOK, CounterOK, Sub, PC!Dec
  <2>4. PC!CountStore
    BY <1>4, <2>1, <2>2, <2>3 DEF MonStore, PC!CountStore, PC!sender, PC!GroupOf,
                                  PC!IdAt, PC!Inc, PC!Overwritten, GroupOf, Inc,
                                  Overwritten
  <2> QED
    BY <2>4 DEF PC!Next, PC!Count
<1>5. CASE Register
  <2>1. monitor' = monitor
    BY <1>5 DEF Register, JointAdd, JointLoad, JointStore
  <2>2. CountPc' = CountPc /\ CountMi' = CountMi /\ mreg' = mreg
    BY <2>1 DEF monitor, CountPc, CountMi
  <2>3. JointAdd => PC!JointAdd
    BY <2>2 DEF JointAdd, history, PC!JointAdd, PC!sender, PC!IdAt, PC!Registered
  <2>4. JointLoad => PC!JointLoad
    BY <2>2 DEF JointLoad, history, PC!JointLoad, PC!sender, PC!IdAt, PC!GroupOf,
                GroupOf
  <2>5. JointStore => PC!JointStore
    BY <2>2 DEF JointStore, PC!JointStore, PC!sender, PC!IdAt, PC!GroupOf, PC!Inc,
                PC!Overwritten, GroupOf, Inc, Overwritten
  <2> QED
    BY <1>5, <2>3, <2>4, <2>5 DEF Register, PC!Next, PC!Register
<1> QED
  BY <1>1, <1>2, <1>3, <1>4, <1>5 DEF Next, Monitor

\* The link supervision implements the counting that PartControl specifies:
\* what holds of set_online_cnt's counters there, for flags that change at any
\* time, holds with the flags update_to_controller computes.
THEOREM MonitorImplementsCounting == Spec => CountsAsPartControl
<1>1. Init => PC!Init
  BY DEF Init, PC!Init, PC!CounterInit, PC!Joint, PC!Group, PC!NoFrame, Joint,
         CountPc, CountMi
<1>2. TypeOK /\ [Next]_vars => [PC!Next]_(PC!vars)
  BY StepCounts
<1> QED
  BY <1>1, <1>2, TypeCorrect, PTL DEF Spec, CountsAsPartControl, PC!Spec
=============================================================================
