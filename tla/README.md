# Models of the RoboMaster controller firmware

The firmware runs on an STM32F4 under FreeRTOS. It registers the motors of a
robot, supervises their links, turns the commands of a remote control into
currents and sends them over CAN, and talks micro-ROS to a host over USB. This
directory holds TLA+ models of its concurrent core, TLC configurations for
small instances, and TLAPS proofs for every instance. Paths below are relative
to `src/`, the root of the repository.

## 1. Inventory

### Who runs

| Actor | Code | Scheduling |
|---|---|---|
| `device_monitor` task | `src/app/device_monitor.cpp` | a round, then `osDelay(1)` |
| `motor_control` task | `src/app/motor_control.cpp` | registers the joints, then a round per `osDelay(1)` |
| `micro_ros_app` task | `src/app/microros_core.c` | executor loop, retried after a failure |
| two sensor tasks | `src/app/sensor_unit.cpp` | set-up retried every 100 ms, then one sample per interrupt |
| `echo_control`, default task | `src/app/` | buzzer; start-up |
| CAN receive interrupt | `jointUpdate`, `src/tool/transimition.cpp` | at any time |
| UART receive interrupt | `dbusUpdate`, same file | at any time |
| USB interrupt | `CDC_Receive_FS`, `lib/CDC-Describe/Src/usbd_cdc_if.c` | at any time |
| EXTI interrupt | `HAL_GPIO_EXTI_Callback`, `src/app/default_task.c` | data-ready signals of the sensors |

The tasks have the same priority and are time sliced: one loses the processor
between any two instructions, and an interrupt runs to its end before any task
goes on. Nothing in the application takes a lock except the allocator, which
suspends the scheduler.

### Components

| Component | State | Operations | What must be right |
|---|---|---|---|
| Device monitor | list of joints, their stamp and `online` flag, the receiver's | `register_and_init`, `update_single_isr`, `update_to_controller`, `get_online` | a verdict agrees with the real silence of the device, also when the tick counter wraps or a frame comes in the middle of the judgement |
| Part control | counters of the command groups | `joint_add`, `set_online_cnt`, `set_can_current` | every registered motor is commanded every round; counters shared by two tasks stay exact |
| Transmission | mailboxes, DMA buffers, USB stream | `transimitionCanTx`, `jointUpdate`, `dbusUpdate`, `transimitionUsbCdcRx`, `transimitionUsbCdcReadBlock` | no wait is for ever, no frame goes to another device |
| Cache buffer | ring of bytes, two positions, `circle_` | `write` (interrupt), `read` (task) | the reader gets the accepted bytes once and in order |
| Heap | headers, free list, byte counters | `pvPortMalloc`, `pvPortCalloc`, `vPortFree`, `pvPortRealloc` | blocks never overlap, none is lost, free neighbours are joined |
| micro-ROS allocators | usage counters nothing reads | forward to the heap | as the heap |
| Gimbal, chassis and bullet control | set points, PID state | `on_init`, `update` | a part whose motor or receiver is offline is not driven by stale data |
| PID | last errors, sum, output of two controllers per joint | `pid_speed`, `pid_angle`, `feedback` | resets, outages and torn windows leave nothing in the output that the errors do not explain; conversions do not turn a command round |
| Parameters | joint ids, PID gains | initialised once | ids are distinct |
| micro-ROS application | ping sequence number, pong count | timer and subscription callbacks, retry loop | pongs to own pings are not counted; every failure is cleaned up |
| micro-ROS transport | static deadline, the endpoint | `open`, `close`, `read`, `write` | every wait ends, and a request succeeds once the agent is there |
| Sensors | the sensors' registers, notification, heater | set-up with self tests and retries, reading | a task begins only with a sensor that is set up, and then keeps reading; a cold sensor is heated |
| Echo, PWM, override | - | buzzer, error handler, busy wait | the error handler stops the system |
| DJI legacy tasks | device table | compiled, started by nobody | - |

Interactions: the CAN and UART interrupts stamp devices that `device_monitor`
judges; `device_monitor` and `motor_control` both change the group counters
that `set_can_current` reads; registration grows the list that the interrupt
and the monitor are walking; the USB interrupt writes the ring the micro-ROS
task reads; all tasks share the heap; the monitor shifts the window of feedback
that the controllers copy; the sensors' interrupts wake their tasks.
`PROJECT.json` lists the hazards this creates, each at its line, with the
property that would catch it.

## 2. Modules

| Module | Models | Relation to others |
|---|---|---|
| `PartControl` | registration, group counters, sending (`src/tool/part_control.cpp`) | what `DeviceMonitor` implements |
| `DeviceMonitor` | stamps, clock, verdicts (`src/app/device_monitor.cpp`) | instance of `PartControl` |
| `CacheBuffer` | `include/tool/cache_buffer.hpp` | - |
| `HeapUnits` | addresses, bounds and the result of the last operation | extended by `Heap` and `Heap4` |
| `Heap` | what the allocator promises | specification of `Heap4` |
| `Heap4` | `src/freertos/heap_4_custom.c` with headers and free list | instance of `Heap` |
| `MotorControl` | a round of gimbal, chassis and bullet control (`src/app/*_control.cpp`) with `dbusUpdate` and `get_command_default` | the flags `DeviceMonitor` decides change at any time here |
| `Pid` | `include/tool/pid.hpp` and the conversions around it, as operators | used by `JointLoop` and `Sensors` |
| `JointLoop` | one joint from the frame to the current: `jointUpdate`, the window of `update_to_controller`, `get_mean_speed`, both controllers, the limit | the arithmetic that `MotorControl` abstracts |
| `Transport` | `src/freertos/microros/microros_transports.c` with `CDC_Transmit_FS` and `transimitionUsbCdcReadBlock` | composed with `MicroRosApp`, which extends it |
| `MicroRosApp` | `src/app/microros_core.c` | its requests go over `Transport` |
| `Sensors` | `src/app/sensor_unit.cpp`, `src/devices/bmi088.c`, `ist8310.c` and their middleware | - |
| `DeviceMonitorProofs`, `PartControlProofs`, `CacheBufferProofs`, `HeapProofs`, `MotorControlProofs`, `MicroRosAppProofs`, `JointLoopProofs`, `SensorsProofs` | theorems | extend the modules they are about |
| `MC...` | instances for TLC | extend the modules they instantiate |

Operators whose comment starts with "Mutant" are not part of a specification:
each is a plausible mistake in the definition below it, and `PROJECT.json`
names the property that must then fail.

### PartControl

State: `config` (the ids the parts register, in order), `nreg`, `online`,
`cnt` (`joint_cmd_group_online_cnt_`), the program counter and the register of
each of the two tasks that do `+=` on a counter, and the sender's group `sj`,
mailboxes `mail`, last `frame` and the frames of the round (`sent`). `JointAdd`, `JointLoad` and `JointStore`
are `joint_add`; `Judge`, `CountLoad` and `CountStore` are a change of a flag
and its `set_online_cnt`; `SendGroup` is one iteration of `set_can_current`
with the wait of `transimitionCanTx`; `Transmit` is the CAN controller, which
is external. `halted` is `freertosErrorHandler`, which does not return in the
debug build (`src/override.c`, without `__RELEASE_BUILD`).

All motors of the shipped parameters hang on HCAN1, number 1; the lists and
counters of the other index stay empty and are left out. Set points are left
out: a slot of a frame is the id of the joint whose set point it carries.

`lost` is a history variable: the groups in whose counter some store overwrote
an update made after its load (`Overwritten`). The increments are not atomic, so
this can happen; what is said of a counter is said while none of its own updates
was lost, and the other groups are not excused. `set_online_cnt` is the only
place, and the window is a few instructions wide.

A motor takes its current from one place: the head that `gCanHeadTarget` names,
and there the slot `Place`. `JointsCommanded` asks that a frame of the round had
the motor's set point in this place, and excuses it only if an update of the
counter that decides on this frame (`Bearer`) was lost. It is a property of
the configurations, too: it fails for every one with id 8, whose slot carries
joint 4, and for one in which id 4 is alone (finding 1).

### DeviceMonitor

Adds the clock: `tick` with `TickMod` values, `devTick` per device (device 0
is the receiver), and the steps of `update_to_controller`. `MonSample` and
`MonJudge` split `xTaskGetTickCount() - device.tick` into its two operands, in
either order, since C++ leaves the order open, so that interrupts and ticks
fall between them. `silence` is the real time since the last frame; `mheard`
and `overtaken` remember what was true between the operands. The shift of the
feedback window of an online joint does not influence flags; it is in
`JointLoop`.

`CountsAsPartControl` maps the state to `PartControl`: the monitor's program
counter becomes `idle` outside `set_online_cnt`, the sender does not move.

### CacheBuffer

A byte is its place in the stream of accepted bytes, so a lost, repeated or
overwritten byte is seen when it is copied. `Write` is one step, being an
interrupt; `read` is split at every access to a shared member, and where the
compiler may order two stores or read `write_pos_` once or twice, both are
possible. `raced` marks a write that fell into one of three windows of `read`:
between the stores to `read_pos_` and `circle_`, between the reads of
`write_pos_`, and between moving `read_pos_` and copying. `clipped` marks a
backlog whose length did not fit a `uint8_t`. The properties hold outside
these two conditions, and that is what the run shows: these are all the ways
in which the buffer can fail, on this instance and, by the theorems, on every
other.

### Heap and Heap4

The unit is 8 bytes, which is both the alignment and the size of a header.
`Heap` has the sizes of the blocks and their owners, and one step per
operation. `Heap4` has the headers (`mem`), the sorted free list, the lazy
`prvHeapInit`, the two counters, and splits `vPortFree` in two: the owner bit
is cleared before `vTaskSuspendAll`, and other tasks allocate and free before
the block is inserted. Its specification is `ListSpec`, so that one module can
hold the proofs about both. `pvPortRealloc` copies the size of the old block, header
included; when the new block is not larger, that goes past its end
(`pvPortReallocPast`), and when `pvPortMalloc` failed the copy goes to address
0. Both end the model (`smashed`): what a program does after it has destroyed a
header, or written to address 0, is not modelled. For that reason
`Heap4_list.cfg` does not check for deadlock. `Realloc` of `Heap` leaves the copy
out, being what the allocator promises.

The loops of `pvPortMalloc` and `prvInsertBlockIntoFreeList` along the list are
`Loop`: the body, as a function on links that leaves alone the link at which
the loop's condition fails, repeated `End` times. A link has a higher address
than the one before it, so a loop of the code has ended by then; that is a
lemma (`LoopEnds`) and not an assumption. The properties do not walk: they
speak of the set of free blocks and of where the link of each leads, so a list
that a loop cannot follow cannot hide from them.

### MotorControl

The build uses `-O0`, so every mention of a member of `gDeviceMonitor` is a
load of its own. `CommandLink` and `CommandChannel` are the two loads of
`get_command_default`, called for the wheel by the chassis and for the two
sticks by the gimbal; `GimbalMode` reads the switch; `Calibrate` is
`get_mode_change` and the OFF position; `Check` and `Act` are the two
`get_online` of an iteration with what depends on them; `BulletFirst` and
`BulletSecond` the two comparisons of `ExtraControl::update`. `update_target`
copies in the same task and is part of `Act`. Between any two of them
`dbusUpdate` replaces the receiver's data and the monitor changes a flag.
Channels are 0 (neutral), 1 (deflected) and 2 (beyond
`RC_CHANNEL_VALUE_ERROR`); `acc` says of which modes, and of which side of an
outage, the sum of a joint's controller consists. `rcDown`, `down`, `seen`,
`swOn` and `renewed` are history.

### Pid and JointLoop

`Pid` has the incremental form (`pid_delta`, `pid_speed`), the positional one
(`pid_target`, `pid_angle`, `feedback`), the two limits and the conversions to
narrow integers, on exact numbers. `JointLoop` uses them for one joint of each
kind. `jointUpdate` and `Silent` are the link; `update_to_controller` is a round
of the monitor: a joint that was heard is online, or offline if a frame overtook
the subtraction (`DeviceMonitor`), one that was not heard is offline; the wrap of
the counter is left out. The shift is one step because it is a critical section
that also keeps the CAN interrupt out. A round of the motor task is `Command`, `Check`
(reset), `Aim` or `Follow`, `Depth` steps of `get_mean_speed`, and `Drive`; the
gimbal joint that is offline takes `Relax`. `get_mean_speed` takes the joint by
value, so the window is copied entry by entry while the monitor shifts it: an
entry may be counted twice. Speeds are counted in units of 1 / `Depth`, which
makes the mean a sum. The set point of `update_target` is `current`. The yaw's
angle is not limited by the code, only its difference is wrapped.

History: `owed` is what the output contains beside the proportional and the
derivative part of the present errors; `old` marks readings from before the
last outage, `since` counts the shifts since then, `begun` is its value when
the copy began and `stale` the old entries copied.

### Transport and MicroRosApp

A call of `microRosAppInit` that creates something in the agent is `Request`,
then `transportUxrCdcWrite` and `transportUxrCdcRead` until `io` is `replied` or
`failed`, then `CallSucceeds` or `CallFails`. The write has no time-out: while
the endpoint is busy it tries again, so the action is disabled. Before the host
has enumerated the device `CDC_Transmit_FS` reads through a null pointer; the
model leaves open whether the task spins or the transfer fails. The read waits
for the ring buffer (`CacheBuffer`), and asks the callback whether to go on;
`Deadline` is the static variable, set by the first read that finds the buffer
empty. `CacheBuffer::read` returns when it has filled the client's buffer, which
an answer may or may not do, or when there is nothing more and the deadline has
passed (`Expired`): a short answer is kept back until then.

The client library is in the repository as a binary only and is external: it
repeats reads until its own time for the call is over (`GivesUp`). The agent is
external too: `Answer` comes at any time after `HostTakes`, too late for its call,
or never. `usb` and `busy` are changed by the host at any time (`Host`,
`HostTakes`). The unit of `Tick` is a round of the scheduler, in which every
ready task runs, so time does not pass a read that has to return. This is an assumption on the load of
the processor, and `WaitBounded` is exact only under it.

`CallSucceeds` and `CallFails` are in the order of `Entities` and `Handles`;
`microRosAppFini`, `Retry` and `Ready` are the rest of `microRosAppMain`. The
entities of the agent need the agent, all need memory.
`rclc_timer_init_default` and `rclc_executor_init` clear the structure they are
given: an entity that was still alive is then `leaked`. `microRosAppFini` goes
through its calls one by one: each asks the agent to delete what it keeps of the
entity (`Goodbye`) and waits for the status like a call of `microRosAppInit`
(`run_xrce_session`), and its memory is freed with or without one; a call that
sends several requests is taken as one. The callbacks are one action each.
`ping_timer_callback` draws its number with `rand()`; the model takes numbers as
new, so two equal ones of a generator with 2^31 values are left out. The messages point
into arrays of `microRosAppInit`, which has returned by then; reading them is
undefined, and `StackReused` lets the text of the last ping disappear at any
time. What the same reuse does to the stack of the executor when a message
arrives is not modelled.

### Sensors

The set-up functions are straight lines with early returns, so each is written
as the sequence of its steps (`bmi088_accel_self_test` and so on), and there is
one action per kind of step: `Probe` (the chip id read twice), `Reset`, `Who`,
`WriteAndCheck`, `Respond` and `Judge` of the accelerometer's self test,
`Trigger` and `Poll` of the gyroscope's. `Proceed` takes the next step or leaves
the function; the accelerometer's error does not keep the gyroscope from being
tried. `Finish` and `Retry` are the loop of the task; then `ulTaskNotifyTake`
and `Sense` (with `PidControl::feedback` and `heatTrigger`) alternate. The two
tasks share nothing, and `task` says which one a behaviour is about.

The registers are the hardware's: a reset or a `Brownout` wipes them. A transfer
fails with a fault; a failed SPI read returns 0 or noise, a failed I2C read
leaves an uninitialised variable and so possibly the expected value. After a
reset the accelerometer ignores its first transfer (`asleep`).
`HAL_GPIO_EXTI_Callback` notifies the task once defaultTask has stored its
handle (`osThreadNew`), which may be after the task began to run. `browned`,
`blind`, `cold` and `warm` are history.

## 3. Runs

| Run | Checks | Shows |
|---|---|---|
| `timing` | `TypeOK`, `TimeInv`, `OnlineIsRecent`, `OfflineJustified`, `OnlineJustified`, `CountsAsPartControl` | one motor and the receiver, tick counter wrapping every 11 ticks: verdicts agree with real silence, except when a frame overtakes the subtraction, after a whole period of the counter, or for a device never heard; the monitor implements the counting |
| `counters` | `FeedbackIdsDistinct`, `GroupCounts`, `JointsCommanded`, `KeepsSending` | counters are registered plus online joints; every registered motor finds its set point in its slot every round; every wait for a mailbox ends |
| `slots` (violation) | `SlotsFollowHeads` | finding 1 |
| `stream` | `RangesKept`, `CopiesNextBytes`, `NoOverrun`, `HoldsTheRest` | the stream arrives in order and complete outside the marked windows |
| `backlog` (violation) | `CapacityIsCacheSize` | finding 2 |
| `blocks` | `TypeOK`, `Tiled`, `UsedAreBlocks`, `Coalesced`, `BlocksStay` | all sequences of operations on 14 units |
| `list` | `FreeListExact`, `FreeBytesExact`, `AllReturned`, `ImplementsHeap` | the free list implements the blocks |
| `realloc` (violation) | `OwnedBlocksMarked` | finding 3 |
| `round` | `RoundInv`, `NeutralWithoutReceiver`, `RelaxedWhenDown`, `OutageClears`, `ModeClears`, `BulletsNeedSwitch` | what a round commands while its inputs change under it |
| `loop` | `Telescopes`, `StaleShare`, `NeverAgainstOutput` | what the output of a speed controller consists of after any outages, resets and torn copies; how much of a mean is from before an outage; the current follows the output unless that exceeds an `int16_t`, and then is still limited in the gimbal |
| `attempts` | `WaitBounded`, `SpinsOnFresh`, `OnlyTimerLeaks`, `OwnPongsUncounted`, `EventuallySpins` | attempts that fail at any call are cleaned up and retried until one succeeds, over a transport whose write spins and whose read has a stale deadline; pongs to own pings are sent and never counted |
| `sensors` | `RunsConfigured`, `HeatsTheCold`, `KeepsReading` | set-ups that are cut off anywhere end in a sensor that holds its registers; the heater never heats what is warm; samples are read for ever unless the sensor lost its set-up after the loop |

### Bounds

* `timing`: `TickMod = 11`, `Timeout = 1`, `MaxLag = 1`. A device is judged
  within `RoundSteps` = 8 steps of at most `MaxLag` ticks, so
  `Timeout + MaxLag * RoundSteps` = 9 is below the period, and 10 ticks of
  silence would refute `OnlineIsRecent`. The proofs remove the bounds. `MaxLag` is an assumption on the scheduler: the monitor is
  never kept from its next step for longer.
  The mapping to `PartControl` needs a second joint for one being counted while
  the other is registered; that case is covered by the theorem.
* `counters`: one mailbox, so that the sender waits, and up to three joints in
  one or two groups (`MCPartControl`). `Shipped` is the configuration of
  `src/app/microros_param.c`. The counters have their real width.
* `stream`, `backlog`: buffer of 6, lengths with 4 values, packets and requests
  of up to 3 and 16 bytes in all: the buffer wraps twice. As in the firmware,
  the buffer is longer than the range of the lengths and a packet is not.
  `stream` also follows behaviours beyond their first disturbance.
* `blocks`, `list`: 14 and 12 units hold up to 6 blocks, so that a block is
  freed with a free neighbour on either side, on both and on none, and the
  remainder of a split is just too small, just large enough and larger. Two
  tasks at a time are inside `vPortFree`.
* `round`: two accepted frames, which differ in every channel and
  both switches, one refused for a stick and one for a switch. The proofs hold
  for every set of frames.
* `attempts`: three pings, so that one can be two timers late; the number of
  attempts is not bounded. The tick counter has 5 values and wraps during a
  call; a read and a call wait 2 ticks, so that the first deadline is ahead of,
  equal to and behind the counter in later calls, and before and after the wrap.
* `loop`: a window of 2 entries instead of 5, which a shift can tear in the
  middle, and integers of 3 bits. Outputs up to `MaxOut` = 8 in units of one
  half, that is 4, exceed both the current limit of 2 and the largest integer
  3; the gimbal motor has both controllers and a turn of 3, the wheel a command
  that does not fit its type and a limited integral part, the bullet motor a
  derivative part. Rounds whose output would exceed `MaxOut` are not looked at
  (`WithinBound`).
* `sensors`: 4 faults of any kind, enough for two registers whose write and
  check are both lost, or for a brown-out on top of such an attempt; 3 polls of
  the gyroscope instead of 10, so that time-out and success at the last poll
  are both met. Heater and temperature have 3 bits: the output exceeds the
  compare register at the coldest reading. The task may wait for ever after a
  brown-out, so deadlock is not checked.

### Fairness

`attempts` assumes weak fairness of the micro-ROS task, which is always ready
or in a delay that ends, of a host that reads the port, and of the clock while
the task waits; agent and memory are not assumed to come back, nor the agent to
answer a request within the time of its call (`Overdue`): this is the premise of
`EventuallySpins`. `sensors` assumes weak fairness of the sensor task
and of defaultTask, and that a sensor that is set up keeps interrupting; faults
are bounded, since without an end of faults nothing is to be expected.
`counters` assumes weak fairness of the motor task and of the CAN controller. The first is what equal priorities with time slicing give a task
that is always ready; the second holds while another node on the bus
acknowledges frames. Without the second the task does spin for ever in
`transimitionCanTx`, which has no time-out.

## 4. Findings

Each is a run that refutes what a comment or an assertion of the code says.

1. `src/tool/part_control.cpp:67` computes the joint of a slot as
   `(j << 2) | k` with k up to 4: in group 1 that is joint 4 and not 8, so the
   frame 0x1FF carries the set point of a motor that listens to 0x200. A motor
   with id 8 would never be commanded, and one with id 4 only if another motor
   is counted in group 0.
2. `include/tool/cache_buffer.hpp:67`: lengths are `uint8_t` while the buffer
   has 1000 bytes; a backlog of 256 bytes or a little more is skipped.
3. `src/freertos/heap_4_custom.c:366`: `pvPortRealloc` copies past the new
   block, over the header behind it, unless the block grows.

What the passing properties have to leave room for, and a maintainer should
know:

* `src/tool/part_control.cpp:34`: the counter called online counter also counts
  registrations (`GroupCounts`), and so never returns to zero. That every
  registered motor is commanded (`JointsCommanded`) rests on it.
* `src/app/gimbal_control.cpp:83`: "NO DATA" is tested as a switch at 0, which
  a silent link does not produce; the gimbal stays in the mode it was in, and
  the bullet motors, whose switch is read without the receiver's flag, run on.
* `src/app/gimbal_control.cpp:45`: the rows 1 and 2 that the OFF position
  calibrates are the yaw and an unused row; the pitch keeps the origin of
  `on_init`.
* `src/app/extra_control.cpp:26`: a frame between the two loads of the switch
  can start the bullet motors for a round although both values mean off
  (`renewed` in `BulletsNeedSwitch`).
* `src/app/microros_core.c:182`: `microRosAppFini` leaves the timer; an attempt
  that fails at the executor loses one (`OnlyTimerLeaks`).
* `src/app/microros_core.c:96`: an own ping that arrives after the next one was
  sent is answered, although the comment says "Dont pong my own pings"; so is
  any, once the text of the last ping, an array of a function that has returned,
  is overwritten. The comment is wrong of the code; what keeps this harmless is
  that the device never counts these pongs as answers of others
  (`OwnPongsUncounted`).
* `src/tool/transimition.cpp:222`: the deadline is computed once per boot. While
  the tick counter is above it no read waits at all, and the client polls;
  while it is below, after a wrap, a read waits until the counter is there
  (`WaitBounded`).
* `src/freertos/microros/microros_transports.c:81`: with a host that is attached
  and does not read, the micro-ROS task spins at its priority until it does.
* `src/app/gimbal_control.cpp:65`: the output is cut to 16 bits before it is
  limited. With the shipped gains and no `k_limit` the yaw (kp 240) leaves the
  range at a speed error of 137, the pitch (kp 90) at 364, and the current then
  has another size or the other sign (`NeverAgainstOutput` excludes this case;
  the limit itself holds). Chassis and bullet motors have no limit at all.
* `src/app/gimbal_control.cpp:55`: a reset keeps the last errors of an
  incremental controller, so that the proportional part of the standing error
  is missing from the output afterwards (`owed` in `Telescopes`).
* `include/tool/pid.hpp:41`: the turn that `pid_angle` passes is
  `angle_limit[1]`, 8191, and the encoder has 8192 values: the wrap is one off.
* `src/app/device_monitor.cpp:117`: after an outage the mean speed contains old
  readings until five rounds have passed (`StaleShare`).
* `src/app/chassis_control.cpp:30`, `src/app/extra_control.cpp:34`: chassis and
  bullet motors ignore the online flag; an unplugged one winds up its sum.
* `src/app/sensor_unit.cpp:25`: below about -1 degrees the heater's output wraps
  past 65535; a failed read counts as 23 degrees.
* `src/devices/bmi088_middleware.c:53`: a failed read is 0, so registers whose
  value is 0 are not verified by reading them back;
  `src/devices/ist8310_middleware.c:32` returns an uninitialised variable, so
  none of the IST8310's are (`RunsConfigured`).
* `src/devices/bmi088.c:357`: a self test that is ready at the tenth poll counts
  as a failure.
* `src/app/sensor_unit.cpp:20`: nothing notices a sensor that loses its
  set-up later; the task waits and the heater keeps its last value
  (`KeepsReading`).

## 5. Proofs

Every safety property and every refinement of a passing run is a theorem, for
all values of the constants that satisfy the modules' assumptions. An
invariant below that no run lists was checked by TLC on the run's instance
before it was proved.

What is assumed of the constants, beyond their types:

* `TimeAssumption`: the time-out and the lag of one step together are shorter
  than the period of the tick counter.
* `ConfigAssumption`: twice the joints of a configuration fit a counter (two
  updates per joint; the counters have 8 bits and there are at most 8 joints).
* `LoopAssumption`, `PowerAssumption`: the current limits of the parts have
  the signs of `src/app/microros_param.c`; a power of two is a positive number.
* `HeaterAssumption`: the heater's gains are not negative and its output is not
  limited, as in `PidControl(1600, 0.2, 0, 40)`; `RegisterAssumption`: again a
  power of two. The powers are assumptions because the provers know no law of
  exponents.
* `TransportAssumption`: the time-out of a read is shorter than the period.
* `MonitorConfigAssumption`, `SizeAssumption`, `PingAssumption`,
  `HeapAssumption`, `FreeingAssumption`, `FrameAssumption` and `SensorAssumption` are types.
* `SlotsServed`, a premise of one theorem: see `PartControlProofs`.

`DeviceMonitorProofs`:

* `TypeCorrect`: `Spec => []TypeOK`, from one lemma per part of the state.
* `TimeInvariant`: `Spec => []TimeInv`. The property that matters, that a flag
  changes only for a reason, is not inductive: it speaks about `silence`, and
  the code only sees the difference of two unsigned counters, one of them read
  earlier. `TimeInv` ties them together: a stamp is as far behind the counter
  as the device has been silent, until the counter comes round
  (`StampIsSilence`); a device is not heard before it is registered
  (`UnheardIsSilent`); and the operand already read is `mlag` ticks old
  (`OperandsInStep`). It is preserved by each action given `TypeOK`.
* `OfflineOnlyWhenSilent` and `OnlineOnlyWhenHeard`: the two action properties
  `OfflineJustified` and `OnlineJustified`, from `TimeInv`. A flag changes only
  in `MonJudge` of that device (`FlagChange`), and there `OfflineTime` bounds
  the computed time by the real one.
* `OnlineStaysRecent`: `Spec => []OnlineIsRecent`. A flag is as old as its last
  judgement, so the invariant counts the monitor's steps since then: `Progress`
  is the place in the round, every joint taken to need the four steps of one
  whose flag changes, `Age` the steps since a device's turn, and `AgeInv` bounds
  the silence of an online device by `Age` times `MaxLag`. A joint registered
  during a round waits for the next one; `ListInv` says that it is not online
  before. One step of the monitor adds at most one to every age
  (`OneStepOlder`) and a verdict sets its own back (`VerdictIsRecent`).
* `MonitorImplementsCounting`: `Spec => CountsAsPartControl`. Every step is a
  step of `PartControl` or leaves its variables alone (`StepCounts`).

`HeapProofs`: `HeapInvariant` is `Spec => []Inv` with
`Inv == TypeOK /\ Tiled /\ UsedAreBlocks /\ Coalesced`, which is inductive as
it stands. `SplitShape` and `JoinFacts`, `JoinedShape` say what the two
operators that change the blocks do to a tiled heap, `SplitCoalesced` and
`JoinedCoalesced` what they do to neighbours; realloc is one after the other.
That the walk of `pvPortMalloc` finds a first block is an instance of the least
number principle (`FirstExists`). `BlocksTileTheHeap`, `OnlyBlocksOwned`,
`FreeBlocksJoined` and `TypeCorrect` follow, and `BlocksKeepTheirPlace` is the
action property `BlocksStay`.

The second part of the module is about `Heap4`, and needs no assumption but
`HeapAssumption`. None of its properties is inductive: what a header says
matters only if the list leads there, and the list is right only if the headers
are. `ListInvariant` is `ListSpec => []ListInv`, which says that up to a copy past
a block the state is `Safe`: the headers tile the heap without free neighbours
and the links of the free blocks lead from each to the next (`Kept`); the
headers with the owner bit are those of the owned blocks; no owned block and
none on its way back has a successor; and the counters are the number of units
in free blocks and a number that is not larger. Before the first request that
is said of the headers `prvHeapInit` would make. The argument, in order:

* A loop along rising addresses ends, at a link where its condition fails
  (`LoopRuns`, `LoopEnds`, from the well-foundedness of the numbers). So
  `pxIterator` is the last link in front of a block, and `pxPreviousBlock` the
  link to the first block that fits (`IteratorFacts`, `PreviousFacts`).
* `prvInsertBlockIntoFreeList` joins what `Heap`'s `Joined` joins, keeps the
  list, and writes to no header of a block that others hold (`InsertSizes`,
  `InsertChained`, `InsertFrame`, `InsertKept`): another task's call between the
  two parts of `vPortFree` finds a heap in which the block is simply not free.
* `pvPortMalloc` returns NULL when nothing fits, and else takes the first block
  and splits it as `Heap`'s `Split` does (`TakenKept`, `MallocedKept`). That
  `xWantedSize <= xFreeBytesRemaining` refuses nothing that would fit comes from
  counting units (`SplitUnits`, `JoinUnits`).
* Every operation keeps `Safe` (`MallocSafe`, `MarkSafe`, `FreeSafe`), and is the
  operation of `Heap`, or, for the first part of `vPortFree`, no step of it
  (`MallocStep`, `MarkStep`, `FreeStep`, `ReallocStep`, `ListStep`).

From it follow `FreeListIsExact`, `FreeBytesAreExact`, `HeapComesBackWhole`
(`AllReturned`) and `ListImplementsHeap` (`ImplementsHeap`). The property of the
run `realloc`, which the code violates, does hold until the copy that finding 3
is about, or the clearing at address 0 in `pvPortCalloc`:
`OnlyACopyBreaksTheAssertions` is
`ListSpec => [](~smashed => OwnedBlocksMarked)`, so nothing else in the
allocator can trip an assertion of `vPortFree` on a block that a caller holds.

`MotorControlProofs`: `RoundInvariant` is `Spec => []RoundInv`. The properties
speak of the end of a round and of a flag that was down during all of it, so
the invariant follows the round: a flag that has been down is down now
(`DownIsOffline`), the commands already given are neutral (`CommandsSoFar`), the
joints already done are relaxed (`RelaxedSoFar`), sums of another mode are left
only in joints the loop has yet to check (`ModeSoFar`), and between the two
loads of the bullet switch it is not 3 unless a frame came (`BulletSoFar`). One
lemma per action or pair of actions; `NeutralRounds`, `RelaxedRounds`,
`OutageRounds`, `ModeRounds` and `BulletRounds` follow.

`PartControlProofs`: `CountInvariant` is `Spec => []CountInv`, in which
`TasksOK` says where the two tasks that count are; with it `GroupCounts` is
inductive: a load that no store of the other task overtakes still holds the
counter when it is written back. `IdsDistinct` and `CountersExact` follow.
`RoundInvariant` follows `set_can_current`: the frames of the groups it has
passed are sent, because a group with a joint has a counter above zero.
A frame that is sent has the set point of a joint in the slot of its motor, for
every id but 8 (`FrameBearsJoint`). `AllCommanded` needs the premise
`SlotsServed`, found when its proof failed without it: no joint has id 8, and
some joint is counted in the group of each frame that is needed. Id 4 is counted
in group 1 and its set point is sent with group 0 (see finding 1), so a robot
whose only joint has id 4 would not be commanded. In the shipped configuration
the ids 1 to 3 send that frame.

`CacheBufferProofs`: `CacheInvariant` is `Spec => []CacheInv`. `PositionsInv`
orders the two positions by `circle_` at every step of `read`, also between its
two stores, and holds until a write falls into a window; `StreamInv` says which
byte of the stream every held cell contains, counted from the back (`HeldBack`)
and from the front of the buffer (`HeldFront`), and what the rest of the copy
will find (`ToCopy`). It holds while no length is cut either. `RangesStay`,
`NextBytesCopied`, `WritesInside` and `RestIsHeld` follow, for a buffer of any
size.

`MicroRosAppProofs`: four invariants. `WaitInv` bounds the wait by the tick
counter itself, since a wait beyond the time of the call starts at a wrap,
whether an answer is kept back or there is none (`WaitsEnd`). `ProgressInv` says that an attempt has created the entities and
added the handles before the one it is at (`SpinsFresh`). `LeakInv` that only a
timer outlives its attempt (`TimerLeaksOnly`). `PingInv` that pings under way and
pings answered have been sent, so that the next number is new to them; with it
`OwnPongsUncounted` is inductive (`OwnPongsNeverCount`).

`JointLoopProofs`: `LoopInvariant` is `Spec => []LoopInv`. `Telescopes` and
`NeverAgainstOutput` are inductive once the numbers are numbers (`NumbersOK`);
their steps rest on lemmas about `pid_delta`, the limits and the conversions.
`StaleShare` is not: `WindowInv` says that the entries shifted in since an
outage are new, and `CopyInv` that the entries already copied hold no more old
ones than were left when the copy began, though shifts move them meanwhile.
`OutputTelescopes`, `StaleSpeedsBounded` and `CurrentFollowsOutput` follow.

`SensorsProofs`: `HeaterInvariant` ties the sign of what the controller has
integrated to the side on which the temperature was, and gives `ColdIsHeated`.
`SetupInvariant` is `Spec => []SetupInv`: `PlaceInv` is where the set-up
functions can be, `Verified` the number of rows of a chip's table that the
present attempt has written and read back, and `VerifiedInv` says that these
rows are in the chip, up to what failed reads hide (`Right`). `CalmedInv` is the
same for the excitation of the self test. Lemmas turn the concatenated
functions into numbered steps (`AccelInitSteps` and so on, `StepWrites`); a
step that is no register write verifies nothing (`QuietStep`), a register write
one row, and touches no other because the rows of a table name different
registers (`TableRows`, `WriteStep`). `SensorsConfigured` follows.

Only model-checked:

* `KeepsSending`, `EventuallySpins` and `KeepsReading`: the prover does not do
  liveness under fairness.

## 6. Not modelled

* `lib/`: HAL, USB stack, FreeRTOS, FreeRTOS-Plus-POSIX and micro-ROS are
  third-party code and by far most of the repository's lines. Where a definition
  stands for a function of theirs, `PROJECT.json` names its lines (the end of a
  USB transfer, the creation and the deletion of an entity); what else the
  application uses of them is external. The models cover the application under
  `src/` and `include/`.
* Rounding of doubles: `Pid` computes with exact numbers.
* The DMA double buffer of the UARTs (`HAL_UARTEx_RxEventCallback`): the frames
  it delivers are the input of `MotorControl`.
* Measured accelerations, rotations and fields, which the tasks drop; the buzzer
  and the other PWM outputs; peripheral initialisation.
* `src/dji` and `src/lpguaia`: no task calls them.
* `device_dict_`, which keeps addresses of elements of `device_joint_`: they are
  valid while no list grows past the 8 elements it reserves
  (`src/app/device_monitor.cpp:55`), which the shipped parameters cannot do.
* `vPortGetHeapStats`, the usage counters of `allocators.c` and the error code of
  a device: nothing reads them.

## 7. Plan

In this order:

1. Lemmas about `Pid` on their own: `format_angle_delta` and the limits, for
   every turn.
2. `Uart`: the double buffer of the DMA and the frames of another length.
3. `DetectTask`: `src/dji/detect_task.c`, the predecessor of the device monitor,
   if it is ever started again.
