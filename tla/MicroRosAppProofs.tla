------------------------- MODULE MicroRosAppProofs -------------------------
(***************************************************************************)
(* Proofs about the micro-ROS task and its transport, for every period of  *)
(* the tick counter, every time-out and any number of attempts and pings.  *)
(***************************************************************************)
EXTENDS MicroRosApp, TLAPS

-----------------------------------------------------------------------------
(* The invariants. *)

\* Counter, deadline and wait are numbers.
ClockOK ==
  /\ tick \in 0..TickMod - 1
  /\ stamp \in (0..TickMod - 1) \union {NoStamp}
  /\ waited \in Nat

\* No time passes before the first read has computed the deadline, and a read
\* that waits longer than its call does so from tick 0 on: the counter cannot
\* wrap while it is compared with a deadline that it has passed.
WaitInv ==
  /\ ClockOK
  /\ io = "read" /\ stamp = NoStamp => waited = 0
  /\ io = "read" => waited <= CallTime + tick
  /\ WaitBounded

\* The entities whose call precedes the k-th.
Earlier == {Entities[i] : i \in {n \in 1..Len(Entities) : n < k}}

\* How far microRosAppInit has come: it has created the entities whose calls
\* precede the k-th, and added the handles whose calls do.
ProgressInv ==
  /\ k \in 1..Calls + 1
  /\ pc \in {"init", "fini", "delay", "spin"}
  /\ pc \in {"init", "fini", "spin"} => created = Earlier
  /\ pc \in {"init", "spin"} => created \subseteq live
  /\ pc \in {"init", "fini", "spin"} /\ k > Len(Entities) =>
       handles = [i \in 1..(k - 1 - Len(Entities)) |-> Handles[i]]
  /\ pc = "fini" => k <= Len(Entities)
  /\ pc = "spin" => k = Calls + 1

\* What holds memory belongs to the present attempt, except for a timer; after
\* microRosAppFini nothing but a timer does.
LeakInv ==
  /\ pc \in {"init", "fini"} => live \subseteq created \union {"timer"}
  /\ pc = "delay" => live \subseteq {"timer"}
  /\ OnlyTimerLeaks

\* The text that is kept is that of the last ping, or lost; own pings that are
\* under way or were answered have been sent, so that the next number is new to
\* all of them.
PingInv ==
  /\ seq_no \in Nat
  /\ air \subseteq 1..seq_no
  /\ answered \subseteq 1..seq_no \union {Foreign}
  /\ frameId \in {Other, seq_no}
  /\ OwnPongsUncounted

-----------------------------------------------------------------------------
(* The wait for an answer. *)

\* A counter that wraps stays below its period.
LEMMA WrapsInRange ==
  ASSUME NEW n \in Nat
  PROVE  /\ n % TickMod \in 0..TickMod - 1
         /\ n < TickMod => n % TickMod = n
<1> USE TransportAssumption
<1>1. TickMod \in Nat /\ TickMod > 0
  OBVIOUS
<1> QED BY <1>1, Z3

\* The deadline of transimitionUsbCdcReadBlock is a value of the counter.
LEMMA DeadlineInRange ==
  ASSUME ClockOK
  PROVE  /\ Deadline \in 0..TickMod - 1
         /\ stamp # NoStamp => Deadline = stamp
<1>1. tick + TimeOut \in Nat
  BY TransportAssumption DEF ClockOK
<1>2. (tick + TimeOut) % TickMod \in 0..TickMod - 1
  BY <1>1, WrapsInRange
<1> QED BY <1>2 DEF ClockOK, Deadline, NoStamp

\* Host and agent leave the clock, the deadline and the wait alone.
LEMMA WaitHost == WaitInv /\ (Host \/ HostTakes \/ Answer) => WaitInv'
BY DEF WaitInv, ClockOK, WaitBounded, Host, HostTakes, Answer, NoStamp

\* Time passes: a read that has waited as long as its call only goes on while
\* the counter is below the deadline, where it does not wrap.
LEMMA WaitTick == WaitInv /\ Tick => WaitInv'
<1> SUFFICES ASSUME WaitInv, Tick PROVE WaitInv'
  OBVIOUS
<1> USE TransportAssumption DEF WaitInv
<1>1. /\ tick' = (tick + 1) % TickMod /\ stamp' = stamp /\ io' = io
      /\ tick' \in 0..TickMod - 1
      /\ tick + 1 < TickMod => tick' = tick + 1
  <2>1. tick + 1 \in Nat
    BY DEF ClockOK
  <2> QED BY <2>1, WrapsInRange DEF Tick
<1>2. ClockOK'
  BY <1>1 DEF ClockOK, Tick
<1>3. CASE io # "read"
  BY <1>1, <1>2, <1>3 DEF WaitBounded
<1>4. CASE io = "read"
  <2>1. waited' = waited + 1 /\ ~GivesUp /\ ~(reply /\ Expired) /\ stamp = Deadline
    BY <1>4 DEF Tick
  <2>2. stamp \in 0..TickMod - 1 /\ stamp # NoStamp
    BY <2>1, DeadlineInRange DEF NoStamp
  <2>3. CASE waited < CallTime
    BY <1>1, <1>2, <1>4, <2>1, <2>2, <2>3 DEF WaitBounded, ClockOK
  <2>4. CASE ~(waited < CallTime)
    <3>1. stamp > tick
      BY <1>4, <2>1, <2>4 DEF GivesUp, Expired, ClockOK
    <3>2. tick' = tick + 1
      BY <1>1, <2>2, <3>1 DEF ClockOK
    <3> QED BY <1>1, <1>2, <1>4, <2>1, <2>2, <3>1, <3>2 DEF WaitBounded, ClockOK
  <2> QED BY <2>3, <2>4
<1> QED BY <1>3, <1>4

\* A write starts the wait at zero, and the first read computes the deadline
\* before any time has passed.
LEMMA WaitTransfer ==
  WaitInv /\ (transportUxrCdcWrite \/ transportUxrCdcRead) => WaitInv'
<1> SUFFICES ASSUME WaitInv, transportUxrCdcWrite \/ transportUxrCdcRead
             PROVE  WaitInv'
  OBVIOUS
<1> USE TransportAssumption DEF WaitInv
<1>1. CASE transportUxrCdcWrite
  BY <1>1 DEF ClockOK, WaitBounded, NoStamp, transportUxrCdcWrite
<1>2. CASE transportUxrCdcRead
  <2>1. Deadline \in 0..TickMod - 1 /\ (stamp # NoStamp => Deadline = stamp)
    BY DeadlineInRange
  <2>2. /\ tick' = tick /\ waited' = waited /\ io = "read"
        /\ stamp' \in {stamp, Deadline}
        /\ io' = "read" => stamp' = Deadline
    BY <1>2 DEF transportUxrCdcRead
  <2>3. ClockOK' /\ (io' = "read" => stamp' # NoStamp)
    BY <2>1, <2>2 DEF ClockOK, NoStamp
  <2>4. waited' <= CallTime + tick'
    BY <2>2
  <2>5. io' = "read" => waited' <= CallTime + stamp'
    <3>1. CASE stamp = NoStamp
      BY <2>1, <2>2, <3>1
    <3>2. CASE stamp # NoStamp
      BY <2>1, <2>2, <3>2 DEF WaitBounded
    <3> QED BY <3>1, <3>2
  <2> QED BY <2>3, <2>4, <2>5 DEF WaitBounded
<1> QED BY <1>1, <1>2

\* The wait of a read under every interleaving of the task with the host and
\* with time.
THEOREM WaitInvariant == Spec => []WaitInv
<1>1. Init => WaitInv
  BY TransportAssumption
     DEF Init, TransportInit, WaitInv, ClockOK, WaitBounded, NoStamp
<1>2. WaitInv /\ [Next]_vars => WaitInv'
  <2> SUFFICES ASSUME WaitInv, [Next]_vars PROVE WaitInv'
    OBVIOUS
  <2>1. CASE UNCHANGED <<tick, stamp, io, waited>>
    BY <2>1 DEF WaitInv, ClockOK, WaitBounded
  <2>2. CASE io' # "read" /\ UNCHANGED <<tick, stamp>> /\ waited' \in {0, waited}
    BY <2>2 DEF WaitInv, ClockOK, WaitBounded
  <2>3. CASE Environment
    BY <2>3, WaitHost, WaitTick DEF Environment
  <2>4. CASE Attempt
    <3>1. CASE Transfer
      BY <3>1, WaitTransfer DEF Transfer
    <3>2. CASE Request \/ CallSucceeds \/ CallFails \/ Goodbye
      BY <2>2, <3>2 DEF Request, CallSucceeds, CallFails, Return, Goodbye
    <3>3. CASE Ready \/ Retry
      BY <2>1, <3>3 DEF Ready, Retry, env, transport
    <3>4. CASE microRosAppFini
      BY <2>1, <2>2, <3>4 DEF microRosAppFini, FiniOf, Return, env, transport
    <3> QED BY <2>4, <3>1, <3>2, <3>3, <3>4 DEF Attempt
  <2>5. CASE UNCHANGED vars \/ Memory \/ Spin
    BY <2>1, <2>5 DEF Memory, Spin, ping_timer_callback, StackReused,
       ping_subscription_callback, pong_subscription_callback, vars, env, transport
  <2> QED BY <2>3, <2>4, <2>5 DEF Next
<1> QED BY <1>1, <1>2, PTL DEF Spec

\* A call over the transport waits no longer than its own time and the deadline
\* of the very first read, whenever the counter wraps.
THEOREM WaitsEnd == Spec => []WaitBounded
<1>1. WaitInv => WaitBounded
  BY DEF WaitInv
<1> QED BY WaitInvariant, <1>1, PTL

-----------------------------------------------------------------------------
(* The attempts. *)

\* The table of microRosAppInit: its eight entities, no two the same, and its
\* three handles.
LEMMA Table ==
  /\ Len(Entities) = 8 /\ Len(Handles) = 3 /\ Calls = 11
  /\ Entities[1] = "support" /\ Entities[2] = "node"
  /\ Entities[3] = "ping_publisher" /\ Entities[4] = "pong_publisher"
  /\ Entities[5] = "ping_subscriber" /\ Entities[6] = "pong_subscriber"
  /\ Entities[7] = "timer" /\ Entities[8] = "executor"
  /\ \A i \in 1..8 : Entities[i] = "executor" <=> i = 8
  /\ \A i \in 1..8 : Entities[i] = "timer" <=> i = 7
  /\ Handles = [i \in 1..3 |-> Handles[i]]
BY DEF Entities, Handles, Calls

\* A call that succeeds adds its entity to the ones before it.
LEMMA EarlierGrows ==
  ASSUME k \in 1..Calls, k' = k + 1
  PROVE  /\ k <= 8 => Earlier' = Earlier \union {Entities[k]}
         /\ k > 8 => Earlier' = Earlier
<1>1. Len(Entities) = 8 /\ Calls = 11
  BY Table
<1>2. Earlier = {Entities[i] : i \in {n \in 1..8 : n < k}}
  BY <1>1 DEF Earlier
<1>3. Earlier' = {Entities[i] : i \in {n \in 1..8 : n < k + 1}}
  BY <1>1 DEF Earlier
<1>4. k <= 8 => {n \in 1..8 : n < k + 1} = {n \in 1..8 : n < k} \union {k}
  BY <1>1
<1>5. k > 8 => {n \in 1..8 : n < k + 1} = {n \in 1..8 : n < k}
  BY <1>1
<1> QED BY <1>2, <1>3, <1>4, <1>5

\* The world, the transport and the spinning executor leave the attempt alone.
LEMMA ProgressRest ==
  ProgressInv /\ UNCHANGED <<pc, k, setup>> => ProgressInv'
BY DEF ProgressInv, Earlier, setup

\* A call of microRosAppInit that succeeds.
LEMMA ProgressSucceeds == ProgressInv /\ CallSucceeds => ProgressInv'
<1> SUFFICES ASSUME ProgressInv, CallSucceeds PROVE ProgressInv'
  OBVIOUS
<1>1. /\ Len(Entities) = 8 /\ Len(Handles) = 3 /\ Calls = 11
      /\ \A i \in 1..8 : Entities[i] = "executor" <=> i = 8
  BY Table
<1>2. k \in 1..11 /\ k' = k + 1 /\ pc = "init" /\ pc' = "init"
  BY <1>1 DEF CallSucceeds, ProgressInv
<1>3. /\ k <= 8 => Earlier' = Earlier \union {Entities[k]}
      /\ k > 8 => Earlier' = Earlier
  BY <1>1, <1>2, EarlierGrows
<1>4. created = Earlier /\ created \subseteq live
  BY <1>2 DEF ProgressInv
<1>5. created' = Earlier' /\ created' \subseteq live'
  <2>1. CASE k <= 8
    BY <1>1, <1>2, <1>3, <1>4, <2>1 DEF CallSucceeds
  <2>2. CASE k > 8
    BY <1>1, <1>2, <1>3, <1>4, <2>2 DEF CallSucceeds
  <2> QED BY <1>2, <2>1, <2>2
<1>6. k' > 8 => handles' = [i \in 1..(k' - 1 - 8) |-> Handles[i]]
  <2>1. CASE k <= 7
    BY <1>2, <2>1
  <2>2. CASE k = 8
    <3>1. handles' = <<>>
      BY <1>1, <2>2 DEF CallSucceeds
    <3>2. k' - 1 - 8 = 0
      BY <1>2, <2>2
    <3> QED BY <3>1, <3>2
  <2>3. CASE k > 8
    <3>1. handles = [i \in 1..(k - 9) |-> Handles[i]]
      BY <1>1, <1>2, <2>3 DEF ProgressInv
    <3>2. handles' = Append(handles, Handles[k - 8])
      BY <1>1, <1>2, <2>3 DEF CallSucceeds
    <3>3. k = 9 \/ k = 10 \/ k = 11
      BY <1>2, <2>3
    <3> QED BY <1>2, <3>1, <3>2, <3>3 DEF Handles
  <2> QED BY <1>2, <2>1, <2>2, <2>3
<1> QED BY <1>1, <1>2, <1>5, <1>6 DEF ProgressInv

\* Nothing fails once the executor is there: its three handles fit.
LEMMA HandlesFit ==
  ASSUME ProgressInv, pc = "init", k > 8, k <= Calls
  PROVE  Len(handles) < Capacity
<1>1. k \in 9..11 /\ Len(Entities) = 8 /\ k - 1 - Len(Entities) = k - 9
  BY Table DEF ProgressInv
<1>2. handles = [i \in 1..(k - 9) |-> Handles[i]]
  BY <1>1 DEF ProgressInv
<1>3. Len(handles) = k - 9
  BY <1>1, <1>2
<1> QED BY <1>1, <1>3 DEF Capacity

\* The attempts under every interleaving with failures of memory and transport.
THEOREM ProgressInvariant == Spec => []ProgressInv
<1>1. Init => ProgressInv
  BY Table DEF Init, ProgressInv, Earlier
<1>2. ProgressInv /\ [Next]_vars => ProgressInv'
  <2> SUFFICES ASSUME ProgressInv, [Next]_vars PROVE ProgressInv'
    OBVIOUS
  <2>1. CASE \/ UNCHANGED vars \/ Environment \/ Memory \/ Request \/ Goodbye
            \/ Transfer \/ Spin
    BY <2>1, ProgressRest
       DEF Environment, Memory, Request, Goodbye, Transfer, Spin,
           ping_timer_callback, StackReused, ping_subscription_callback, pong_subscription_callback, vars
  <2>2. CASE CallSucceeds
    BY <2>2, ProgressSucceeds
  <2>3. CASE CallFails
    <3>1. k <= 8
      BY <2>3, HandlesFit, Table
         DEF CallFails, Impossible, Calling, Creating, ProgressInv, Capacity
    <3> QED BY <2>3, <3>1, Table DEF CallFails, ProgressInv, Earlier, setup
  <2>4. CASE Ready
    BY <2>4, Table DEF Ready, ProgressInv, Earlier, setup
  <2>5. CASE microRosAppFini
    BY <2>5 DEF microRosAppFini, FiniOf, ProgressInv, Earlier
  <2>6. CASE Retry
    BY <2>6, Table DEF Retry, ProgressInv, Earlier
  <2> QED BY <2>1, <2>2, <2>3, <2>4, <2>5, <2>6 DEF Next, Attempt
<1> QED BY <1>1, <1>2, PTL DEF Spec

\* The executor spins on the entities of the present attempt, all of them, and
\* on exactly one timer and the two subscriptions.
THEOREM SpinsFresh == Spec => []SpinsOnFresh
<1>1. ProgressInv => SpinsOnFresh
  <2> SUFFICES ASSUME ProgressInv, pc = "spin"
               PROVE  created = Entity /\ Entity \subseteq live /\ handles = Handles
    BY DEF SpinsOnFresh
  <2>1. k = 12 /\ Len(Entities) = 8 /\ k - 1 - Len(Entities) = 3
    BY Table DEF ProgressInv
  <2>2. handles = Handles
    BY <2>1, Table DEF ProgressInv
  <2>3. {n \in 1..8 : n < k} = 1..8
    BY <2>1
  <2>4. Earlier = Entity
    BY <2>1, <2>3 DEF Earlier, Entity
  <2> QED BY <2>2, <2>4 DEF ProgressInv
<1> QED BY ProgressInvariant, <1>1, PTL

-----------------------------------------------------------------------------
(* What an attempt leaves behind. *)

\* A call that succeeds creates an entity that holds no memory, or a timer.
LEMMA LeakSucceeds == ProgressInv /\ LeakInv /\ CallSucceeds => LeakInv'
<1> SUFFICES ASSUME ProgressInv, LeakInv, CallSucceeds PROVE LeakInv'
  OBVIOUS
<1>1. Len(Entities) = 8 /\ Calls = 11
  BY Table
<1>2. k \in 1..11 /\ pc = "init" /\ pc' = "init" /\ live \subseteq created \union {"timer"}
  BY <1>1 DEF CallSucceeds, ProgressInv, LeakInv
<1>3. CASE k <= 8
  <2>1. Entities[k] \notin Earlier
    <3>1. \A i, j \in 1..8 : Entities[i] = Entities[j] => i = j
      BY DEF Entities
    <3> QED BY <1>1, <1>2, <1>3, <3>1 DEF Earlier
  <2>2. Entities[k] \in live => Entities[k] = "timer"
    BY <1>2, <2>1 DEF ProgressInv
  <2>3. /\ live' = live \union {Entities[k]} /\ created' = created \union {Entities[k]}
        /\ leaked' = IF Entities[k] \in live THEN leaked \union {Entities[k]} ELSE leaked
    BY <1>1, <1>3 DEF CallSucceeds
  <2>4. OnlyTimerLeaks'
    BY <2>2, <2>3 DEF LeakInv, OnlyTimerLeaks
  <2> QED BY <1>2, <2>3, <2>4 DEF LeakInv
<1>4. CASE k > 8
  <2>1. UNCHANGED <<live, created, leaked>>
    BY <1>1, <1>2, <1>4 DEF CallSucceeds
  <2> QED BY <1>2, <2>1 DEF LeakInv, OnlyTimerLeaks
<1> QED BY <1>2, <1>3, <1>4

\* microRosAppFini frees what the attempt has created, but for the timer: there
\* is no executor yet when an attempt fails.
LEMMA LeakFini == ProgressInv /\ LeakInv /\ microRosAppFini => LeakInv'
<1> SUFFICES ASSUME ProgressInv, LeakInv, microRosAppFini PROVE LeakInv'
  OBVIOUS
<1>1. /\ pc = "fini" /\ k \in 1..8 /\ created = Earlier
      /\ live \subseteq created \union {"timer"}
  BY Table DEF microRosAppFini, FiniOf, ProgressInv, LeakInv
<1>2. Earlier \subseteq Entity /\ "executor" \notin Earlier
  BY <1>1, Table DEF Earlier, Entity
<1>3. UNCHANGED <<created, leaked>> /\ live' \subseteq live
  BY DEF microRosAppFini, FiniOf
<1>4. CASE pc' = "fini"
  BY <1>1, <1>3, <1>4 DEF LeakInv, OnlyTimerLeaks
<1>5. CASE pc' # "fini"
  <2>1. pc' = "delay" /\ live' = live /\ live \intersect Remote = {}
    BY <1>1, <1>5 DEF microRosAppFini, FiniOf
  <2>2. live \subseteq {"timer"}
    BY <1>1, <1>2, <2>1 DEF Remote
  <2> QED BY <1>3, <2>1, <2>2 DEF LeakInv, OnlyTimerLeaks
<1> QED BY <1>4, <1>5

\* What the attempts leave behind, however often and wherever they fail.
THEOREM LeakInvariant == Spec => []LeakInv
<1>1. Init => LeakInv
  BY DEF Init, LeakInv, OnlyTimerLeaks
<1>2. ProgressInv /\ LeakInv /\ [Next]_vars => LeakInv'
  <2> SUFFICES ASSUME ProgressInv, LeakInv, [Next]_vars PROVE LeakInv'
    OBVIOUS
  <2>1. CASE UNCHANGED <<pc, setup>>
    BY <2>1 DEF LeakInv, OnlyTimerLeaks, setup
  <2>2. CASE \/ UNCHANGED vars \/ Environment \/ Memory \/ Request \/ Goodbye
            \/ Transfer \/ Spin
    BY <2>1, <2>2
       DEF Environment, Memory, Request, Goodbye, Transfer, Spin,
           ping_timer_callback, StackReused, ping_subscription_callback, pong_subscription_callback, vars
  <2>3. CASE CallSucceeds
    BY <2>3, LeakSucceeds
  <2>4. CASE CallFails \/ Ready
    BY <2>4 DEF CallFails, Ready, LeakInv, OnlyTimerLeaks, setup
  <2>5. CASE microRosAppFini
    BY <2>5, LeakFini
  <2>6. CASE Retry
    BY <2>6 DEF Retry, LeakInv, OnlyTimerLeaks
  <2> QED BY <2>2, <2>3, <2>4, <2>5, <2>6 DEF Next, Attempt
<1> QED BY <1>1, <1>2, ProgressInvariant, PTL DEF Spec

\* The timer is the only entity that is ever initialised over one that still
\* holds memory.
THEOREM TimerLeaksOnly == Spec => []OnlyTimerLeaks
<1>1. LeakInv => OnlyTimerLeaks
  BY DEF LeakInv
<1> QED BY LeakInvariant, <1>1, PTL

-----------------------------------------------------------------------------
(* The pings. *)

\* The pings and pongs under every delay, loss and duplication of messages and
\* every overwriting of the text.
THEOREM PingInvariant == Spec => []PingInv
<1>1. Init => PingInv
  BY DEF Init, PingInv, OwnPongsUncounted, Other
<1>2. PingInv /\ [Next]_vars => PingInv'
  <2> SUFFICES ASSUME PingInv, [Next]_vars PROVE PingInv'
    OBVIOUS
  <2> USE DEF PingInv, OwnPongsUncounted
  <2>1. CASE UNCHANGED <<seq_no, air, answered>> /\ frameId' \in {frameId, Other}
    <3>1. Other \notin answered
      BY DEF Other, Foreign
    <3> QED BY <2>1, <3>1
  <2>2. CASE ping_timer_callback
    <3>1. /\ seq_no' = seq_no + 1 /\ frameId' = seq_no + 1 /\ answered' = answered
          /\ air' \subseteq air \union {seq_no + 1}
      BY <2>2 DEF ping_timer_callback
    <3>2. seq_no + 1 \notin answered
      BY DEF Foreign
    <3> QED BY <3>1, <3>2
  <2>3. ASSUME NEW p \in air \union {Foreign}, ping_subscription_callback(p)
        PROVE  PingInv'
    <3>1. /\ UNCHANGED <<seq_no, air, frameId>>
          /\ answered' = IF p # frameId THEN answered \union {p} ELSE answered
      BY <2>3 DEF ping_subscription_callback
    <3> QED BY <3>1
  <2>4. CASE UNCHANGED vars \/ Environment \/ Memory
    BY <2>1, <2>4 DEF Environment, Memory, vars, ping
  <2>5. CASE Attempt
    BY <2>1, <2>5 DEF Attempt, Request, Transfer, CallSucceeds, CallFails, Ready,
                      Goodbye, microRosAppFini, FiniOf, Retry, ping
  <2>6. CASE Spin
    BY <2>1, <2>2, <2>3, <2>6 DEF Spin, StackReused, pong_subscription_callback
  <2> QED BY <2>4, <2>5, <2>6 DEF Next
<1> QED BY <1>1, <1>2, PTL DEF Spec

\* pong_subscription_callback never counts a pong that ping_subscription_callback
\* sent: the text it compares with was never answered.
THEOREM OwnPongsNeverCount == Spec => []OwnPongsUncounted
<1>1. PingInv => OwnPongsUncounted
  BY DEF PingInv
<1> QED BY PingInvariant, <1>1, PTL
=============================================================================
