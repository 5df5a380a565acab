----------------------------- MODULE MicroRosApp -----------------------------
(***************************************************************************)
(* The micro-ROS task: microRosAppInit creates its entities one after the  *)
(* other, microRosAppFini takes them down after a failure, microRosAppMain *)
(* retries every 5 s and, once everything is up, spins the executor, which *)
(* runs the ping timer and the two subscription callbacks.                 *)
(*                                                                         *)
(* Entities that live in the agent take a request over the transport, and  *)
(* none can be created while memory is short.  Messages of the network may *)
(* be lost, duplicated, delayed and reordered; a ping is known by its      *)
(* number, 0 stands for any other text in the buffer.                      *)
(***************************************************************************)
EXTENDS Transport, Sequences, FiniteSets

CONSTANTS
  MaxPing,  \* bound: own pings, numbered from 1
  MaxPong   \* bound of pong_count

ASSUME PingAssumption == MaxPing \in Nat /\ MaxPong \in Nat

\* The calls of microRosAppInit in order; the last three add handles.
Entities == <<"support", "node", "ping_publisher", "pong_publisher",
              "ping_subscriber", "pong_subscriber", "timer", "executor">>
Handles  == <<"timer", "ping_subscriber", "pong_subscriber">>
Calls    == Len(Entities) + Len(Handles)
Entity   == {Entities[i] : i \in 1..Len(Entities)}
Remote   == Entity \ {"timer", "executor"}
\* The calls of microRosAppFini in order.
Closing  == <<"ping_publisher", "pong_publisher", "ping_subscriber",
              "pong_subscriber", "node", "support">>
Capacity == 3           \* number_of_handles of rclc_executor_init
Foreign  == -1          \* a ping of another device
Other    == 0

VARIABLES
  short,    \* memory is short
  pc, k,    \* microRosAppMain, and the next call of microRosAppInit
  live,     \* entities that hold memory
  created,  \* entities created by the present attempt
  handles,  \* what has been added to the executor since rclc_executor_init
  leaked,   \* entities that were initialised again while they held memory
  seq_no,   \* the number of the last ping, 0 before the first
  frameId,  \* outcoming_ping.frame_id
  pong_count,
  air,      \* own pings that may still arrive
  answered  \* texts that the device has sent as pongs

env   == <<transport, short>>
setup == <<live, created, handles, leaked>>
ping  == <<seq_no, frameId, pong_count, air, answered>>
vars  == <<env, pc, k, setup, ping>>

Init ==
  /\ TransportInit /\ short \in BOOLEAN
  /\ pc = "init" /\ k = 1
  /\ live = {} /\ created = {} /\ handles = <<>> /\ leaked = {}
  /\ seq_no = 0 /\ frameId = Other /\ pong_count = 0
  /\ air = {} /\ answered = {}

Memory == short' = ~short /\ UNCHANGED <<transport, pc, k, setup, ping>>

\* The world and the transport; time matters only where the task waits.
Environment ==
  /\ Host \/ HostTakes \/ Answer \/ (pc # "spin" /\ Tick)
  /\ UNCHANGED <<short, pc, k, setup, ping>>

Transfer ==
  /\ transportUxrCdcWrite \/ transportUxrCdcRead
  /\ UNCHANGED <<short, pc, k, setup, ping>>

-----------------------------------------------------------------------------
(* microRosAppInit *)

Creating == k <= Len(Entities)
Calling  == Creating /\ Entities[k] \in Remote

\* The k-th call can succeed: the client library has its answer, the memory is
\* there, and rclc_executor_add_timer and its like find a free handle.
Possible ==
  /\ Calling => io = "replied"
  /\ Creating => ~short
  /\ ~Creating => Len(handles) < Capacity

\* The k-th call cannot go on.
Impossible ==
  \/ Creating /\ short
  \/ Calling /\ io = "failed"
  \/ ~Creating /\ Len(handles) >= Capacity

\* A call that needs the agent sends its request.
Request ==
  /\ pc = "init" /\ Calling /\ ~short /\ io = "idle"
  /\ io' = "write"
  /\ UNCHANGED <<usb, busy, tick, stamp, asked, reply, waited, short, pc, k, setup,
                 ping>>

\* The call returns.
Return == io' = "idle" /\ waited' = 0 /\ asked' = FALSE /\ reply' = FALSE
          /\ UNCHANGED <<usb, busy, tick, stamp, short>>

\* Mutant: a failure does not end the attempt.
CallFailsOn ==
  /\ pc = "init" /\ k <= Calls /\ io \notin {"write", "read"} /\ Impossible
  /\ Return /\ k' = k + 1
  /\ UNCHANGED <<pc, setup, ping>>

\* A call of microRosAppInit that returns RCL_RET_OK.  The init functions of
\* timer and executor clear the structure they are given.
CallSucceeds ==
  /\ pc = "init" /\ k <= Calls /\ Possible
  /\ IF k <= Len(Entities)
       THEN LET e == Entities[k]
            IN  /\ leaked' = IF e \in live THEN leaked \union {e} ELSE leaked
                /\ live' = live \union {e} /\ created' = created \union {e}
                /\ handles' = IF e = "executor" THEN <<>> ELSE handles
       ELSE /\ handles' = Append(handles, Handles[k - Len(Entities)])
            /\ UNCHANGED <<live, created, leaked>>
  /\ Return /\ k' = k + 1
  /\ UNCHANGED <<pc, ping>>

\* INIT_FAIL_RETURN_FALSE
CallFails ==
  /\ pc = "init" /\ k <= Calls /\ io \notin {"write", "read"} /\ Impossible
  /\ Return /\ pc' = "fini"
  /\ UNCHANGED <<k, setup, ping>>

\* microRosAppInit sets up the messages and returns true.
Ready ==
  /\ pc = "init" /\ k = Calls + 1
  /\ pc' = "spin" /\ frameId' = Other
  /\ UNCHANGED <<env, k, setup, seq_no, pong_count, air, answered>>

-----------------------------------------------------------------------------
(* microRosAppFini and the retry of microRosAppMain *)

\* e is the first of the entities es that the calls come to.
FirstOf(es, e) ==
  \E i \in 1..Len(Closing) :
    /\ e = Closing[i] /\ e \in es
    /\ \A j \in 1..i - 1 : Closing[j] \notin es

\* The agent is asked to delete what it keeps of the next entity, and the call
\* waits for the status.
Goodbye ==
  /\ pc = "fini" /\ live \intersect Remote # {} /\ io = "idle"
  /\ io' = "write"
  /\ UNCHANGED <<usb, busy, tick, stamp, asked, reply, waited, short, pc, k, setup,
                 ping>>

\* The end of a call of microRosAppFini that has es left to finalise, or of
\* microRosAppFini.  RCSOFTCHECK ignores the result, and the memory is freed
\* whether the agent has answered or not.
FiniOf(es) ==
  /\ pc = "fini"
  /\ \/ /\ io \in {"replied", "failed"}
        /\ \E e \in es : FirstOf(es, e) /\ live' = live \ {e}
        /\ Return /\ UNCHANGED pc
     \/ /\ es = {} /\ pc' = "delay"
        /\ UNCHANGED <<env, live>>
  /\ UNCHANGED <<k, created, handles, leaked, ping>>

\* Mutant: the node is not finalised.
FiniKeepNode == FiniOf((live \intersect Remote) \ {"node"})

\* The publishers, the subscriptions, the node and the support.
microRosAppFini == FiniOf(live \intersect Remote)

\* Mutant: the task gives up after a failure.
RetryNever ==
  /\ pc = "delay" /\ pc' = "delay"
  /\ UNCHANGED <<env, k, setup, ping>>

\* osDelay(5000) and the next attempt.
Retry ==
  /\ pc = "delay" /\ pc' = "init"
  /\ k' = 1 /\ created' = {}
  /\ UNCHANGED <<env, live, handles, leaked, ping>>

-----------------------------------------------------------------------------
(* rclc_executor_spin_some and the callbacks *)

\* Mutant: the number is drawn once and for all.
PingSameNumber ==
  /\ pc = "spin" /\ seq_no < MaxPing
  /\ seq_no' = 1 /\ frameId' = 1
  /\ pong_count' = 0
  /\ air' \in {air, air \union {1}}
  /\ UNCHANGED <<env, pc, k, setup, answered>>

\* ping_timer_callback draws a number that was not there before; the message
\* may get lost.
ping_timer_callback ==
  /\ pc = "spin" /\ seq_no < MaxPing
  /\ seq_no' = seq_no + 1 /\ frameId' = seq_no + 1
  /\ pong_count' = 0
  /\ air' \in {air, air \union {seq_no + 1}}
  /\ UNCHANGED <<env, pc, k, setup, answered>>

\* The text is kept in an array of the finished microRosAppInit, on the part
\* of the stack that every later call uses again.
StackReused ==
  /\ pc = "spin" /\ frameId' = Other
  /\ UNCHANGED <<env, pc, k, setup, seq_no, pong_count, air, answered>>

\* The device hears its own pings too, and answers the ones it does not
\* recognise.
ping_subscription_callback(p) ==
  /\ pc = "spin"
  /\ answered' = IF p # frameId THEN answered \union {p} ELSE answered
  /\ UNCHANGED <<env, pc, k, setup, seq_no, frameId, pong_count, air>>

\* A pong counts if it carries the text of the last ping.  The device hears
\* its own pongs too.
pong_subscription_callback(p) ==
  /\ pc = "spin"
  /\ p = frameId => pong_count < MaxPong
  /\ pong_count' = IF p = frameId THEN pong_count + 1 ELSE pong_count
  /\ UNCHANGED <<env, pc, k, setup, seq_no, frameId, air, answered>>

-----------------------------------------------------------------------------
Attempt ==
  \/ Request \/ Transfer \/ CallSucceeds \/ CallFails \/ Ready
  \/ Goodbye \/ microRosAppFini \/ Retry
Spin ==
  \/ ping_timer_callback \/ StackReused
  \/ \E p \in air \union {Foreign} : ping_subscription_callback(p)
  \/ \E p \in air \union answered : pong_subscription_callback(p)

Next == Environment \/ Memory \/ Attempt \/ Spin

Spec == Init /\ [][Next]_vars

\* The scheduler keeps serving the task, a host that reads the port keeps
\* taking packets, and time goes on.
FairSpec ==
  /\ Spec /\ WF_vars(Attempt)
  /\ WF_vars(HostTakes /\ UNCHANGED <<short, pc, k, setup, ping>>)
  /\ WF_vars(pc # "spin" /\ Tick /\ UNCHANGED <<short, pc, k, setup, ping>>)

-----------------------------------------------------------------------------
(* Properties *)

\* The executor spins on entities of the present attempt only: all of them
\* exist, and its handles are exactly one timer and the two subscriptions,
\* however many attempts failed half-way before.
SpinsOnFresh ==
  pc = "spin" =>
    /\ created = Entity /\ Entity \subseteq live
    /\ handles = Handles

\* However often and wherever attempts fail, the only entity that is ever
\* initialised over one of an earlier attempt is the timer: microRosAppFini
\* frees the publishers, the subscriptions, the node and the support, and
\* nothing fails once there is an executor.
OnlyTimerLeaks == leaked \subseteq {"timer"}

\* ping_subscription_callback answers own pings that come after the next timer,
\* or after the text of the last one was overwritten on the stack ("Dont pong
\* my own pings" notwithstanding); yet pong_subscription_callback never counts
\* such a pong: whatever text is there to compare with, the device has not
\* answered it, and will not answer it while it is there.
OwnPongsUncounted == frameId \notin answered

\* Once the memory is there for good, and an agent that answers every request
\* within the time of the call, the task ends up spinning, whichever call was
\* failing before, whatever is left in the endpoint that a write is spinning
\* on, and however stale the deadline is that keeps the answers back.
EventuallySpins ==
  <>[](usb = "agent" /\ ~short /\ ~Overdue) => <>(pc = "spin")
=============================================================================
