----------------------------- MODULE Transport -----------------------------
(***************************************************************************)
(* A request of the micro-ROS client over USB and the wait for its answer: *)
(* transportUxrCdcWrite, which spins while the endpoint is busy, and       *)
(* transportUxrCdcRead, whose deadline (transimitionUsbCdcReadBlock) is a  *)
(* static variable that only the first read computes.                      *)
(*                                                                         *)
(* The unit of time is a round of the scheduler, in which every ready task *)
(* runs; the counter wraps.  The client library, of which the repository   *)
(* has the binary, reads again until the time of the call is over or the   *)
(* answer is there, and drops the answers to earlier calls.                *)
(***************************************************************************)
EXTENDS Integers

CONSTANTS
  TickMod,   \* number of values of the tick counter
  TimeOut,   \* time_out of a read
  CallTime   \* how long the client library waits for an answer

ASSUME TransportAssumption ==
  /\ TickMod \in Nat /\ TimeOut \in Nat \ {0} /\ CallTime \in Nat \ {0}
  /\ TimeOut < TickMod

NoStamp == -1

VARIABLES
  usb,     \* "none" (not enumerated), "unread" (nobody reads), "agent"
  busy,    \* hcdc->TxState: the endpoint holds a packet
  tick,    \* xTaskGetTickCount()
  stamp,   \* the static deadline
  io,      \* where the request is
  asked,   \* the agent has the request and has not answered it
  reply,   \* its answer is in the ring buffer
  waited   \* history: time since the request was written

transport == <<usb, busy, tick, stamp, io, asked, reply, waited>>

TransportInit ==
  /\ usb \in {"none", "unread", "agent"} /\ busy = FALSE
  /\ tick \in 0..TickMod - 1 /\ stamp = NoStamp
  /\ io = "idle" /\ asked = FALSE /\ reply = FALSE /\ waited = 0

\* The cable and the agent come and go; a reset of the bus empties the endpoint.
Host ==
  /\ usb' \in {"none", "unread", "agent"} \ {usb}
  /\ busy' = (busy /\ usb' # "none") /\ asked' = FALSE
  /\ UNCHANGED <<tick, stamp, io, reply, waited>>

\* USBD_CDC_DataIn: the host has taken the packet, with the empty one that
\* follows a packet of full length.
HostTakes ==
  /\ busy /\ usb = "agent"
  /\ busy' = FALSE /\ asked' = (io = "read")
  /\ UNCHANGED <<usb, tick, stamp, io, reply, waited>>

\* The agent answers a request, at any time or never.
Answer ==
  /\ asked /\ usb = "agent"
  /\ asked' = FALSE /\ reply' = TRUE
  /\ UNCHANGED <<usb, busy, tick, stamp, io, waited>>

\* CDC_Transmit_FS takes the packet.  Before enumeration it reads TxState
\* through a null pointer: what is there means busy, and the write spins, or
\* the transfer fails.  A busy endpoint is asked again.
transportUxrCdcWrite ==
  /\ io = "write"
  /\ \/ /\ usb # "none" /\ ~busy
        /\ busy' = TRUE /\ io' = "read" /\ reply' = FALSE /\ waited' = 0
     \/ /\ usb = "none"
        /\ io' = "failed" /\ UNCHANGED <<busy, reply, waited>>
  /\ UNCHANGED <<usb, tick, stamp, asked>>

\* The deadline of transimitionUsbCdcReadBlock.
Deadline == IF stamp = NoStamp THEN (tick + TimeOut) % TickMod ELSE stamp

\* Mutant: the time-out callback compares with >=.
ExpiredLate == ~(Deadline >= tick)

\* The time-out callback says no more: now that the ring buffer is empty, the
\* read returns with what it has.
Expired == ~(Deadline > tick)

\* The read came back with nothing, and the call's time is over.
GivesUp == ~reply /\ Expired /\ waited >= CallTime

\* CacheBuffer::read returns when the client's buffer is full, which it may be
\* with the answer, or when the ring buffer is empty and the deadline has
\* passed; a shorter answer is kept back until then.  A read that returns
\* without an answer is called again until the call's time is over.
transportUxrCdcRead ==
  /\ io = "read"
  /\ \/ reply /\ io' = "replied" /\ UNCHANGED stamp
     \/ reply /\ Expired /\ io' = "replied" /\ stamp' = Deadline
     \/ GivesUp /\ io' = "failed" /\ stamp' = Deadline
     \/ ~GivesUp /\ ~(reply /\ Expired) /\ stamp' = Deadline /\ UNCHANGED io
  /\ reply' = (reply /\ io' = "read")
  /\ UNCHANGED <<usb, busy, tick, asked, waited>>

\* A round of the scheduler is over: the task that reads has had its turn, so
\* that it has computed the deadline, and did not return if it goes on.
Tick ==
  /\ io = "read" => stamp = Deadline /\ ~GivesUp /\ ~(reply /\ Expired)
  /\ tick' = (tick + 1) % TickMod
  /\ waited' = IF io = "read" THEN waited + 1 ELSE waited
  /\ UNCHANGED <<usb, busy, stamp, io, asked, reply>>

\* The time of the call is over, and there is no answer.
Overdue == io = "read" /\ ~reply /\ waited >= CallTime

\* A call ends although its reads do not keep their own time-outs, with an
\* answer that is kept back or without one: the wait is longer than the time of
\* the call only while the tick counter is below the deadline of the very first
\* read, which comes again with every wrap.
WaitBounded == io = "read" /\ stamp # NoStamp => waited <= CallTime + stamp
=============================================================================
