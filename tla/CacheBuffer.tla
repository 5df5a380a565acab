----------------------------- MODULE CacheBuffer -----------------------------
(***************************************************************************)
(* CacheBuffer<cache_size_>: the ring buffer between the USB interrupt,    *)
(* which writes what the host sends (CDC_Receive_FS, transimitionUsbCdcRx),*)
(* and the micro_ros_app task, which reads it (transportUxrCdcRead,        *)
(* transimitionUsbCdcReadBlock).  There is no lock: the interrupt comes    *)
(* between any two accesses of the reader to the shared members, and runs  *)
(* to its end before the reader goes on.                                   *)
(*                                                                         *)
(* A byte is represented by its place in the stream of accepted bytes, so  *)
(* that a lost, repeated or overwritten byte is seen when it is copied.    *)
(***************************************************************************)
EXTENDS Integers

CONSTANTS
  Size,      \* cache_size_ (1000)
  LenMod,    \* number of values of the uint8_t lengths (256)
  MaxPacket, \* longest packet of the host (64)
  MaxRead,   \* longest request of the reader
  MaxBytes   \* bound: bytes the host sends altogether

ASSUME SizeAssumption ==
  /\ Size \in Nat \ {0} /\ LenMod \in Nat \ {0}
  /\ MaxPacket \in Nat /\ MaxRead \in Nat \ {0} /\ MaxBytes \in Nat

VARIABLES
  cell,      \* buffer_: the number of the byte, 0 at the start
  write_pos, read_pos, circle,
  \* the reader: read() and read_max_len_change_pos()
  rpc,
  len,       \* the request
  filled,    \* filled_len
  at,        \* buffer_at_read
  max_len,   \* max_len, also tmp_len on the way there
  seen,      \* write_pos_ as read for tmp_len
  \* history
  wn,        \* bytes accepted by write
  rn,        \* bytes copied to the reader
  raced,     \* a write fell into one of the reader's unprotected windows
  clipped,   \* a backlog of LenMod bytes or more was cut to a uint8_t
  overrun    \* a write went past the end of buffer_

buffer  == <<cell, write_pos, read_pos, circle>>
reader  == <<rpc, len, filled, at, max_len, seen>>
history == <<wn, rn, raced, clipped, overrun>>
vars    == <<buffer, reader, history>>

Cells == 0..(Size - 1)

Init ==
  /\ cell = [i \in Cells |-> 0]
  /\ write_pos = 0 /\ read_pos = 0 /\ circle = FALSE
  /\ rpc = "idle" /\ len = 0 /\ filled = 0 /\ at = 0 /\ max_len = 0 /\ seen = 0
  /\ wn = 0 /\ rn = 0 /\ raced = FALSE /\ clipped = FALSE /\ overrun = FALSE

-----------------------------------------------------------------------------
(* The interrupt: write(para_buf, n). *)

\* memcpy of the bytes first, first + 1, ... to buffer_ + pos.
Stored(c, pos, n, first) ==
  [i \in Cells |-> IF pos <= i /\ i < pos + n THEN first + (i - pos) ELSE c[i]]

\* Mutant: no check for room.
FitsAlways(rpos, wpos, n) == TRUE

\* read_pos_ - write_pos_ > n on uint32_t: a negative difference is huge.
Fits(rpos, wpos, n) == rpos < wpos \/ rpos - wpos > n

\* The reader is between two accesses that belong together: the stores to
\* read_pos_ and circle_, the two reads of write_pos_, or the move of
\* read_pos_ and the copy of the bytes behind it.
Window(wraps, cells) ==
  \/ rpc \in {"clear", "zero", "setpos"}
  \/ rpc = "span" /\ wraps
  \/ rpc = "copy" /\ \E i \in cells : at <= i /\ i < at + max_len

\* The branch for circle_: all of the packet or nothing.
WriteCircle(n) ==
  /\ circle
  /\ IF Fits(read_pos, write_pos, n)
       THEN /\ cell' = Stored(cell, write_pos, n, wn)
            /\ write_pos' = write_pos + n
            /\ wn' = wn + n
            /\ overrun' = (overrun \/ write_pos + n > Size)
            /\ raced' = (raced \/ Window(FALSE, write_pos..(write_pos + n - 1)))
       ELSE UNCHANGED <<cell, write_pos, wn, overrun, raced>>
  /\ UNCHANGED <<read_pos, circle, rn, clipped, reader>>

\* Mutant: a packet that ends exactly at the end of buffer_ does not wrap.
WriteStraightFull(n) ==
  /\ ~circle /\ Size - write_pos >= n
  /\ cell' = Stored(cell, write_pos, n, wn)
  /\ write_pos' = write_pos + n
  /\ wn' = wn + n
  /\ raced' = (raced \/ Window(FALSE, write_pos..(write_pos + n - 1)))
  /\ UNCHANGED <<read_pos, circle, rn, clipped, overrun, reader>>

\* The packet ends before the end of buffer_.
WriteStraight(n) ==
  /\ ~circle /\ Size - write_pos > n
  /\ cell' = Stored(cell, write_pos, n, wn)
  /\ write_pos' = write_pos + n
  /\ wn' = wn + n
  /\ raced' = (raced \/ Window(FALSE, write_pos..(write_pos + n - 1)))
  /\ UNCHANGED <<read_pos, circle, rn, clipped, overrun, reader>>

\* It does not: the tail is filled, and the rest goes to the front if it fits
\* behind the reader; if not, it is dropped.
WriteWrap(n) ==
  LET tmp_len == Size - write_pos
      rest    == IF Fits(read_pos, 0, n - tmp_len) THEN n - tmp_len ELSE 0
  IN  /\ ~circle /\ ~(tmp_len > n)
      /\ cell' = Stored(Stored(cell, write_pos, tmp_len, wn), 0, rest, wn + tmp_len)
      /\ write_pos' = rest
      /\ circle' = TRUE
      /\ wn' = wn + tmp_len + rest
      /\ raced' = (raced \/ Window(TRUE, (write_pos..(Size - 1)) \union 0..(rest - 1)))
      /\ UNCHANGED <<read_pos, rn, clipped, overrun, reader>>

Write ==
  \E n \in 1..MaxPacket :
    /\ wn + n <= MaxBytes
    /\ WriteCircle(n) \/ WriteStraight(n) \/ WriteWrap(n)

-----------------------------------------------------------------------------
(* The task: read(para_buf, len, time_check_callback). *)

Read ==
  /\ rpc = "idle"
  /\ \E n \in 1..MaxRead : len' = n
  /\ filled' = 0 /\ rpc' = "top"
  /\ UNCHANGED <<buffer, at, max_len, seen, history>>

\* buffer_at_read is computed before the wait.
Top ==
  /\ rpc = "top"
  /\ at' = read_pos /\ rpc' = "wait"
  /\ UNCHANGED <<buffer, len, filled, max_len, seen, history>>

\* read_wait_pos reads circle_ and, only if it is clear, the positions.
WaitCircle ==
  /\ rpc = "wait"
  /\ rpc' = IF circle THEN "change" ELSE "compare"
  /\ UNCHANGED <<buffer, len, filled, at, max_len, seen, history>>

WaitCompare ==
  /\ rpc = "compare"
  /\ rpc' = IF write_pos > read_pos THEN "change" ELSE "timer"
  /\ UNCHANGED <<buffer, len, filled, at, max_len, seen, history>>

\* time_check_callback: read returns what it has, or waits on.
TimeOut ==
  /\ rpc = "timer"
  /\ rpc' = "idle" /\ len' = 0 /\ filled' = 0 /\ at' = 0 /\ max_len' = 0
  /\ UNCHANGED <<buffer, seen, history>>

WaitOn ==
  /\ rpc = "timer" /\ rpc' = "wait"
  /\ UNCHANGED <<buffer, len, filled, at, max_len, seen, history>>

\* The parameter expected_len is a uint8_t.
expected_len == (len - filled) % LenMod

\* read_max_len_change_pos with circle_ set: up to the end of buffer_.  The
\* stores to read_pos_ and circle_ that go back to the front are two steps,
\* which the compiler may order either way.
ChangeCircle ==
  LET tmp_len == (Size - read_pos) % LenMod
  IN  /\ rpc = "change" /\ circle
      /\ \/ /\ tmp_len > expected_len
            /\ read_pos' = read_pos + expected_len
            /\ max_len' = expected_len
            /\ rpc' = "copy" /\ UNCHANGED <<circle, clipped>>
         \/ /\ ~(tmp_len > expected_len)
            /\ max_len' = tmp_len
            /\ clipped' = (clipped \/ tmp_len # Size - read_pos)
            /\ \/ read_pos' = 0 /\ rpc' = "clear" /\ UNCHANGED circle
               \/ circle' = FALSE /\ rpc' = "zero" /\ UNCHANGED read_pos
      /\ UNCHANGED <<cell, write_pos, len, filled, at, seen, wn, rn, raced, overrun>>

\* Mutant: circle_ is not cleared.
ClearNothing ==
  /\ rpc = "clear" /\ rpc' = "copy"
  /\ UNCHANGED <<buffer, len, filled, at, max_len, seen, history>>

ClearCircle ==
  /\ rpc = "clear"
  /\ circle' = FALSE /\ rpc' = "copy"
  /\ UNCHANGED <<cell, write_pos, read_pos, len, filled, at, max_len, seen,
                 history>>

ZeroPos ==
  /\ rpc = "zero"
  /\ read_pos' = 0 /\ rpc' = "copy"
  /\ UNCHANGED <<cell, write_pos, circle, len, filled, at, max_len, seen, history>>

\* With circle_ clear: up to write_pos_, which is read for tmp_len and, as the
\* compiler likes, read again or not for the new read_pos_.
ChangeStraight ==
  /\ rpc = "change" /\ ~circle
  /\ rpc' = "span"
  /\ UNCHANGED <<buffer, len, filled, at, max_len, seen, history>>

Span ==
  LET tmp_len == (write_pos - read_pos) % LenMod
  IN  /\ rpc = "span"
      /\ \/ /\ tmp_len > expected_len
            /\ read_pos' = read_pos + expected_len
            /\ max_len' = expected_len /\ rpc' = "copy"
            /\ UNCHANGED <<seen, clipped>>
         \/ /\ ~(tmp_len > expected_len)
            /\ max_len' = tmp_len /\ seen' = write_pos
            /\ clipped' = (clipped \/ tmp_len # write_pos - read_pos)
            /\ rpc' = "setpos" /\ UNCHANGED read_pos
      /\ UNCHANGED <<cell, write_pos, circle, len, filled, at, wn, rn, raced,
                     overrun>>

SetPos ==
  /\ rpc = "setpos"
  /\ read_pos' \in {seen, write_pos}
  /\ seen' = 0 /\ rpc' = "copy"
  /\ UNCHANGED <<cell, write_pos, circle, len, filled, at, max_len, history>>

\* The memcpy to the caller, after the positions have been moved.
Copy ==
  /\ rpc = "copy"
  /\ rn' = rn + max_len
  /\ IF filled + max_len = len
       THEN rpc' = "idle" /\ len' = 0 /\ filled' = 0
       ELSE rpc' = "top" /\ filled' = filled + max_len /\ UNCHANGED len
  /\ at' = 0 /\ max_len' = 0
  /\ UNCHANGED <<buffer, seen, wn, raced, clipped, overrun>>

-----------------------------------------------------------------------------
ChangePos == ChangeCircle \/ ClearCircle \/ ZeroPos \/ ChangeStraight \/ Span
               \/ SetPos
Reader == Read \/ Top \/ WaitCircle \/ WaitCompare \/ TimeOut \/ WaitOn
            \/ ChangePos \/ Copy

Next == Write \/ Reader

Spec == Init /\ [][Next]_vars

-----------------------------------------------------------------------------
(* Properties *)

\* Every member and local of CacheBuffer keeps its range.
TypeOK ==
  /\ cell \in [Cells -> 0..MaxBytes]
  /\ write_pos \in 0..(Size - 1) /\ read_pos \in 0..(Size - 1)
  /\ circle \in BOOLEAN
  /\ rpc \in {"idle", "top", "wait", "compare", "timer", "change", "clear",
              "zero", "span", "setpos", "copy"}
  /\ len \in 0..MaxRead /\ filled \in 0..len
  /\ at \in 0..(Size - 1) /\ max_len \in 0..MaxRead /\ seen \in 0..(Size - 1)
  /\ wn \in 0..MaxBytes /\ rn \in 0..wn
  /\ raced \in BOOLEAN /\ clipped \in BOOLEAN /\ overrun \in BOOLEAN

\* Neither did a write fall into a window nor did a length lose its high bits.
Undisturbed == ~raced /\ ~clipped

\* As long as it is undisturbed, CacheBuffer keeps its members in range.
RangesKept == Undisturbed => TypeOK

\* The bytes read() is about to copy are the next bytes of the stream, in
\* order and none of them overwritten: what write() accepted from the host is
\* what micro-ROS gets.
CopiesNextBytes ==
  rpc = "copy" /\ Undisturbed =>
    \A k \in 0..(max_len - 1) : at + k < Size /\ cell[at + k] = rn + k

\* write() stays inside buffer_ unless it interrupts one of the windows of
\* read().
NoOverrun == overrun => raced

Rest == IF circle THEN (Size - read_pos) + write_pos ELSE write_pos - read_pos

\* Between two requests the positions enclose exactly the accepted bytes that
\* read() has not delivered.
HoldsTheRest == rpc = "idle" /\ Undisturbed => wn - rn = Rest

\* The same for every backlog that fits: "cache_size_ indicates what bytes'
\* length buffer", so no accepted byte is lost before it is read.
CapacityIsCacheSize == rpc = "idle" /\ ~raced => wn - rn = Rest
=============================================================================
