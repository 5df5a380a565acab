------------------------- MODULE CacheBufferProofs -------------------------
(***************************************************************************)
(* Proofs about CacheBuffer between the USB interrupt and the micro-ROS    *)
(* task, for buffers, packets, requests and streams of any length.         *)
(***************************************************************************)
EXTENDS CacheBuffer, TLAPS

-----------------------------------------------------------------------------
(* The invariant. *)

Places == {"idle", "top", "wait", "compare", "timer", "change", "clear", "zero",
           "span", "setpos", "copy"}

\* Flags and numbers, whatever happened.
Flags == circle \in BOOLEAN /\ raced \in BOOLEAN /\ clipped \in BOOLEAN /\ overrun \in BOOLEAN

Shape ==
  /\ rpc \in Places /\ Flags
  /\ len \in Int /\ filled \in Int /\ max_len \in Int
  /\ write_pos \in Int /\ read_pos \in Int /\ seen \in Int

\* read() is on its way back to the front, and has done one of the two stores.
Turning == rpc \in {"clear", "zero"}

\* Without a write in a window the positions enclose the bytes that are held:
\* write_pos_ is not behind read_pos_, or not ahead of it once circle_ is set.
PositionsInv ==
  ~raced =>
    /\ write_pos \in Cells /\ read_pos \in Cells /\ ~overrun
    /\ rpc = "clear" => circle /\ read_pos = 0
    /\ rpc = "zero" => ~circle
    /\ ~Turning /\ circle => write_pos <= read_pos
    /\ ~Turning /\ ~circle => read_pos <= write_pos
    /\ rpc \in {"span", "setpos"} => ~circle
    /\ rpc = "setpos" => seen = write_pos

\* What read() has moved read_pos_ over but not copied yet.
Moved == IF rpc \in {"clear", "zero", "copy"} THEN max_len ELSE 0

\* read_pos_ and circle_ as they are after the second store.
Head == IF Turning THEN 0 ELSE read_pos
Wrapped == ~Turning /\ circle

\* The byte of the stream that a byte in the first cell would be if it was held
\* in front of write_pos_ without a wrap.
Base == rn + Moved - Head

\* The locals of read().
RequestOK ==
  /\ len \in 0..MaxRead /\ filled \in 0..len
  /\ at \in Cells /\ seen \in Cells
  /\ max_len \in 0..(len - filled)
  /\ rpc \notin {"clear", "zero", "setpos", "copy"} => max_len = 0
  /\ rpc \in {"wait", "compare", "timer", "change", "span", "setpos"} => at = read_pos
  /\ rpc = "setpos" => max_len = write_pos - read_pos

\* The positions enclose what was accepted and not read.
CountsOK ==
  /\ rn \in Nat /\ wn \in 0..MaxBytes
  /\ wn = Base + write_pos + (IF Wrapped THEN Size ELSE 0)

\* The cells from read_pos_ on hold the accepted bytes in order, beginning with
\* the first one that was not read.
HeldBack == \A i \in Cells : Head <= i /\ (Wrapped \/ i < write_pos) => cell[i] = Base + i

\* And so do the cells at the front of a buffer that has wrapped.
HeldFront == \A i \in Cells : Wrapped /\ i < write_pos => cell[i] = Base + Size + i

\* The cells that are about to be copied hold the next bytes.
ToCopy ==
  /\ at + Moved <= Size
  /\ \A i \in Cells : at <= i /\ i < at + Moved => cell[i] = rn + (i - at)

\* What holds as long as nothing disturbs read().
StreamInv ==
  Undisturbed =>
    /\ RequestOK /\ CountsOK
    /\ cell \in [Cells -> 0..MaxBytes]
    /\ HeldBack /\ HeldFront /\ ToCopy

CacheInv == Shape /\ PositionsInv /\ StreamInv

-----------------------------------------------------------------------------
(* Lengths. *)

\* A length that is stored in a uint8_t.
LEMMA Lengths ==
  ASSUME NEW x \in Int
  PROVE  /\ x % LenMod \in 0..(LenMod - 1)
         /\ x >= 0 => x % LenMod <= x
<1>1. LenMod \in Nat /\ LenMod > 0
  BY SizeAssumption
<1> QED BY <1>1, Z3

\* The length read() asks for is a number, and at most what is missing.
LEMMA Expected ==
  ASSUME Shape
  PROVE  /\ expected_len \in Nat
         /\ filled <= len => expected_len <= len - filled
<1>1. len - filled \in Int
  BY DEF Shape
<1> QED BY <1>1, Lengths, SizeAssumption DEF expected_len, Shape

\* Sizes are numbers.
LEMMA Sizes ==
  /\ Size \in Nat /\ Size > 0 /\ MaxBytes \in Nat /\ MaxPacket \in Nat /\ MaxRead \in Nat
BY SizeAssumption

\* The buffer starts empty.
LEMMA CacheInit == Init => CacheInv
<1> SUFFICES ASSUME Init PROVE CacheInv
  OBVIOUS
<1> USE Sizes DEF Cells
<1>1. cell \in [Cells -> 0..MaxBytes]
  BY DEF Init
<1>2. Shape
  <2>1. Flags
    BY Zenon DEF Init, Flags
  <2> QED BY <2>1 DEF Init, Shape, Places
<1>3. PositionsInv
  BY DEF Init, PositionsInv, Turning
<1>4. Head = 0 /\ ~Wrapped /\ Moved = 0 /\ Base = 0
  BY DEF Init, Base, Head, Wrapped, Turning, Moved
<1>5. RequestOK /\ CountsOK
  BY <1>4 DEF Init, RequestOK, CountsOK
<1>6. HeldBack /\ HeldFront /\ ToCopy
  BY <1>4 DEF Init, HeldBack, HeldFront, ToCopy
<1> QED BY <1>1, <1>2, <1>3, <1>5, <1>6 DEF CacheInv, StreamInv

-----------------------------------------------------------------------------
(* The steps of the interrupt. *)

\* write() while circle_ is set: the packet goes between the positions.
LEMMA CacheWriteCircle ==
  ASSUME CacheInv, NEW n \in 1..MaxPacket, wn + n <= MaxBytes, WriteCircle(n)
  PROVE  CacheInv'
<1> USE Sizes DEF CacheInv, Cells
<1>1. CASE ~Fits(read_pos, write_pos, n)
  <2>1. UNCHANGED vars
    BY <1>1 DEF WriteCircle, vars, buffer, history
  <2> QED BY <2>1 DEF vars, buffer, reader, history, Shape, PositionsInv, StreamInv,
                      Turning, Undisturbed, Flags, RequestOK, Base, Head, Wrapped, Moved,
                      CountsOK, HeldBack, HeldFront, ToCopy
<1>2. CASE Fits(read_pos, write_pos, n)
  <2>1. /\ UNCHANGED <<read_pos, circle, rn, clipped, rpc, len, filled, at, max_len, seen>>
        /\ circle /\ write_pos' = write_pos + n /\ wn' = wn + n
        /\ cell' = Stored(cell, write_pos, n, wn)
        /\ overrun' = (overrun \/ write_pos + n > Size)
        /\ raced' = (raced \/ Window(FALSE, write_pos..(write_pos + n - 1)))
    BY <1>2 DEF WriteCircle, reader
  <2>2. Shape'
    <3>1. Flags'
      BY <2>1, Zenon DEF Shape, Flags
    <3> QED BY <2>1, <3>1 DEF Shape
  <2>3. ASSUME ~raced'
        PROVE  /\ ~raced /\ rpc \notin {"clear", "zero", "setpos"} /\ ~Turning /\ ~Turning'
               /\ write_pos \in Cells /\ read_pos \in Cells /\ ~overrun
               /\ write_pos + n < read_pos
               /\ rpc = "copy" => \A i \in write_pos..(write_pos + n - 1) :
                                    ~(at <= i /\ i < at + max_len)
    <3>1. ~raced /\ ~Window(FALSE, write_pos..(write_pos + n - 1))
      BY <2>1, <2>3
    <3>2. rpc \notin {"clear", "zero", "setpos"} /\ ~Turning /\ ~Turning'
      BY <2>1, <3>1 DEF Window, Turning
    <3>3. write_pos \in Cells /\ read_pos \in Cells /\ ~overrun /\ write_pos <= read_pos
      BY <2>1, <3>1, <3>2 DEF PositionsInv
    <3>4. write_pos + n < read_pos
      BY <1>2, <3>3 DEF Fits
    <3> QED BY <3>1, <3>2, <3>3, <3>4 DEF Window
  <2>4. PositionsInv'
    <3> SUFFICES ASSUME ~raced' PROVE PositionsInv'
      BY DEF PositionsInv
    <3>1. write_pos' \in Cells /\ write_pos' <= read_pos' /\ ~(write_pos + n > Size)
      BY <2>1, <2>3
    <3>2. ~overrun'
      BY <2>1, <2>3, <3>1, Zenon
    <3> QED BY <2>1, <2>3, <3>1, <3>2 DEF PositionsInv
  <2>5. StreamInv'
    <3> SUFFICES ASSUME Undisturbed' PROVE StreamInv'
      BY DEF StreamInv
    <3>1. Undisturbed /\ ~raced' /\ rpc \notin {"clear", "zero"}
      BY <2>1, <2>3 DEF Undisturbed
    <3>2. /\ Head = read_pos /\ Head' = read_pos /\ Wrapped /\ Wrapped'
          /\ Moved' = Moved /\ (Moved = 0 \/ (rpc = "copy" /\ Moved = max_len))
          /\ Base' = Base
      BY <2>1, <3>1 DEF Head, Wrapped, Moved, Base, Turning
    <3>3. RequestOK /\ CountsOK /\ cell \in [Cells -> 0..MaxBytes]
          /\ HeldBack /\ HeldFront /\ ToCopy
      BY <3>1 DEF StreamInv
    <3>4. /\ rn \in Nat /\ wn \in 0..MaxBytes /\ at \in Cells /\ max_len \in Nat
          /\ wn = Base + write_pos + Size /\ Moved \in Nat
      BY <3>2, <3>3 DEF RequestOK, CountsOK
    <3>5. Base \in Int
      BY <2>3, <3>1, <3>2, <3>4 DEF Base
    <3>6. \A i \in Cells : cell'[i] = IF write_pos <= i /\ i < write_pos + n
                                        THEN wn + (i - write_pos) ELSE cell[i]
      BY <2>1 DEF Stored
    <3>7. cell' \in [Cells -> 0..MaxBytes]
      <4>1. ASSUME NEW i \in Cells
            PROVE  (IF write_pos <= i /\ i < write_pos + n
                      THEN wn + (i - write_pos) ELSE cell[i]) \in 0..MaxBytes
        <5>1. write_pos \in Nat /\ i \in Nat /\ wn \in Nat /\ n \in Nat
          BY <2>3, <3>1, <3>4
        <5>2. cell[i] \in 0..MaxBytes
          BY <3>3
        <5> QED BY <5>1, <5>2
      <4> QED BY <2>1, <4>1 DEF Stored
    <3>8. RequestOK'
      BY <2>1, <3>1, <3>3 DEF RequestOK, Window
    <3>9. CountsOK'
      BY <2>1, <2>3, <3>1, <3>2, <3>4, <3>5 DEF CountsOK
    <3>10. HeldBack'
      BY <2>1, <2>3, <3>1, <3>2, <3>3, <3>6 DEF HeldBack
    <3>11. HeldFront'
      <4> SUFFICES ASSUME NEW i \in Cells, i < write_pos + n
                   PROVE  cell'[i] = Base + Size + i
        BY <2>1, <3>2 DEF HeldFront
      <4>1. write_pos \in Nat /\ i \in Nat /\ wn \in Nat /\ n \in Nat
        BY <2>3, <3>1, <3>4
      <4>2. CASE i < write_pos
        BY <3>2, <3>3, <3>6, <4>1, <4>2 DEF HeldFront
      <4>3. CASE write_pos <= i
        BY <3>4, <3>5, <3>6, <4>1, <4>3
      <4> QED BY <4>1, <4>2, <4>3
    <3>12. ToCopy'
      <4>1. \A i \in Cells : at <= i /\ i < at + Moved => cell'[i] = cell[i]
        <5> SUFFICES ASSUME NEW i \in Cells, at <= i, i < at + Moved
                     PROVE  ~(write_pos <= i /\ i < write_pos + n)
          BY <3>6
        <5>1. rpc = "copy" /\ Moved = max_len
          BY <3>2, <3>4
        <5>2. i \notin write_pos..(write_pos + n - 1)
          BY <2>3, <3>1, <5>1
        <5> QED BY <2>3, <3>1, <5>2
      <4> QED BY <2>1, <3>2, <3>3, <4>1 DEF ToCopy
    <3> QED BY <3>7, <3>8, <3>9, <3>10, <3>11, <3>12 DEF StreamInv
  <2> QED BY <2>2, <2>4, <2>5
<1> QED BY <1>1, <1>2

\* write() of a packet that ends before the end of buffer_.
LEMMA CacheWriteStraight ==
  ASSUME CacheInv, NEW n \in 1..MaxPacket, wn + n <= MaxBytes, WriteStraight(n)
  PROVE  CacheInv'
<1> USE Sizes DEF CacheInv, Cells
<1>1. /\ UNCHANGED <<read_pos, circle, rn, clipped, overrun, rpc, len, filled, at, max_len, seen>>
      /\ ~circle /\ Size - write_pos > n /\ write_pos' = write_pos + n /\ wn' = wn + n
      /\ cell' = Stored(cell, write_pos, n, wn)
      /\ raced' = (raced \/ Window(FALSE, write_pos..(write_pos + n - 1)))
  BY DEF WriteStraight, reader
<1>2. Shape'
  <2>1. Flags'
    BY <1>1, Zenon DEF Shape, Flags
  <2> QED BY <1>1, <2>1 DEF Shape
<1>3. ASSUME ~raced'
      PROVE  /\ ~raced /\ rpc \notin {"clear", "zero", "setpos"} /\ ~Turning /\ ~Turning'
             /\ write_pos \in Cells /\ read_pos \in Cells /\ ~overrun
             /\ read_pos <= write_pos
             /\ rpc = "copy" => \A i \in write_pos..(write_pos + n - 1) :
                                  ~(at <= i /\ i < at + max_len)
  <2>1. ~raced /\ ~Window(FALSE, write_pos..(write_pos + n - 1))
    BY <1>1, <1>3
  <2>2. rpc \notin {"clear", "zero", "setpos"} /\ ~Turning /\ ~Turning'
    BY <1>1, <2>1 DEF Window, Turning
  <2>3. write_pos \in Cells /\ read_pos \in Cells /\ ~overrun /\ read_pos <= write_pos
    BY <1>1, <2>1, <2>2 DEF PositionsInv
  <2> QED BY <2>1, <2>2, <2>3 DEF Window
<1>4. PositionsInv'
  <2> SUFFICES ASSUME ~raced' PROVE PositionsInv'
    BY DEF PositionsInv
  <2>1. write_pos' \in Cells /\ read_pos' <= write_pos'
    BY <1>1, <1>3
  <2> QED BY <1>1, <1>3, <2>1 DEF PositionsInv
<1>5. StreamInv'
  <2> SUFFICES ASSUME Undisturbed' PROVE StreamInv'
    BY DEF StreamInv
  <2>1. Undisturbed /\ ~raced' /\ rpc \notin {"clear", "zero"}
    BY <1>1, <1>3 DEF Undisturbed
  <2>2. /\ Head = read_pos /\ Head' = read_pos /\ ~Wrapped /\ ~Wrapped'
        /\ Moved' = Moved /\ (Moved = 0 \/ (rpc = "copy" /\ Moved = max_len))
        /\ Base' = Base
    BY <1>1, <2>1 DEF Head, Wrapped, Moved, Base, Turning
  <2>3. RequestOK /\ CountsOK /\ cell \in [Cells -> 0..MaxBytes]
        /\ HeldBack /\ HeldFront /\ ToCopy
    BY <2>1 DEF StreamInv
  <2>4. /\ rn \in Nat /\ wn \in 0..MaxBytes /\ at \in Cells /\ max_len \in Nat
        /\ wn = Base + write_pos /\ Moved \in Nat
    <3>1. /\ rn \in Nat /\ wn \in 0..MaxBytes /\ at \in Cells /\ max_len \in Nat
          /\ Moved \in Nat /\ write_pos \in Nat /\ read_pos \in Nat
      BY <1>3, <2>1, <2>2, <2>3 DEF RequestOK, CountsOK
    <3>2. Base \in Int
      BY <2>2, <3>1 DEF Base
    <3>3. wn = Base + write_pos + 0
      BY <2>2, <2>3 DEF CountsOK
    <3> QED BY <3>1, <3>2, <3>3
  <2>5. Base \in Int /\ write_pos \in Nat /\ wn \in Nat /\ n \in Nat
    BY <1>3, <2>1, <2>2, <2>4 DEF Base
  <2>6. \A i \in Cells : cell'[i] = IF write_pos <= i /\ i < write_pos + n
                                      THEN wn + (i - write_pos) ELSE cell[i]
    BY <1>1 DEF Stored
  <2>7. cell' \in [Cells -> 0..MaxBytes]
    <3>1. ASSUME NEW i \in Cells
          PROVE  (IF write_pos <= i /\ i < write_pos + n
                    THEN wn + (i - write_pos) ELSE cell[i]) \in 0..MaxBytes
      <4>1. cell[i] \in 0..MaxBytes /\ i \in Nat
        BY <2>3
      <4> QED BY <2>5, <4>1
    <3> QED BY <1>1, <3>1 DEF Stored
  <2>8. RequestOK'
    BY <1>1, <2>1, <1>3, <2>3 DEF RequestOK
  <2>9. CountsOK'
    BY <1>1, <2>2, <2>4, <2>5 DEF CountsOK
  <2>10. HeldBack'
    <3> SUFFICES ASSUME NEW i \in Cells, read_pos <= i, i < write_pos + n
                 PROVE  cell'[i] = Base + i
      BY <1>1, <2>2 DEF HeldBack
    <3>1. i \in Nat
      OBVIOUS
    <3>2. CASE i < write_pos
      BY <2>2, <2>3, <2>5, <2>6, <3>1, <3>2 DEF HeldBack
    <3>3. CASE write_pos <= i
      BY <2>4, <2>5, <2>6, <3>1, <3>3
    <3> QED BY <2>5, <3>1, <3>2, <3>3
  <2>11. HeldFront'
    BY <2>2 DEF HeldFront
  <2>12. ToCopy'
    <3>1. \A i \in Cells : at <= i /\ i < at + Moved => cell'[i] = cell[i]
      <4> SUFFICES ASSUME NEW i \in Cells, at <= i, i < at + Moved
                   PROVE  ~(write_pos <= i /\ i < write_pos + n)
        BY <2>6
      <4>1. rpc = "copy" /\ Moved = max_len
        BY <2>2, <2>4
      <4>2. i \notin write_pos..(write_pos + n - 1)
        BY <1>3, <2>1, <4>1
      <4> QED BY <2>5, <4>2
    <3> QED BY <1>1, <2>2, <2>3, <3>1 DEF ToCopy
  <2> QED BY <2>7, <2>8, <2>9, <2>10, <2>11, <2>12 DEF StreamInv
<1> QED BY <1>2, <1>4, <1>5

\* write() of a packet that does not: the tail of buffer_ is filled, and the rest
\* of the packet goes to the front if it stays behind the reader.
LEMMA CacheWriteWrap ==
  ASSUME CacheInv, NEW n \in 1..MaxPacket, wn + n <= MaxBytes, WriteWrap(n)
  PROVE  CacheInv'
<1> USE Sizes DEF CacheInv, Cells
<1> DEFINE tail == Size - write_pos
           rest == IF Fits(read_pos, 0, n - tail) THEN n - tail ELSE 0
           touched == (write_pos..(Size - 1)) \union 0..(rest - 1)
<1>1. /\ UNCHANGED <<read_pos, rn, clipped, overrun, rpc, len, filled, at, max_len, seen>>
      /\ ~circle /\ circle' /\ ~(tail > n) /\ write_pos' = rest /\ wn' = wn + tail + rest
      /\ circle' = TRUE
      /\ cell' = Stored(Stored(cell, write_pos, tail, wn), 0, rest, wn + tail)
      /\ raced' = (raced \/ Window(TRUE, touched))
  BY DEF WriteWrap, reader
<1>2. Shape'
  <2>1. rest \in Int
    BY DEF Shape
  <2> HIDE DEF tail, rest, touched
  <2>2. Flags'
    BY <1>1, Zenon DEF Shape, Flags
  <2>3. write_pos' \in Int
    BY <1>1, <2>1
  <2> QED BY <1>1, <2>2, <2>3 DEF Shape
<1>3. ASSUME ~raced'
      PROVE  /\ ~raced /\ rpc \notin {"clear", "zero", "setpos", "span"}
             /\ ~Turning /\ ~Turning'
             /\ write_pos \in Cells /\ read_pos \in Cells /\ ~overrun
             /\ read_pos <= write_pos
             /\ tail \in Nat /\ rest \in Nat /\ tail + rest <= n
             /\ rest = 0 \/ rest < read_pos
             /\ rpc = "copy" => \A i \in touched : ~(at <= i /\ i < at + max_len)
  <2>1. ~raced /\ ~Window(TRUE, touched)
    BY <1>1, <1>3
  <2>2. rpc \notin {"clear", "zero", "setpos", "span"} /\ ~Turning /\ ~Turning'
    BY <1>1, <2>1 DEF Window, Turning
  <2>3. write_pos \in Cells /\ read_pos \in Cells /\ ~overrun /\ read_pos <= write_pos
    BY <1>1, <2>1, <2>2 DEF PositionsInv
  <2>4. tail \in Nat /\ tail <= n /\ n - tail \in Nat
    BY <1>1, <2>3
  <2>5. /\ rest \in Nat /\ tail + rest <= n
        /\ rest = 0 \/ rest < read_pos
    BY <2>3, <2>4 DEF Fits
  <2>6. rpc = "copy" => \A i \in touched : ~(at <= i /\ i < at + max_len)
    BY <2>1 DEF Window
  <2> QED BY <2>1, <2>2, <2>3, <2>4, <2>5, <2>6
<1> HIDE DEF rest
<1>4. PositionsInv'
  <2> SUFFICES ASSUME ~raced' PROVE PositionsInv'
    BY DEF PositionsInv
  <2>1. write_pos' \in Cells /\ write_pos' <= read_pos'
    BY <1>1, <1>3
  <2> QED BY <1>1, <1>3, <2>1 DEF PositionsInv
<1>5. StreamInv'
  <2> SUFFICES ASSUME Undisturbed' PROVE StreamInv'
    BY DEF StreamInv
  <2>1. Undisturbed /\ ~raced' /\ rpc \notin {"clear", "zero", "setpos", "span"}
    BY <1>1, <1>3 DEF Undisturbed
  <2>2. /\ Head = read_pos /\ Head' = read_pos /\ ~Wrapped /\ Wrapped'
        /\ Moved' = Moved /\ (Moved = 0 \/ (rpc = "copy" /\ Moved = max_len))
        /\ Base' = Base
    BY <1>1, <2>1 DEF Head, Wrapped, Moved, Base, Turning
  <2>3. RequestOK /\ CountsOK /\ cell \in [Cells -> 0..MaxBytes]
        /\ HeldBack /\ HeldFront /\ ToCopy
    BY <2>1 DEF StreamInv
  <2>4. /\ rn \in Nat /\ wn \in 0..MaxBytes /\ at \in Cells /\ max_len \in Nat
        /\ wn = Base + write_pos /\ Moved \in Nat
    <3>1. /\ rn \in Nat /\ wn \in 0..MaxBytes /\ at \in Cells /\ max_len \in Nat
          /\ Moved \in Nat /\ write_pos \in Nat /\ read_pos \in Nat
      <4>1. write_pos \in Nat /\ read_pos \in Nat
        BY <1>3, <2>1
      <4>2. rn \in Nat /\ wn \in 0..MaxBytes /\ at \in Cells /\ max_len \in Nat
        BY <2>3 DEF RequestOK, CountsOK
      <4> QED BY <2>2, <4>1, <4>2
    <3>2. Base \in Int
      BY <2>2, <3>1 DEF Base
    <3>3. wn = Base + write_pos + 0
      BY <2>2, <2>3 DEF CountsOK
    <3> QED BY <3>1, <3>2, <3>3
  <2>5. /\ Base \in Int /\ write_pos \in Nat /\ wn \in Nat /\ n \in Nat /\ read_pos \in Nat
        /\ rest \in Nat /\ tail + rest <= n /\ tail \in Nat /\ write_pos < Size
        /\ rest <= read_pos /\ read_pos <= write_pos
    BY <1>3, <2>1, <2>2, <2>4 DEF Base
  <2>6. \A i \in Cells : cell'[i] = IF i < rest THEN wn + tail + i
                                    ELSE IF write_pos <= i THEN wn + (i - write_pos)
                                    ELSE cell[i]
    <3>1. \A i \in Cells : Stored(cell, write_pos, tail, wn)[i]
                             = IF write_pos <= i THEN wn + (i - write_pos) ELSE cell[i]
      BY <2>5 DEF Stored
    <3>2. \A i \in Cells : cell'[i] = IF i < rest THEN wn + tail + i
                                      ELSE Stored(cell, write_pos, tail, wn)[i]
      <4> DEFINE c == Stored(cell, write_pos, tail, wn)
      <4>1. cell' = Stored(c, 0, rest, wn + tail)
        BY <1>1
      <4> HIDE DEF c
      <4>2. \A i \in Cells : cell'[i] = IF i < rest THEN wn + tail + i ELSE c[i]
        BY <2>5, <4>1 DEF Stored
      <4> QED BY <4>2 DEF c
    <3> QED BY <3>1, <3>2
  <2>7. cell' \in [Cells -> 0..MaxBytes]
    <3>1. \A i \in Cells : cell'[i] \in 0..MaxBytes
      <4> SUFFICES ASSUME NEW i \in Cells
                   PROVE  (IF i < rest THEN wn + tail + i
                           ELSE IF write_pos <= i THEN wn + (i - write_pos)
                           ELSE cell[i]) \in 0..MaxBytes
        BY <2>6
      <4>1. cell[i] \in 0..MaxBytes /\ i \in Nat /\ i < Size
        BY <2>3
      <4> QED BY <2>5, <4>1
    <3>2. cell' = [i \in Cells |-> cell'[i]]
      BY <1>1 DEF Stored
    <3> QED BY <3>1, <3>2
  <2>8. RequestOK'
    BY <1>1, <2>1, <2>3 DEF RequestOK
  <2>9. CountsOK'
    BY <1>1, <2>2, <2>4, <2>5 DEF CountsOK
  <2>10. HeldBack'
    <3> SUFFICES ASSUME NEW i \in Cells, read_pos <= i
                 PROVE  cell'[i] = Base + i
      BY <1>1, <2>2 DEF HeldBack
    <3>1. i \in Nat /\ ~(i < rest)
      BY <2>5
    <3>2. CASE i < write_pos
      BY <2>2, <2>3, <2>5, <2>6, <3>1, <3>2 DEF HeldBack
    <3>3. CASE write_pos <= i
      BY <2>4, <2>5, <2>6, <3>1, <3>3
    <3> QED BY <2>5, <3>1, <3>2, <3>3
  <2>11. HeldFront'
    <3> SUFFICES ASSUME NEW i \in Cells, i < rest PROVE cell'[i] = Base + Size + i
      BY <1>1, <2>2 DEF HeldFront
    <3>1. cell'[i] = wn + tail + i
      BY <2>6
    <3> QED BY <2>4, <2>5, <3>1
  <2>12. ToCopy'
    <3>1. \A i \in Cells : at <= i /\ i < at + Moved => cell'[i] = cell[i]
      <4> SUFFICES ASSUME NEW i \in Cells, at <= i, i < at + Moved
                   PROVE  ~(i < rest) /\ ~(write_pos <= i)
        BY <2>6
      <4>1. rpc = "copy" /\ Moved = max_len
        BY <2>2, <2>4
      <4>2. i \notin touched
        BY <1>3, <2>1, <4>1
      <4> QED BY <2>5, <4>2
    <3> QED BY <1>1, <2>2, <2>3, <3>1 DEF ToCopy
  <2> QED BY <2>7, <2>8, <2>9, <2>10, <2>11, <2>12 DEF StreamInv
<1> QED BY <1>2, <1>4, <1>5

-----------------------------------------------------------------------------
(* The steps of the task. *)

Waiting == {"idle", "top", "wait", "compare", "timer", "change", "span"}

\* A step of read() on its way to read_max_len_change_pos.
LEMMA CacheWaits ==
  ASSUME CacheInv, UNCHANGED buffer, UNCHANGED history,
         rpc \in Waiting, rpc' \in Waiting, rpc' = "span" => ~circle,
         len' \in Int, filled' \in Int, max_len' \in Int, seen' = seen,
         Undisturbed => RequestOK'
  PROVE  CacheInv'
<1> USE Sizes DEF CacheInv, Cells
<1>1. UNCHANGED <<cell, write_pos, read_pos, circle, wn, rn, raced, clipped, overrun>>
  BY DEF buffer, history
<1>2. ~Turning /\ ~Turning' /\ rpc' # "setpos" /\ rpc' \notin {"clear", "zero", "copy"}
      /\ rpc \notin {"clear", "zero", "copy"}
  BY DEF Waiting, Turning
<1>3. Shape'
  <2>1. Flags'
    BY <1>1 DEF Shape, Flags
  <2> QED BY <1>1, <2>1 DEF Shape, Places, Waiting
<1>4. PositionsInv'
  BY <1>1, <1>2 DEF PositionsInv
<1>5. StreamInv'
  <2> SUFFICES ASSUME Undisturbed' PROVE StreamInv'
    BY DEF StreamInv
  <2>1. Undisturbed
    BY <1>1 DEF Undisturbed
  <2>2. RequestOK /\ CountsOK /\ cell \in [Cells -> 0..MaxBytes]
        /\ HeldBack /\ HeldFront /\ ToCopy
    BY <2>1 DEF StreamInv
  <2>3. /\ Head' = Head /\ (Wrapped' <=> Wrapped) /\ Moved' = 0 /\ Moved = 0
        /\ Base' = Base
    BY <1>1, <1>2 DEF Head, Wrapped, Moved, Base
  <2>4. CountsOK' /\ HeldBack' /\ HeldFront'
    BY <1>1, <2>2, <2>3 DEF CountsOK, HeldBack, HeldFront
  <2>5. RequestOK' /\ at' \in Cells
    BY <2>1 DEF RequestOK
  <2>6. ToCopy'
    <3>1. PICK a \in Cells : a = at'
      BY <2>5
    <3>2. a + 0 <= Size /\ \A i \in Cells : ~(a <= i /\ i < a + 0)
      OBVIOUS
    <3> QED BY <2>3, <3>1, <3>2 DEF ToCopy
  <2> QED BY <1>1, <2>2, <2>4, <2>5, <2>6 DEF StreamInv
<1> QED BY <1>3, <1>4, <1>5

\* The request, the wait and the time-out.
LEMMA CacheWait ==
  CacheInv /\ (Read \/ Top \/ WaitCircle \/ WaitCompare \/ TimeOut \/ WaitOn
                 \/ ChangeStraight)
    => CacheInv'
<1> SUFFICES ASSUME CacheInv, Read \/ Top \/ WaitCircle \/ WaitCompare \/ TimeOut
                              \/ WaitOn \/ ChangeStraight
             PROVE  CacheInv'
  OBVIOUS
<1> USE Sizes DEF Cells, Waiting
<1>1. /\ len \in Int /\ filled \in Int /\ max_len \in Int
      /\ Undisturbed => RequestOK /\ read_pos \in Cells
  BY DEF CacheInv, Shape, StreamInv, PositionsInv, Undisturbed
<1>2. CASE Read
  <2>1. /\ UNCHANGED buffer /\ UNCHANGED history /\ UNCHANGED <<at, max_len, seen>>
        /\ rpc = "idle" /\ rpc' = "top" /\ len' \in 1..MaxRead /\ filled' = 0
    BY <1>2 DEF Read
  <2>2. ASSUME Undisturbed PROVE RequestOK'
    <3>1. at \in Cells /\ seen \in Cells /\ max_len = 0
      BY <1>1, <2>1, <2>2 DEF RequestOK
    <3>2. PICK m \in 1..MaxRead : m = len'
      BY <2>1
    <3>3. m \in 0..MaxRead /\ 0 \in 0..m /\ 0 \in 0..(m - 0)
      OBVIOUS
    <3> QED BY <2>1, <3>1, <3>2, <3>3 DEF RequestOK
  <2> QED BY <1>1, <2>1, <2>2, CacheWaits
<1>3. CASE Top
  <2>1. /\ UNCHANGED buffer /\ UNCHANGED history /\ UNCHANGED <<len, filled, max_len, seen>>
        /\ rpc = "top" /\ rpc' = "wait" /\ at' = read_pos /\ read_pos' = read_pos
    BY <1>3 DEF Top, buffer
  <2>2. Undisturbed => RequestOK'
    BY <1>1, <2>1 DEF RequestOK
  <2> QED BY <1>1, <2>1, <2>2, CacheWaits
<1>4. CASE WaitCircle \/ WaitCompare \/ WaitOn \/ ChangeStraight
  <2>1. /\ UNCHANGED buffer /\ UNCHANGED history /\ UNCHANGED <<len, filled, at, max_len, seen>>
        /\ rpc \in {"wait", "compare", "timer", "change"}
        /\ rpc' \in {"wait", "compare", "timer", "change", "span"}
        /\ rpc' = "span" => ~circle
        /\ read_pos' = read_pos
    BY <1>4 DEF WaitCircle, WaitCompare, WaitOn, ChangeStraight, buffer
  <2>2. Undisturbed => RequestOK'
    BY <1>1, <2>1 DEF RequestOK
  <2> QED BY <1>1, <2>1, <2>2, CacheWaits
<1>5. CASE TimeOut
  <2>1. /\ UNCHANGED buffer /\ UNCHANGED history /\ UNCHANGED seen
        /\ rpc = "timer" /\ rpc' = "idle" /\ len' = 0 /\ filled' = 0 /\ at' = 0 /\ max_len' = 0
    BY <1>5 DEF TimeOut
  <2>2. Undisturbed => RequestOK'
    BY <1>1, <2>1 DEF RequestOK
  <2> QED BY <1>1, <2>1, <2>2, CacheWaits
<1> QED BY <1>2, <1>3, <1>4, <1>5

\* read_max_len_change_pos takes as many bytes as are asked for, with circle_ set
\* or clear; more are there.
LEMMA CacheTakes ==
  ASSUME CacheInv, rpc \in {"change", "span"}, rpc = "change" => circle,
         rpc' = "copy", NEW room, expected_len < room,
         ~raced => room \in Nat /\ room <= (IF circle THEN Size ELSE write_pos) - read_pos,
         read_pos' = read_pos + expected_len, max_len' = expected_len,
         UNCHANGED <<cell, write_pos, circle, len, filled, at, seen>>, UNCHANGED history
  PROVE  CacheInv'
<1> USE Sizes DEF CacheInv, Cells
<1>1. UNCHANGED <<wn, rn, raced, clipped, overrun>>
  BY DEF history
<1>2. expected_len \in Nat /\ (filled <= len => expected_len <= len - filled)
  BY Expected
<1>3. Shape'
  <2>1. Flags'
    BY <1>1 DEF Shape, Flags
  <2> QED BY <1>2, <2>1 DEF Shape, Places
<1>4. ~Turning /\ ~Turning'
  BY DEF Turning
<1>5. ASSUME ~raced
      PROVE  /\ write_pos \in Cells /\ read_pos \in Cells /\ read_pos' \in Cells
             /\ read_pos <= read_pos' /\ ~overrun
             /\ circle => write_pos <= read_pos
             /\ ~circle => read_pos' <= write_pos
             /\ rpc = "span" => ~circle
  BY <1>2, <1>4, <1>5 DEF PositionsInv
<1>6. PositionsInv'
  BY <1>1, <1>4, <1>5 DEF PositionsInv
<1>7. StreamInv'
  <2> SUFFICES ASSUME Undisturbed' PROVE StreamInv'
    BY DEF StreamInv
  <2>1. Undisturbed /\ ~raced
    BY <1>1 DEF Undisturbed
  <2>2. RequestOK /\ CountsOK /\ cell \in [Cells -> 0..MaxBytes]
        /\ HeldBack /\ HeldFront /\ ToCopy
    BY <2>1 DEF StreamInv
  <2>3. /\ rn \in Nat /\ wn \in 0..MaxBytes /\ at = read_pos /\ read_pos \in Nat
        /\ len \in 0..MaxRead /\ filled \in 0..len
    BY <1>5, <2>1, <2>2 DEF RequestOK, CountsOK
  <2>4. /\ Head = read_pos /\ Head' = read_pos' /\ (Wrapped <=> circle) /\ (Wrapped' <=> circle)
        /\ Moved = 0 /\ Moved' = expected_len
        /\ Base = rn - read_pos /\ Base' = rn + expected_len - (read_pos + expected_len)
    BY <1>1, <1>4, <2>3 DEF Head, Wrapped, Moved, Base
  <2>5. Base' = Base /\ Base \in Int
    BY <1>2, <2>3, <2>4
  <2>6. RequestOK'
    BY <1>2, <1>5, <2>1, <2>2, <2>3 DEF RequestOK
  <2>7. CountsOK'
    BY <1>1, <2>2, <2>4, <2>5 DEF CountsOK
  <2>8. HeldBack' /\ HeldFront'
    BY <1>2, <1>5, <2>1, <2>2, <2>3, <2>4, <2>5 DEF HeldBack, HeldFront
  <2>9. ToCopy'
    <3>1. at + expected_len <= Size
      BY <1>2, <1>5, <2>1, <2>3
    <3>2. ASSUME NEW i \in Cells, read_pos <= i, i < read_pos + expected_len
          PROVE  cell[i] = rn + (i - read_pos)
      <4>1. circle \/ i < write_pos
        BY <1>2, <1>5, <2>1, <2>3, <3>2
      <4>2. cell[i] = Base + i
        BY <2>2, <2>4, <3>2, <4>1 DEF HeldBack
      <4> QED BY <2>3, <2>4, <4>2
    <3> QED BY <1>1, <2>3, <2>4, <3>1, <3>2 DEF ToCopy
  <2> QED BY <2>2, <2>6, <2>7, <2>8, <2>9 DEF StreamInv
<1> QED BY <1>3, <1>6, <1>7

\* read() takes all bytes up to the end of buffer_ and does one of the two stores
\* that go back to the front.
LEMMA CacheTurns ==
  ASSUME CacheInv, rpc = "change", circle, rpc' \in {"clear", "zero"},
         rpc' = "clear" => read_pos' = 0 /\ circle' = circle,
         rpc' = "zero" => read_pos' = read_pos /\ circle' = FALSE,
         max_len' = (Size - read_pos) % LenMod, max_len' <= expected_len,
         clipped' = (clipped \/ max_len' # Size - read_pos),
         UNCHANGED <<cell, write_pos, len, filled, at, seen, wn, rn, raced, overrun>>
  PROVE  CacheInv'
<1> USE Sizes DEF CacheInv, Cells
<1>1. expected_len \in Nat /\ (filled <= len => expected_len <= len - filled)
  BY Expected
<1>2. ~Turning /\ Turning'
  BY DEF Turning
<1>3. ASSUME ~raced
      PROVE  /\ write_pos \in Cells /\ read_pos \in Cells /\ read_pos' \in Cells
             /\ ~overrun /\ write_pos <= read_pos
             /\ Size - read_pos \in Nat /\ max_len' \in Nat
  <2>1. /\ write_pos \in Cells /\ read_pos \in Cells /\ read_pos' \in Cells
        /\ ~overrun /\ write_pos <= read_pos
    <3>1. write_pos \in Cells /\ read_pos \in Cells /\ ~overrun /\ write_pos <= read_pos
      BY <1>2, <1>3, Zenon DEF PositionsInv
    <3>2. read_pos' = 0 \/ read_pos' = read_pos
      OBVIOUS
    <3>3. 0 \in Cells
      OBVIOUS
    <3> QED BY ONLY <3>1, <3>2, <3>3
  <2>2. Size - read_pos \in Int /\ Size - read_pos \in Nat
    BY <2>1
  <2>3. (Size - read_pos) % LenMod \in Nat
    BY <2>2, Lengths, SizeAssumption
  <2> QED BY <2>1, <2>2, <2>3
<1>4. PositionsInv'
  BY <1>2, <1>3 DEF PositionsInv
<1>5. StreamInv'
  <2> SUFFICES ASSUME Undisturbed' PROVE StreamInv'
    BY DEF StreamInv
  <2>1. Undisturbed /\ ~raced /\ max_len' = Size - read_pos
    BY DEF Undisturbed
  <2>2. RequestOK /\ CountsOK /\ cell \in [Cells -> 0..MaxBytes]
        /\ HeldBack /\ HeldFront /\ ToCopy
    BY <2>1 DEF StreamInv
  <2>3. /\ rn \in Nat /\ wn \in 0..MaxBytes /\ at = read_pos /\ read_pos \in Nat
        /\ len \in 0..MaxRead /\ filled \in 0..len
    BY <1>3, <2>1, <2>2 DEF RequestOK, CountsOK
  <2>4. /\ Head = read_pos /\ Head' = 0 /\ Wrapped /\ ~Wrapped'
        /\ Moved = 0 /\ Moved' = max_len'
        /\ Base = rn - read_pos /\ Base' = rn + max_len'
    BY <1>2, <2>1, <2>3, <1>3 DEF Head, Wrapped, Moved, Base
  <2>5. Base' = Base + Size /\ Base \in Int
    BY <2>1, <2>3, <2>4
  <2>6. RequestOK'
    <3>1. max_len' \in 0..(len - filled)
      BY <1>1, <1>3, <2>1, <2>3
    <3> QED BY <2>2, <3>1 DEF RequestOK
  <2>7. CountsOK'
    <3>1. wn = Base + write_pos + Size /\ write_pos \in Nat
      BY <1>3, <2>1, <2>2, <2>4 DEF CountsOK
    <3>2. wn = Base' + write_pos + 0
      BY <2>5, <3>1
    <3> QED BY <2>3, <2>4, <3>2 DEF CountsOK
  <2>8. HeldBack' /\ HeldFront'
    <3>1. ASSUME NEW i \in Cells, i < write_pos PROVE cell[i] = Base' + i
      BY <2>2, <2>4, <2>5, <3>1 DEF HeldFront
    <3> QED BY <2>4, <3>1 DEF HeldBack, HeldFront
  <2>9. ToCopy'
    <3>1. at + max_len' = Size
      BY <2>1, <2>3
    <3>2. ASSUME NEW i \in Cells, read_pos <= i PROVE cell[i] = rn + (i - read_pos)
      <4>1. cell[i] = Base + i
        BY <2>2, <2>4, <3>2 DEF HeldBack
      <4> QED BY <2>3, <2>4, <4>1
    <3> QED BY <2>3, <2>4, <3>1, <3>2 DEF ToCopy
  <2> QED BY <2>2, <2>6, <2>7, <2>8, <2>9 DEF StreamInv
<1>6. Shape'
  <2>1. Flags'
    BY Zenon DEF Shape, Flags
  <2>2. max_len' \in Int
    <3>1. Size - read_pos \in Int
      BY DEF Shape
    <3>2. (Size - read_pos) % LenMod \in Int
      BY <3>1, Lengths, SizeAssumption
    <3> QED BY <3>2
  <2>3. read_pos' \in Int
    <3>1. read_pos \in Int
      BY DEF Shape
    <3>2. read_pos' = 0 \/ read_pos' = read_pos
      OBVIOUS
    <3> QED BY ONLY <3>1, <3>2
  <2> QED BY <2>1, <2>2, <2>3 DEF Shape, Places
<1> QED BY <1>4, <1>5, <1>6

\* The second of the two stores.
LEMMA CacheTurned ==
  ASSUME CacheInv, Turning, rpc' = "copy", circle' \in BOOLEAN, read_pos' \in Int,
         ~raced => read_pos' = 0 /\ ~circle',
         UNCHANGED <<cell, write_pos, len, filled, at, max_len, seen>>, UNCHANGED history
  PROVE  CacheInv'
<1> USE Sizes DEF CacheInv, Cells
<1>1. UNCHANGED <<wn, rn, raced, clipped, overrun>>
  BY DEF history
<1>2. rpc \in {"clear", "zero"} /\ ~Turning'
  BY DEF Turning
<1>3. Shape'
  <2>1. Flags'
    BY <1>1, Zenon DEF Shape, Flags
  <2> QED BY <2>1 DEF Shape, Places
<1>4. PositionsInv'
  <2> SUFFICES ASSUME ~raced' PROVE PositionsInv'
    BY DEF PositionsInv
  <2>1. /\ write_pos \in Cells /\ ~overrun /\ read_pos' = 0 /\ ~circle'
        /\ 0 \in Cells /\ 0 <= write_pos
    BY <1>1 DEF PositionsInv
  <2> QED BY <1>1, <1>2, <2>1 DEF PositionsInv
<1>5. StreamInv'
  <2> SUFFICES ASSUME Undisturbed' PROVE StreamInv'
    BY DEF StreamInv
  <2>1. Undisturbed /\ ~raced
    BY <1>1 DEF Undisturbed
  <2>2. RequestOK /\ CountsOK /\ cell \in [Cells -> 0..MaxBytes]
        /\ HeldBack /\ HeldFront /\ ToCopy
    BY <2>1 DEF StreamInv
  <2>3. /\ Head = 0 /\ Head' = 0 /\ ~Wrapped /\ ~Wrapped'
        /\ Moved = max_len /\ Moved' = max_len /\ Base' = Base
    BY <1>1, <1>2, <2>1 DEF Head, Wrapped, Moved, Base
  <2>4. RequestOK'
    BY <1>2, <2>2 DEF RequestOK
  <2>5. CountsOK' /\ HeldBack' /\ HeldFront' /\ ToCopy'
    BY <1>1, <2>2, <2>3 DEF CountsOK, HeldBack, HeldFront, ToCopy
  <2> QED BY <2>2, <2>4, <2>5 DEF StreamInv
<1> QED BY <1>3, <1>4, <1>5

\* read() takes all bytes up to write_pos_, which it has read once.
LEMMA CacheSpans ==
  ASSUME CacheInv, rpc = "span", rpc' = "setpos",
         max_len' = (write_pos - read_pos) % LenMod, max_len' <= expected_len,
         seen' = write_pos,
         clipped' = (clipped \/ max_len' # write_pos - read_pos),
         UNCHANGED <<cell, write_pos, read_pos, circle, len, filled, at, wn, rn, raced, overrun>>
  PROVE  CacheInv'
<1> USE Sizes DEF CacheInv, Cells
<1>1. expected_len \in Nat /\ (filled <= len => expected_len <= len - filled)
  BY Expected
<1>2. ~Turning /\ ~Turning'
  BY DEF Turning
<1>3. write_pos - read_pos \in Int /\ max_len' \in Nat
  <2>1. write_pos - read_pos \in Int
    BY DEF Shape
  <2>2. (write_pos - read_pos) % LenMod \in Nat
    BY <2>1, Lengths, SizeAssumption
  <2> QED BY <2>1, <2>2
<1>4. Shape'
  <2>1. Flags'
    BY Zenon DEF Shape, Flags
  <2>2. max_len' \in Int
    BY ONLY <1>3
  <2> QED BY <2>1, <2>2 DEF Shape, Places
<1>5. ASSUME ~raced
      PROVE  write_pos \in Cells /\ read_pos \in Cells /\ ~overrun /\ ~circle
             /\ read_pos <= write_pos
  BY <1>2, <1>5, Zenon DEF PositionsInv
<1>6. PositionsInv'
  BY <1>2, <1>5 DEF PositionsInv
<1>7. StreamInv'
  <2> SUFFICES ASSUME Undisturbed' PROVE StreamInv'
    BY DEF StreamInv
  <2>1. Undisturbed /\ ~raced /\ max_len' = write_pos - read_pos
    BY DEF Undisturbed
  <2>2. RequestOK /\ CountsOK /\ cell \in [Cells -> 0..MaxBytes]
        /\ HeldBack /\ HeldFront /\ ToCopy
    BY <2>1 DEF StreamInv
  <2>3. /\ Head' = Head /\ (Wrapped' <=> Wrapped) /\ Moved = 0 /\ Moved' = 0
        /\ Base' = Base
    BY <1>2 DEF Head, Wrapped, Moved, Base
  <2>4. RequestOK'
    <3>1. max_len' \in 0..(len - filled)
      <4>1. len \in 0..MaxRead /\ filled \in 0..len
        BY <2>2 DEF RequestOK
      <4>2. PICK m \in Nat : m = max_len'
        BY <1>3
      <4>3. m <= expected_len
        BY <4>2
      <4>4. m \in 0..(len - filled)
        BY ONLY <1>1, <4>1, <4>3, Sizes
      <4> QED BY <4>2, <4>4
    <3> QED BY <1>5, <2>1, <2>2, <3>1 DEF RequestOK
  <2>5. CountsOK' /\ HeldBack' /\ HeldFront' /\ ToCopy'
    BY <2>2, <2>3 DEF CountsOK, HeldBack, HeldFront, ToCopy
  <2> QED BY <2>2, <2>4, <2>5 DEF StreamInv
<1> QED BY <1>4, <1>6, <1>7

\* read_pos_ becomes write_pos_, read again or not.
LEMMA CacheSetPos == CacheInv /\ SetPos => CacheInv'
<1> SUFFICES ASSUME CacheInv, SetPos PROVE CacheInv'
  OBVIOUS
<1> USE Sizes DEF CacheInv, Cells
<1>1. /\ rpc = "setpos" /\ rpc' = "copy" /\ seen' = 0
      /\ read_pos' = seen \/ read_pos' = write_pos
      /\ UNCHANGED <<cell, write_pos, circle, len, filled, at, max_len>>
      /\ UNCHANGED <<wn, rn, raced, clipped, overrun>>
  BY DEF SetPos, history
<1>2. ~Turning /\ ~Turning'
  BY <1>1 DEF Turning
<1>3. Shape'
  <2>1. Flags'
    BY <1>1 DEF Shape, Flags
  <2>2. read_pos' \in Int
    <3>1. seen \in Int /\ write_pos \in Int
      BY DEF Shape
    <3> QED BY ONLY <1>1, <3>1
  <2> QED BY <1>1, <2>1, <2>2 DEF Shape, Places
<1>4. ASSUME ~raced
      PROVE  /\ write_pos \in Cells /\ read_pos \in Cells /\ ~overrun /\ ~circle
             /\ read_pos' = write_pos
  BY <1>1, <1>2, <1>4, Zenon DEF PositionsInv
<1>5. PositionsInv'
  BY <1>1, <1>2, <1>4 DEF PositionsInv
<1>6. StreamInv'
  <2> SUFFICES ASSUME Undisturbed' PROVE StreamInv'
    BY DEF StreamInv
  <2>1. Undisturbed /\ ~raced
    BY <1>1 DEF Undisturbed
  <2>2. RequestOK /\ CountsOK /\ cell \in [Cells -> 0..MaxBytes]
        /\ HeldBack /\ HeldFront /\ ToCopy
    BY <2>1 DEF StreamInv
  <2>3. /\ rn \in Nat /\ wn \in 0..MaxBytes /\ at = read_pos /\ max_len = write_pos - read_pos
        /\ read_pos \in Nat /\ write_pos \in Nat /\ write_pos < Size
    BY <1>1, <1>4, <2>1, <2>2 DEF RequestOK, CountsOK
  <2>4. /\ Head = read_pos /\ Head' = write_pos /\ ~Wrapped /\ ~Wrapped'
        /\ Moved = 0 /\ Moved' = max_len
        /\ Base = rn + 0 - read_pos /\ Base' = rn + max_len - write_pos
    BY <1>1, <1>2, <1>4, <2>1 DEF Head, Wrapped, Moved, Base
  <2>5. Base' = Base /\ Base = rn - read_pos /\ Base \in Int
    <3>1. rn + max_len - write_pos = rn + 0 - read_pos /\ rn + 0 - read_pos = rn - read_pos
          /\ rn - read_pos \in Int
      BY <2>3
    <3> QED BY <2>4, <3>1
  <2>6. RequestOK'
    BY <1>1, <2>2 DEF RequestOK
  <2>7. CountsOK' /\ HeldBack' /\ HeldFront'
    <3>1. CountsOK'
      BY <1>1, <2>2, <2>4, <2>5 DEF CountsOK
    <3>2. HeldBack'
      BY <1>1, <2>3, <2>4 DEF HeldBack
    <3>3. HeldFront'
      BY <2>4 DEF HeldFront
    <3> QED BY <3>1, <3>2, <3>3
  <2>8. ToCopy'
    <3>1. at + max_len <= Size
      BY <2>3
    <3>2. ASSUME NEW i \in Cells, at <= i, i < at + max_len
          PROVE  cell[i] = rn + (i - at)
      <4>1. read_pos <= i /\ i < write_pos
        BY <2>3, <3>2
      <4>2. cell[i] = Base + i
        BY <2>2, <2>4, <4>1 DEF HeldBack
      <4> QED BY <2>3, <2>5, <4>2
    <3> QED BY <1>1, <2>4, <3>1, <3>2 DEF ToCopy
  <2> QED BY <1>1, <2>2, <2>6, <2>7, <2>8 DEF StreamInv
<1> QED BY <1>3, <1>5, <1>6

\* The memcpy to the caller.
LEMMA CacheCopy == CacheInv /\ Copy => CacheInv'
<1> SUFFICES ASSUME CacheInv, Copy PROVE CacheInv'
  OBVIOUS
<1> USE Sizes DEF CacheInv, Cells
<1>1. /\ rpc = "copy" /\ rpc' \in {"idle", "top"} /\ rn' = rn + max_len
      /\ \/ len' = 0 /\ filled' = 0
         \/ len' = len /\ filled' = filled + max_len
      /\ at' = 0 /\ max_len' = 0
      /\ UNCHANGED <<cell, write_pos, read_pos, circle, seen, wn, raced, clipped, overrun>>
  BY DEF Copy, buffer
<1>2. ~Turning /\ ~Turning'
  BY <1>1 DEF Turning
<1>3. Shape'
  <2>1. Flags'
    BY <1>1 DEF Shape, Flags
  <2>2. len' \in Int /\ filled' \in Int
    <3>1. len \in Int /\ filled \in Int /\ filled + max_len \in Int
      BY DEF Shape
    <3> QED BY ONLY <1>1, <3>1
  <2> QED BY <1>1, <2>1, <2>2 DEF Shape, Places
<1>4. PositionsInv'
  BY <1>1, <1>2 DEF PositionsInv
<1>5. StreamInv'
  <2> SUFFICES ASSUME Undisturbed' PROVE StreamInv'
    BY DEF StreamInv
  <2>1. Undisturbed /\ ~raced
    BY <1>1 DEF Undisturbed
  <2>2. RequestOK /\ CountsOK /\ cell \in [Cells -> 0..MaxBytes]
        /\ HeldBack /\ HeldFront /\ ToCopy
    BY <2>1 DEF StreamInv
  <2>3. /\ rn \in Nat /\ len \in 0..MaxRead /\ filled \in 0..len
        /\ max_len \in 0..(len - filled) /\ read_pos \in Nat
    BY <2>1, <2>2 DEF RequestOK, CountsOK, PositionsInv
  <2>4. /\ Head' = Head /\ (Wrapped' <=> Wrapped) /\ Moved = max_len /\ Moved' = 0
        /\ Base = rn + max_len - Head /\ Base' = (rn + max_len) + 0 - Head /\ Head \in Nat
    BY <1>1, <1>2, <2>3 DEF Head, Wrapped, Moved, Base
  <2>5. Base' = Base
    BY <2>3, <2>4
  <2>6. RequestOK'
    <3>1. len' \in 0..MaxRead /\ filled' \in 0..len' /\ 0 \in 0..(len' - filled')
      <4>1. CASE len' = 0 /\ filled' = 0
        BY <4>1
      <4>2. CASE len' = len /\ filled' = filled + max_len
        <5>1. filled + max_len \in 0..len /\ 0 \in 0..(len - (filled + max_len))
          BY <2>3
        <5> QED BY <2>3, <4>2, <5>1
      <4> QED BY <1>1, <4>1, <4>2
    <3>2. seen \in Cells /\ 0 \in Cells
      BY <2>2 DEF RequestOK
    <3> QED BY <1>1, <3>1, <3>2 DEF RequestOK
  <2>7. CountsOK' /\ HeldBack' /\ HeldFront'
    <3>1. rn + max_len \in Nat
      BY <2>3
    <3> QED BY <1>1, <2>2, <2>4, <2>5, <3>1 DEF CountsOK, HeldBack, HeldFront
  <2>8. ToCopy'
    BY <1>1, <2>4 DEF ToCopy
  <2> QED BY <1>1, <2>2, <2>6, <2>7, <2>8 DEF StreamInv
<1> QED BY <1>3, <1>4, <1>5

\* read_max_len_change_pos, one access to the shared members at a time.
LEMMA CacheChanges ==
  CacheInv /\ (ChangeCircle \/ ClearCircle \/ ZeroPos \/ Span) => CacheInv'
<1> SUFFICES ASSUME CacheInv, ChangeCircle \/ ClearCircle \/ ZeroPos \/ Span PROVE CacheInv'
  OBVIOUS
<1> USE Sizes
<1>1. /\ write_pos \in Int /\ read_pos \in Int /\ expected_len \in Nat
      /\ circle \in BOOLEAN
      /\ ~raced => write_pos \in Cells /\ read_pos \in Cells
  BY Expected DEF CacheInv, Shape, Flags, PositionsInv
<1>2. CASE ChangeCircle
  <2> DEFINE room == (Size - read_pos) % LenMod
  <2>1. /\ rpc = "change" /\ circle
        /\ UNCHANGED <<cell, write_pos, len, filled, at, seen, wn, rn, raced, overrun>>
    BY <1>2 DEF ChangeCircle
  <2>2. room \in Nat /\ (~raced => room <= Size - read_pos)
    <3>1. Size - read_pos \in Int /\ (~raced => Size - read_pos >= 0)
      BY <1>1 DEF Cells
    <3> QED BY <3>1, Lengths, SizeAssumption
  <2>3. CASE /\ room > expected_len
             /\ read_pos' = read_pos + expected_len /\ max_len' = expected_len
             /\ rpc' = "copy" /\ UNCHANGED <<circle, clipped>>
    <3> HIDE DEF room
    <3>1. expected_len < room
      BY <1>1, <2>2, <2>3
    <3>2. ~raced => room \in Nat /\ room <= (IF circle THEN Size ELSE write_pos) - read_pos
      BY <2>1, <2>2
    <3>3. UNCHANGED history
      BY <2>1, <2>3 DEF history
    <3> QED BY <2>1, <2>3, <3>1, <3>2, <3>3, CacheTakes
  <2>4. CASE /\ ~(room > expected_len) /\ max_len' = room
             /\ clipped' = (clipped \/ room # Size - read_pos)
             /\ \/ read_pos' = 0 /\ rpc' = "clear" /\ UNCHANGED circle
                \/ circle' = FALSE /\ rpc' = "zero" /\ UNCHANGED read_pos
    <3>1. max_len' = (Size - read_pos) % LenMod
      BY <2>4
    <3>2. clipped' = (clipped \/ max_len' # Size - read_pos)
      BY <2>4, Zenon
    <3>3. max_len' <= expected_len
      <4> HIDE DEF room
      <4>1. room <= expected_len
        BY <1>1, <2>2, <2>4
      <4> QED BY <2>4, <4>1
    <3>4. /\ rpc' \in {"clear", "zero"}
          /\ rpc' = "clear" => read_pos' = 0 /\ circle' = circle
          /\ rpc' = "zero" => read_pos' = read_pos /\ circle' = FALSE
      BY <2>4
    <3> QED BY <2>1, <3>1, <3>2, <3>3, <3>4, CacheTurns
  <2> QED BY <1>2, <2>3, <2>4 DEF ChangeCircle
<1>3. CASE ClearCircle
  <2>1. /\ Turning /\ rpc' = "copy" /\ circle' = FALSE
        /\ UNCHANGED <<cell, write_pos, read_pos, len, filled, at, max_len, seen>>
        /\ UNCHANGED history
    BY <1>3 DEF ClearCircle, Turning
  <2>2. ~raced => read_pos = 0
    BY <1>3 DEF ClearCircle, CacheInv, PositionsInv
  <2> QED BY <1>1, <2>1, <2>2, CacheTurned
<1>4. CASE ZeroPos
  <2>1. /\ Turning /\ rpc' = "copy" /\ read_pos' = 0
        /\ UNCHANGED <<cell, write_pos, circle, len, filled, at, max_len, seen>>
        /\ UNCHANGED history
    BY <1>4 DEF ZeroPos, Turning
  <2>2. ~raced => ~circle
    BY <1>4 DEF ZeroPos, CacheInv, PositionsInv
  <2> QED BY <1>1, <2>1, <2>2, CacheTurned
<1>5. CASE Span
  <2> DEFINE room == (write_pos - read_pos) % LenMod
  <2>1. /\ rpc = "span"
        /\ UNCHANGED <<cell, write_pos, circle, len, filled, at, wn, rn, raced, overrun>>
    BY <1>5 DEF Span
  <2>2. ~raced => ~circle /\ read_pos <= write_pos
    BY <2>1 DEF CacheInv, PositionsInv, Turning
  <2>3. room \in Nat /\ (~raced => room <= write_pos - read_pos)
    <3>1. write_pos - read_pos \in Int /\ (~raced => write_pos - read_pos >= 0)
      BY <1>1, <2>2
    <3> QED BY <3>1, Lengths, SizeAssumption
  <2>4. CASE /\ room > expected_len
             /\ read_pos' = read_pos + expected_len /\ max_len' = expected_len
             /\ rpc' = "copy" /\ UNCHANGED <<seen, clipped>>
    <3> HIDE DEF room
    <3>1. expected_len < room
      BY <1>1, <2>3, <2>4
    <3>2. ~raced => room \in Nat /\ room <= (IF circle THEN Size ELSE write_pos) - read_pos
      BY <2>2, <2>3
    <3>3. UNCHANGED history
      BY <2>1, <2>4 DEF history
    <3> QED BY <2>1, <2>4, <3>1, <3>2, <3>3, CacheTakes
  <2>5. CASE /\ ~(room > expected_len) /\ max_len' = room /\ seen' = write_pos
             /\ clipped' = (clipped \/ room # write_pos - read_pos)
             /\ rpc' = "setpos" /\ UNCHANGED read_pos
    <3>1. max_len' = (write_pos - read_pos) % LenMod
      BY <2>5
    <3>2. clipped' = (clipped \/ max_len' # write_pos - read_pos)
      BY <2>5, Zenon
    <3>3. max_len' <= expected_len
      <4> HIDE DEF room
      <4>1. room <= expected_len
        BY <1>1, <2>3, <2>5
      <4> QED BY <2>5, <4>1
    <3> QED BY <2>1, <2>5, <3>1, <3>2, <3>3, CacheSpans
  <2> QED BY <1>5, <2>4, <2>5 DEF Span
<1> QED BY <1>2, <1>3, <1>4, <1>5

\* No step of the interrupt or of read() breaks the invariant.
LEMMA CacheStep == CacheInv /\ [Next]_vars => CacheInv'
<1> SUFFICES ASSUME CacheInv, [Next]_vars PROVE CacheInv'
  OBVIOUS
<1>1. CASE Write
  <2>1. PICK n \in 1..MaxPacket :
          wn + n <= MaxBytes /\ (WriteCircle(n) \/ WriteStraight(n) \/ WriteWrap(n))
    BY <1>1 DEF Write
  <2> QED BY <2>1, CacheWriteCircle, CacheWriteStraight, CacheWriteWrap
<1>2. CASE Reader
  BY <1>2, CacheWait, CacheChanges, CacheSetPos, CacheCopy DEF Reader, ChangePos
<1>3. CASE UNCHANGED vars
  BY <1>3 DEF vars, buffer, reader, history, CacheInv, Shape, PositionsInv, StreamInv,
              Turning, Undisturbed, Flags, RequestOK, Base, Head, Wrapped, Moved,
              CountsOK, HeldBack, HeldFront, ToCopy
<1> QED BY <1>1, <1>2, <1>3 DEF Next

-----------------------------------------------------------------------------
(* The theorems. *)

\* The positions enclose the accepted bytes that were not delivered, in order,
\* whatever packet of the host falls between whatever two accesses of read().
THEOREM CacheInvariant == Spec => []CacheInv
BY CacheInit, CacheStep, PTL DEF Spec

\* CacheBuffer<n> keeps its members and the locals of read() in their ranges as
\* long as no write falls into a window and no length is cut.
THEOREM RangesStay == Spec => []RangesKept
<1>1. CacheInv => RangesKept
  <2> SUFFICES ASSUME CacheInv, Undisturbed PROVE TypeOK
    BY DEF RangesKept
  <2> USE Sizes
  <2>1. /\ Flags /\ rpc \in Places /\ RequestOK /\ CountsOK
        /\ cell \in [Cells -> 0..MaxBytes] /\ HeldBack /\ ToCopy
        /\ write_pos \in Cells /\ read_pos \in Cells
    BY DEF CacheInv, Shape, PositionsInv, StreamInv, Undisturbed
  <2>2. /\ rn \in Nat /\ max_len \in Nat /\ max_len <= MaxRead
    BY <2>1 DEF RequestOK, CountsOK
  <2>3. rn <= wn
    <3>1. wn = rn + Moved - Head + write_pos + (IF Wrapped THEN Size ELSE 0)
      BY <2>1 DEF CountsOK, Base
    <3>2. Moved \in Nat /\ Head \in Nat /\ write_pos \in Nat
          /\ (IF Wrapped THEN Size ELSE 0) + write_pos >= Head
      BY <2>1, <2>2 DEF CacheInv, PositionsInv, Undisturbed, Moved, Head, Wrapped, Cells
    <3> QED BY <2>2, <3>1, <3>2
  <2>4. wn \in 0..MaxBytes /\ rn \in 0..wn
    BY <2>1, <2>2, <2>3 DEF CountsOK
  <2>5. /\ len \in 0..MaxRead /\ filled \in 0..len /\ at \in 0..(Size - 1)
        /\ max_len \in 0..MaxRead /\ seen \in 0..(Size - 1)
    BY <2>1, <2>2 DEF RequestOK, Cells
  <2> QED BY <2>1, <2>4, <2>5 DEF TypeOK, Flags, Places, Cells
<1> QED BY <1>1, CacheInvariant, PTL

\* What read() copies to micro-ROS is what write() accepted from the host: the
\* next bytes, in order and not overwritten, for a buffer and a backlog of any
\* size, unless a write falls into a window or a length is cut.
THEOREM NextBytesCopied == Spec => []CopiesNextBytes
<1>1. CacheInv => CopiesNextBytes
  <2> SUFFICES ASSUME CacheInv, rpc = "copy", Undisturbed, NEW k \in 0..(max_len - 1)
               PROVE  at + k < Size /\ cell[at + k] = rn + k
    BY DEF CopiesNextBytes
  <2> USE Sizes DEF Cells
  <2>1. ToCopy /\ Moved = max_len /\ at \in Cells /\ max_len \in Int /\ rn \in Nat
    BY DEF CacheInv, Shape, StreamInv, RequestOK, CountsOK, Moved
  <2>2. k \in Nat /\ k < max_len /\ at + max_len <= Size
    BY <2>1 DEF ToCopy
  <2>3. at + k \in Cells /\ at <= at + k /\ at + k < at + max_len /\ (at + k) - at = k
    BY <2>1, <2>2
  <2>4. cell[at + k] = rn + ((at + k) - at)
    BY <2>1, <2>3 DEF ToCopy
  <2> QED BY <2>3, <2>4
<1> QED BY <1>1, CacheInvariant, PTL

\* write() never stores past the end of buffer_ unless it has interrupted read()
\* in one of its windows, even when lengths have been cut.
THEOREM WritesInside == Spec => []NoOverrun
<1>1. CacheInv => NoOverrun
  BY DEF CacheInv, PositionsInv, NoOverrun
<1> QED BY <1>1, CacheInvariant, PTL

\* Between two calls of read() nothing is lost and nothing is there twice.
THEOREM RestIsHeld == Spec => []HoldsTheRest
<1>1. CacheInv => HoldsTheRest
  <2> SUFFICES ASSUME CacheInv, rpc = "idle", Undisturbed PROVE wn - rn = Rest
    BY DEF HoldsTheRest
  <2> USE Sizes DEF Cells
  <2>1. /\ CountsOK /\ ~Turning /\ Moved = 0 /\ Head = read_pos /\ (Wrapped <=> circle)
        /\ read_pos \in Nat /\ write_pos \in Nat
    BY DEF CacheInv, StreamInv, PositionsInv, Undisturbed, Turning, Moved, Head, Wrapped
  <2>2. rn \in Nat /\ wn = rn + 0 - read_pos + write_pos + (IF circle THEN Size ELSE 0)
    BY <2>1 DEF CountsOK, Base
  <2> QED BY <2>1, <2>2 DEF Rest
<1> QED BY <1>1, CacheInvariant, PTL
=============================================================================
