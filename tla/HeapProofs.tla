----------------------------- MODULE HeapProofs -----------------------------
(***************************************************************************)
(* Proofs about Heap and Heap4, for every size of the heap and every       *)
(* largest request.                                                        *)
(*                                                                         *)
(* Heap: the blocks tile the heap, only blocks have owners, and no two     *)
(* free blocks are neighbours.  The invariant is inductive as it stands.   *)
(*                                                                         *)
(* Heap4: the headers show such a heap, the list leads through its free    *)
(* blocks, and the counters are right (ListInv).  The loops along the list *)
(* are shown to end where they must, each operation on headers is shown to *)
(* keep the invariant and to change sizes and owners as the operation of   *)
(* Heap does, and the theorems follow.                                     *)
(***************************************************************************)
EXTENDS Heap, Heap4, TLAPS, FiniteSetTheorems

\* A set of free blocks has a first one, at which pvPortMalloc's walk stops.
LEMMA FirstExists ==
  ASSUME NEW S \in SUBSET Addr, S # {}
  PROVE  First(S) \in S /\ \A b \in S : First(S) <= b
<1> DEFINE R == OpToRel(<, Nat)
<1>1. S \subseteq Nat
  BY HeapAssumption DEF Addr
<1>2. IsWellFoundedOn(R, Nat)
  BY NatLessThanWellFounded
<1>3. \A x, y \in Nat : <<x, y>> \in R <=> x < y
  BY DEF OpToRel
<1> HIDE DEF R
<1>4. PICK x \in S : \A y \in S : ~(<<y, x>> \in R)
  BY <1>1, <1>2, WFMin
<1>5. \A y \in S : ~(y < x)
  BY <1>1, <1>3, <1>4, Zenon
<1>6. \A b \in S : x <= b
  BY <1>1, <1>5
<1> QED
  BY <1>6 DEF First

\* Block sizes s that tile the heap, with the owners u of some of them.
Shape(s, u) ==
  /\ s \in [Addr -> 0..End]
  /\ u \in [Addr -> BOOLEAN]
  /\ TiledBy(s)
  /\ \A a \in Addr : u[a] => s[a] # 0

\* Two blocks of a tiled heap lie one behind the other.
LEMMA TileFacts ==
  ASSUME NEW s, s \in [Addr -> 0..End], TiledBy(s),
         NEW a \in Addr, s[a] # 0
  PROVE  /\ a \in Nat /\ s[a] \in Nat /\ End \in Nat /\ a + s[a] <= End
         /\ a + s[a] < End => a + s[a] \in Addr /\ s[a + s[a]] # 0
         /\ \A b \in Addr : s[b] # 0 /\ b # a =>
              (b + s[b] <= a \/ a + s[a] <= b)
         /\ \A b \in Addr : a < b /\ b < a + s[a] => s[b] = 0
<1>1. /\ a \in Nat /\ s[a] \in Nat /\ End \in Nat
      /\ \A b \in Addr : b \in Nat /\ s[b] \in Nat
  BY HeapAssumption DEF Addr
<1>2. /\ a + s[a] <= End
      /\ a + s[a] < End => s[a + s[a]] # 0
      /\ \A b \in Addr : a < b /\ b < a + s[a] => s[b] = 0
  BY DEF TiledBy
<1>3. a + s[a] < End => a + s[a] \in Addr
  BY <1>1 DEF Addr
<1>4. ASSUME NEW b \in Addr, s[b] # 0, b # a
      PROVE  b + s[b] <= a \/ a + s[a] <= b
  <2>1. \A c \in Addr : b < c /\ c < b + s[b] => s[c] = 0
    BY <1>4 DEF TiledBy
  <2> QED
    BY <1>1, <1>2, <1>4, <2>1
<1> QED
  BY <1>1, <1>2, <1>3, <1>4

\* Taking block a for n units keeps every other block, and the remainder that
\* pvPortMalloc cuts off is a block.
LEMMA SplitShape ==
  ASSUME NEW s, NEW u, Shape(s, u), NEW n \in Nat,
         NEW a \in Fitting(s, u, n)
  PROVE  /\ Shape(Split(s, a, n), [u EXCEPT ![a] = TRUE])
         /\ \A b \in Addr : b # a /\ s[b] # 0 => Split(s, a, n)[b] = s[b]
<1> DEFINE t == Split(s, a, n)
<1>1. /\ a \in Addr /\ s[a] \in Nat /\ s[a] >= n + 1 /\ a + s[a] <= End
      /\ s \in [Addr -> 0..End] /\ u \in [Addr -> BOOLEAN]
      /\ TiledBy(s) /\ End \in Nat \ {0}
  BY HeapAssumption DEF Shape, Fitting, IsFree, IsBlock, TiledBy
<1>0. \A b \in Addr : b \in Nat /\ b < End /\ s[b] \in 0..End /\ s[b] \in Nat
  BY <1>1 DEF Addr
<1>2. CASE ~(s[a] - (n + 1) > MinBlock)
  <2>1. t = s
    BY <1>2 DEF Split
  <2>2. [u EXCEPT ![a] = TRUE] \in [Addr -> BOOLEAN]
    BY <1>1
  <2>3. \A b \in Addr : [u EXCEPT ![a] = TRUE][b] => s[b] # 0
    BY <1>1 DEF Shape
  <2> QED
    BY <1>1, <2>1, <2>2, <2>3 DEF Shape
<1>3. CASE s[a] - (n + 1) > MinBlock
  <2> DEFINE r == a + n + 1
  <2>1. r \in Addr /\ a < r /\ r < a + s[a]
    BY <1>1, <1>3 DEF Addr, MinBlock
  <2>2. /\ t = [s EXCEPT ![a] = n + 1, ![r] = s[a] - (n + 1)]
        /\ s[r] = 0
    BY <1>1, <1>3, <2>1 DEF Split, TiledBy
  <2>3. /\ t[a] = n + 1 /\ t[r] = s[a] - (n + 1)
        /\ \A b \in Addr : b # a /\ b # r => t[b] = s[b]
        /\ t \in [Addr -> 0..End]
    <3>1. n + 1 \in 0..End /\ s[a] - (n + 1) \in 0..End
      BY <1>0, <1>1, <1>3 DEF MinBlock
    <3> QED
      BY <1>1, <2>1, <2>2, <3>1
  <2>4. t[0] # 0
    BY <1>1, <1>3, <2>1, <2>3 DEF TiledBy, Addr
  <2>5. ASSUME NEW c \in Addr, t[c] # 0
        PROVE  /\ c + t[c] <= End
               /\ c + t[c] < End => t[c + t[c]] # 0
               /\ \A b \in Addr : c < b /\ b < c + t[c] => t[b] = 0
    <3>0. /\ a \in Nat /\ s[a] \in Nat /\ End \in Nat /\ a + s[a] <= End
          /\ a + s[a] < End => a + s[a] \in Addr /\ s[a + s[a]] # 0
          /\ \A b \in Addr : s[b] # 0 /\ b # a =>
               (b + s[b] <= a \/ a + s[a] <= b)
          /\ \A b \in Addr : a < b /\ b < a + s[a] => s[b] = 0
      BY <1>1, TileFacts
    <3>1. CASE c = a
      <4>1. t[c] = n + 1 /\ c + t[c] = r /\ t[r] # 0
        BY <1>0, <1>1, <1>3, <2>3, <3>1 DEF MinBlock
      <4>2. \A b \in Addr : c < b /\ b < r => t[b] = 0
        BY <1>0, <2>1, <2>3, <3>0, <3>1
      <4> QED
        BY <1>0, <2>1, <3>0, <4>1, <4>2
    <3>2. CASE c = r
      <4>1. c + t[c] = a + s[a]
        BY <1>0, <2>1, <3>0, <2>3, <3>2
      <4>2. a + s[a] < End => t[a + s[a]] # 0
        BY <1>0, <2>1, <2>3, <3>0
      <4>3. \A b \in Addr : c < b /\ b < a + s[a] => t[b] = 0
        BY <1>0, <2>1, <2>3, <3>0, <3>2
      <4> QED
        BY <3>0, <4>1, <4>2, <4>3
    <3>3. CASE c # a /\ c # r
      <4>1. t[c] = s[c] /\ s[c] # 0
        BY <2>3, <2>5, <3>3
      <4>2. /\ c \in Nat /\ s[c] \in Nat /\ c + s[c] <= End
            /\ c + s[c] < End => c + s[c] \in Addr /\ s[c + s[c]] # 0
            /\ \A b \in Addr : c < b /\ b < c + s[c] => s[b] = 0
        BY <1>1, <4>1, TileFacts
      <4>3. c + s[c] <= a \/ a + s[a] <= c
        BY <3>0, <3>3, <4>1
      <4>4. c + s[c] < End => t[c + s[c]] # 0
        <5>1. c + s[c] < End => c + s[c] # r
          BY <2>2, <4>2
        <5>2. t[a] # 0
          BY <2>3
        <5> QED
          BY <2>3, <4>2, <5>1, <5>2
      <4>5. \A b \in Addr : c < b /\ b < c + s[c] => b # a /\ b # r
        BY <1>0, <2>1, <3>0, <4>2, <4>3
      <4> QED
        BY <2>3, <4>1, <4>2, <4>4, <4>5
    <3> QED
      BY <3>1, <3>2, <3>3
  <2>6. TiledBy(t)
    BY <2>4, <2>5 DEF TiledBy
  <2>7. \A b \in Addr : [u EXCEPT ![a] = TRUE][b] => t[b] # 0
    BY <1>1, <1>3, <2>1, <2>3 DEF Shape, MinBlock
  <2>8. [u EXCEPT ![a] = TRUE] \in [Addr -> BOOLEAN]
    BY <1>1
  <2> QED
    BY <2>2, <2>3, <2>6, <2>7, <2>8 DEF Shape
<1> QED
  BY <1>2, <1>3

\* Where the block that prvInsertBlockIntoFreeList makes of a freed block and
\* its free neighbours starts and ends, and what it is made of.
LEMMA JoinFacts ==
  ASSUME NEW s, NEW u, Shape(s, u), NEW a \in Addr, s[a] # 0
  PROVE  LET S == JoinStart(s, u, a)
             E == JoinEnd(s, u, a)
         IN  /\ S \in Addr /\ s[S] # 0 /\ S <= a
             /\ E \in Nat /\ a < E /\ E <= End
             /\ E < End => E \in Addr /\ s[E] # 0
             /\ S # a => ~u[S] /\ S + s[S] = a
             /\ S = a => \A b \in Addr : s[b] # 0 /\ b + s[b] = a => u[b]
             /\ \/ E = a + s[a] /\ ~IsFree(s, u, E)
                \/ /\ IsFree(s, u, a + s[a])
                   /\ E = (a + s[a]) + s[a + s[a]]
<1> DEFINE S == JoinStart(s, u, a)
           E == JoinEnd(s, u, a)
           e == a + s[a]
<1>1. /\ s \in [Addr -> 0..End] /\ TiledBy(s) /\ End \in Nat
      /\ \A b \in Addr : b \in Nat /\ b < End /\ s[b] \in Nat
  BY HeapAssumption DEF Shape, Addr
<1>2. /\ a \in Nat /\ s[a] \in Nat /\ e <= End /\ e \in Nat /\ a < e
      /\ e < End => e \in Addr /\ s[e] # 0
  BY <1>1, TileFacts
<1>3. /\ S \in Addr /\ s[S] # 0 /\ S <= a
      /\ S # a => ~u[S] /\ S + s[S] = a
      /\ S = a => \A b \in Addr : s[b] # 0 /\ b + s[b] = a => u[b]
  <2>1. CASE \E b \in Before(s, a) : ~u[b]
    <3>1. S \in Before(s, a) /\ ~u[S]
      BY <2>1 DEF JoinStart
    <3>2. S \in Addr /\ s[S] # 0 /\ S + s[S] = a
      BY <3>1 DEF Before
    <3>3. S <= a /\ S # a
      BY <1>1, <3>2
    <3> QED
      BY <3>1, <3>2, <3>3, Zenon
  <2>2. CASE ~\E b \in Before(s, a) : ~u[b]
    <3>1. S = a
      BY <2>2 DEF JoinStart
    <3>2. \A b \in Addr : s[b] # 0 /\ b + s[b] = a => u[b]
      BY <2>2 DEF Before
    <3>3. a <= a
      BY <1>2
    <3> QED
      BY <3>1, <3>2, <3>3, Zenon
  <2> QED
    BY <2>1, <2>2
<1>4. CASE IsFree(s, u, e)
  <2>1. e \in Addr /\ s[e] # 0 /\ E = e + s[e]
    BY <1>4 DEF IsFree, IsBlock, JoinEnd
  <2>2. /\ e + s[e] <= End /\ s[e] \in Nat
        /\ e + s[e] < End => e + s[e] \in Addr /\ s[e + s[e]] # 0
    BY <1>1, <2>1, TileFacts
  <2>3. E \in Nat /\ a < E /\ E <= End /\ (E < End => E \in Addr /\ s[E] # 0)
    BY <1>2, <2>1, <2>2
  <2> QED
    BY <1>3, <1>4, <2>1, <2>3
<1>5. CASE ~IsFree(s, u, e)
  <2>1. E = e
    BY <1>5 DEF JoinEnd
  <2> QED
    BY <1>2, <1>3, <1>5, <2>1
<1> QED
  BY <1>4, <1>5

\* Behind its start, the joined block is made of the freed block and of the
\* free block behind it, and of no other block.
LEMMA JoinInside ==
  ASSUME NEW s, NEW u, Shape(s, u), NEW a \in Addr, s[a] # 0,
         NEW c \in Addr, s[c] # 0,
         JoinStart(s, u, a) < c, c < JoinEnd(s, u, a)
  PROVE  c = a \/ (c = a + s[a] /\ IsFree(s, u, a + s[a]))
<1> DEFINE S == JoinStart(s, u, a)
           E == JoinEnd(s, u, a)
           e == a + s[a]
<1>1. /\ s \in [Addr -> 0..End] /\ TiledBy(s)
      /\ \A b \in Addr : b \in Nat /\ s[b] \in Nat
  BY HeapAssumption DEF Shape, Addr
<1>2. /\ S \in Addr /\ s[S] # 0 /\ S <= a /\ E \in Nat
      /\ S # a => S + s[S] = a
      /\ \/ E = e
         \/ IsFree(s, u, e) /\ E = e + s[e]
  BY JoinFacts
<1>3. c # a => c + s[c] <= a \/ e <= c
  BY <1>1, TileFacts
<1>4. c + s[c] <= S \/ S + s[S] <= c
  BY <1>1, <1>2, TileFacts
<1>5. IsFree(s, u, e) /\ c # e => c + s[c] <= e \/ e + s[e] <= c
  <2>1. IsFree(s, u, e) => e \in Addr /\ s[e] # 0
    BY DEF IsFree, IsBlock
  <2> QED
    BY <1>1, <2>1, TileFacts
<1> QED
  BY <1>1, <1>2, <1>3, <1>4, <1>5

\* The joined block replaces what lies between its ends and nothing else, so
\* the heap is still tiled and every other owner keeps its block.
LEMMA JoinedShape ==
  ASSUME NEW s, NEW u, Shape(s, u), NEW a \in Addr, s[a] # 0
  PROVE  /\ Shape(Joined(s, u, a), [u EXCEPT ![a] = FALSE])
         /\ \A b \in Addr : b # a /\ u[b] => Joined(s, u, a)[b] = s[b]
<1> DEFINE S == JoinStart(s, u, a)
           E == JoinEnd(s, u, a)
           t == Joined(s, u, a)
           e == a + s[a]
<1>1. /\ s \in [Addr -> 0..End] /\ TiledBy(s) /\ End \in Nat \ {0}
      /\ u \in [Addr -> BOOLEAN]
      /\ \A b \in Addr : b \in Nat /\ b < End /\ s[b] \in Nat /\ s[b] \in 0..End
  BY HeapAssumption DEF Shape, Addr
<1>2. /\ S \in Addr /\ s[S] # 0 /\ S <= a
      /\ E \in Nat /\ a < E /\ E <= End
      /\ E < End => E \in Addr /\ s[E] # 0
      /\ S # a => ~u[S] /\ S + s[S] = a
      /\ \/ E = e
         \/ IsFree(s, u, e) /\ E = e + s[e]
  BY JoinFacts
<1>3. /\ \A b \in Addr : S < b /\ b < E => t[b] = 0
      /\ \A b \in Addr : b < S \/ E <= b => t[b] = s[b]
      /\ t[S] = E - S
  BY <1>1, <1>2 DEF Joined
<1>4. t \in [Addr -> 0..End]
  <2>1. E - S \in 0..End
    BY <1>1, <1>2
  <2> QED
    BY <1>1, <2>1 DEF Joined
<1>5. ASSUME NEW c \in Addr, s[c] # 0, S < c, c < E
      PROVE  c = a \/ (c = e /\ IsFree(s, u, e))
  BY <1>5, JoinInside
<1> HIDE DEF S, E, t
<1>6. t[0] # 0
  BY <1>1, <1>2, <1>3 DEF TiledBy, Addr
<1>7. ASSUME NEW c \in Addr, t[c] # 0
      PROVE  /\ c + t[c] <= End
             /\ c + t[c] < End => t[c + t[c]] # 0
             /\ \A b \in Addr : c < b /\ b < c + t[c] => t[b] = 0
  <2>1. CASE c = S
    <3>1. c + t[c] = E
      BY <1>1, <1>2, <1>3, <2>1
    <3> QED
      BY <1>1, <1>2, <1>3, <2>1, <3>1
  <2>2. CASE c # S
    <3>1. c < S \/ E <= c
      BY <1>1, <1>2, <1>3, <1>7, <2>2
    <3>2. t[c] = s[c] /\ s[c] # 0
      BY <1>3, <1>7, <3>1
    <3>3. /\ c + s[c] <= End
          /\ c + s[c] < End => c + s[c] \in Addr /\ s[c + s[c]] # 0
          /\ \A b \in Addr : c < b /\ b < c + s[c] => s[b] = 0
          /\ c + s[c] <= S \/ S + s[S] <= c
      BY <1>1, <1>2, <2>2, <3>2, TileFacts
    <3>4. c + s[c] <= S \/ E <= c
      BY <1>1, <1>2, <3>1, <3>2, <3>3
    <3>5. c + s[c] < End => t[c + s[c]] # 0
      BY <1>1, <1>2, <1>3, <3>2, <3>3, <3>4
    <3>6. \A b \in Addr : c < b /\ b < c + s[c] => t[b] = 0
      BY <1>1, <1>2, <1>3, <3>2, <3>3, <3>4
    <3> QED
      BY <3>2, <3>3, <3>5, <3>6
  <2> QED
    BY <2>1, <2>2
<1>8. TiledBy(t)
  BY <1>6, <1>7 DEF TiledBy
<1>9. ASSUME NEW b \in Addr, b # a, u[b]
      PROVE  t[b] = s[b] /\ s[b] # 0
  <2>1. s[b] # 0
    BY <1>9 DEF Shape
  <2>2. b # S
    BY <1>2, <1>9
  <2>3. ~(S < b /\ b < E)
    BY <1>5, <1>9, <2>1 DEF IsFree
  <2> QED
    BY <1>1, <1>2, <1>3, <2>1, <2>2, <2>3
<1>10. [u EXCEPT ![a] = FALSE] \in [Addr -> BOOLEAN]
  BY <1>1
<1>11. \A b \in Addr : [u EXCEPT ![a] = FALSE][b] => t[b] # 0
  BY <1>1, <1>9
<1> QED
  BY <1>4, <1>8, <1>9, <1>10, <1>11 DEF Shape, t

\* Taking a free block leaves no two free blocks side by side: the remainder
\* has the taken block in front of it, and behind it what was behind before.
LEMMA SplitCoalesced ==
  ASSUME NEW s, NEW u, Shape(s, u), JoinedBy(s, u), NEW n \in Nat,
         NEW a \in Fitting(s, u, n)
  PROVE  JoinedBy(Split(s, a, n), [u EXCEPT ![a] = TRUE])
<1> DEFINE t == Split(s, a, n)
           v == [u EXCEPT ![a] = TRUE]
           r == a + n + 1
<1>1. /\ a \in Addr /\ s[a] # 0 /\ ~u[a] /\ s[a] >= n + 1
      /\ s \in [Addr -> 0..End] /\ TiledBy(s) /\ End \in Nat
      /\ u \in [Addr -> BOOLEAN]
      /\ \A b \in Addr : b \in Nat /\ b < End /\ s[b] \in Nat
  BY HeapAssumption DEF Shape, Fitting, IsFree, IsBlock, Addr
<1>2. v[a] /\ \A b \in Addr : b # a => v[b] = u[b]
  BY <1>1
<1>3. CASE ~(s[a] - (n + 1) > MinBlock)
  <2>1. t = s
    BY <1>3 DEF Split
  <2> HIDE DEF t, v
  <2> QED
    BY <1>1, <1>2, <2>1 DEF JoinedBy, IsFree, IsBlock, t, v
<1>4. CASE s[a] - (n + 1) > MinBlock
  <2>1. /\ r \in Addr /\ a < r /\ r < a + s[a]
        /\ t = [s EXCEPT ![a] = n + 1, ![r] = s[a] - (n + 1)]
    <3>1. a + s[a] <= End
      BY <1>1, TileFacts
    <3>2. r \in Addr /\ a < r /\ r < a + s[a]
      BY <1>1, <1>4, <3>1 DEF Addr, MinBlock
    <3> QED
      BY <1>4, <3>2 DEF Split
  <2>2. /\ t[a] = n + 1 /\ t[r] = s[a] - (n + 1)
        /\ \A b \in Addr : b # a /\ b # r => t[b] = s[b]
    BY <1>1, <2>1
  <2>3. /\ s[r] = 0 /\ a + s[a] \in Nat
        /\ \A b \in Addr : s[b] # 0 /\ b # a => (b + s[b] <= a \/ a + s[a] <= b)
    BY <1>1, <2>1, TileFacts
  <2> HIDE DEF t, v
  <2>4. ASSUME NEW c \in Addr, t[c] # 0, ~v[c],
               c + t[c] \in Addr, t[c + t[c]] # 0, ~v[c + t[c]]
        PROVE  FALSE
    <3>1. c # a /\ c + t[c] # a
      BY <1>2, <2>4
    <3>2. ~u[c] /\ ~u[c + t[c]]
      BY <1>2, <2>4, <3>1
    <3>3. CASE c = r
      <4>1. c + t[c] = a + s[a]
        BY <1>1, <2>1, <2>2, <3>3
      <4>2. s[a + s[a]] # 0
        BY <1>1, <2>1, <2>2, <2>3, <2>4, <4>1
      <4> QED
        BY <1>1, <2>4, <3>2, <4>1, <4>2 DEF JoinedBy, IsFree, IsBlock
    <3>4. CASE c # r
      <4>1. t[c] = s[c] /\ s[c] # 0
        BY <2>2, <2>4, <3>1, <3>4
      <4>2. c + s[c] # r
        BY <1>1, <2>1, <2>3, <3>1, <4>1
      <4>3. s[c + s[c]] # 0
        BY <2>2, <2>4, <3>1, <4>1, <4>2
      <4> QED
        BY <2>4, <3>2, <4>1, <4>3 DEF JoinedBy, IsFree, IsBlock
    <3> QED
      BY <3>3, <3>4
  <2> QED
    BY <2>4 DEF JoinedBy, IsFree, IsBlock, t, v
<1> QED
  BY <1>3, <1>4

\* Freeing a block leaves no two free blocks side by side: what lies next to
\* the joined block is owned, or would have been next to a free block before.
LEMMA JoinedCoalesced ==
  ASSUME NEW s, NEW u, Shape(s, u), JoinedBy(s, u), NEW a \in Addr,
         s[a] # 0, u[a]
  PROVE  JoinedBy(Joined(s, u, a), [u EXCEPT ![a] = FALSE])
<1> DEFINE S == JoinStart(s, u, a)
           E == JoinEnd(s, u, a)
           t == Joined(s, u, a)
           v == [u EXCEPT ![a] = FALSE]
           e == a + s[a]
<1>1. /\ s \in [Addr -> 0..End] /\ TiledBy(s) /\ End \in Nat
      /\ u \in [Addr -> BOOLEAN]
      /\ \A b \in Addr : b \in Nat /\ b < End /\ s[b] \in Nat
  BY HeapAssumption DEF Shape, Addr
<1>2. /\ S \in Addr /\ s[S] # 0 /\ S <= a
      /\ E \in Nat /\ a < E /\ E <= End
      /\ S # a => ~u[S] /\ S + s[S] = a
      /\ S = a => \A b \in Addr : s[b] # 0 /\ b + s[b] = a => u[b]
      /\ \/ E = e /\ ~IsFree(s, u, E)
         \/ IsFree(s, u, e) /\ E = e + s[e]
  BY JoinFacts
<1>3. ~IsFree(s, u, E)
  BY <1>2 DEF JoinedBy, IsFree, IsBlock
<1>4. /\ \A b \in Addr : S < b /\ b < E => t[b] = 0
      /\ \A b \in Addr : b < S \/ E <= b => t[b] = s[b]
      /\ t[S] = E - S
  BY <1>1, <1>2 DEF Joined
<1>5. \A b \in Addr : b # a => v[b] = u[b]
  BY <1>1
<1> HIDE DEF S, E, t, v
<1>6. ASSUME NEW c \in Addr, t[c] # 0, ~v[c],
             c + t[c] \in Addr, t[c + t[c]] # 0, ~v[c + t[c]]
      PROVE  FALSE
  <2>1. CASE c = S
    <3>1. c + t[c] = E
      BY <1>1, <1>2, <1>4, <2>1
    <3>2. s[E] # 0 /\ ~u[E] /\ E \in Addr
      BY <1>1, <1>2, <1>4, <1>5, <1>6, <3>1
    <3> QED
      BY <1>3, <3>2 DEF IsFree, IsBlock
  <2>2. CASE c # S
    <3>1. c < S \/ E <= c
      BY <1>1, <1>2, <1>4, <1>6, <2>2
    <3>2. t[c] = s[c] /\ s[c] # 0 /\ c # a
      BY <1>1, <1>2, <1>4, <1>6, <3>1
    <3>3. ~u[c]
      BY <1>5, <1>6, <3>2
    <3>4. c + s[c] <= S \/ S + s[S] <= c
      BY <1>1, <1>2, <2>2, <3>2, TileFacts
    <3>5. CASE c + s[c] = S
      <4>1. S # a
        BY <1>2, <3>2, <3>3, <3>5
      <4> QED
        BY <1>2, <3>2, <3>3, <3>5, <4>1 DEF JoinedBy, IsFree, IsBlock
    <3>6. CASE c + s[c] # S
      <4>1. c + s[c] < S \/ E <= c + s[c]
        BY <1>1, <1>2, <3>1, <3>2, <3>4, <3>6
      <4>2. s[c + s[c]] # 0 /\ c + s[c] # a
        BY <1>1, <1>2, <1>4, <1>6, <3>2, <4>1
      <4>3. ~u[c + s[c]]
        BY <1>5, <1>6, <3>2, <4>2
      <4> QED
        BY <1>6, <3>2, <3>3, <4>2, <4>3 DEF JoinedBy, IsFree, IsBlock
    <3> QED
      BY <3>5, <3>6
  <2> QED
    BY <2>1, <2>2
<1> QED
  BY <1>6 DEF JoinedBy, IsFree, IsBlock, t, v

-----------------------------------------------------------------------------
\* The inductive invariant.
Inv == TypeOK /\ Tiled /\ UsedAreBlocks /\ Coalesced

\* pvPortMalloc's walk ends at a free block that is large enough.
LEMMA FirstFits ==
  ASSUME NEW n \in Nat, Fitting(size, used, n) # {}
  PROVE  First(Fitting(size, used, n)) \in Fitting(size, used, n)
<1>1. Fitting(size, used, n) \in SUBSET Addr
  BY DEF Fitting
<1> QED
  BY <1>1, FirstExists

\* Each of the three operations keeps the invariant.
LEMMA InvPreserved ==
  ASSUME Inv, [Next]_vars
  PROVE  Inv'
<1>1. Shape(size, used) /\ JoinedBy(size, used)
  BY DEF Inv, TypeOK, Tiled, UsedAreBlocks, Coalesced, Shape
<1>2. SUFFICES /\ Shape(size', used') /\ JoinedBy(size', used')
               /\ ret' \in Addr \union {Null}
  BY DEF Inv, TypeOK, Tiled, UsedAreBlocks, Coalesced, Shape
<1>3. ASSUME NEW n \in 0..MaxReq, Malloc(n)
      PROVE  /\ Shape(size', used') /\ JoinedBy(size', used')
             /\ ret' \in Addr \union {Null}
  <2>1. CASE size' = size /\ used' = used /\ ret' = Null
    BY <1>1, <2>1
  <2>2. CASE /\ n # 0 /\ Fitting(size, used, n) # {}
             /\ LET a == First(Fitting(size, used, n))
                IN  /\ size' = Split(size, a, n)
                    /\ used' = [used EXCEPT ![a] = TRUE]
                    /\ ret' = a
    <3> DEFINE a == First(Fitting(size, used, n))
    <3>1. n \in Nat /\ a \in Fitting(size, used, n)
      BY <2>2, FirstFits
    <3>2. /\ size' = Split(size, a, n) /\ ret' = a
          /\ used' = [used EXCEPT ![a] = TRUE]
      BY <2>2
    <3>3. a \in Addr
      BY <3>1 DEF Fitting
    <3> HIDE DEF a
    <3> QED
      BY <1>1, <3>1, <3>2, <3>3, SplitShape, SplitCoalesced
  <2> QED
    BY <1>3, <2>1, <2>2 DEF Malloc
<1>4. ASSUME NEW a \in Addr, Free(a)
      PROVE  /\ Shape(size', used') /\ JoinedBy(size', used')
             /\ ret' \in Addr \union {Null}
  BY <1>1, <1>4, JoinedShape, JoinedCoalesced DEF Free, IsBlock
<1>5. ASSUME NEW a \in Addr, NEW n \in 0..MaxReq, Realloc(a, n)
      PROVE  /\ Shape(size', used') /\ JoinedBy(size', used')
             /\ ret' \in Addr \union {Null}
  <2> DEFINE b == First(Fitting(size, used, n))
             s == Split(size, b, n)
             u == [used EXCEPT ![b] = TRUE]
  <2>1. n \in Nat /\ b \in Fitting(size, used, n) /\ b \in Addr
    BY <1>5, FirstFits DEF Realloc, Fitting
  <2>2. size[a] # 0 /\ used[a] /\ a # b
    BY <1>5, <2>1 DEF Realloc, IsBlock, Fitting, IsFree
  <2>3. /\ size' = Joined(s, u, a) /\ used' = [u EXCEPT ![a] = FALSE]
        /\ ret' = b
    BY <1>5 DEF Realloc
  <2> HIDE DEF b
  <2>4. Shape(s, u) /\ JoinedBy(s, u) /\ s[a] = size[a]
    BY <1>1, <2>1, <2>2, SplitShape, SplitCoalesced
  <2>5. u[a]
    BY <1>1, <2>1, <2>2 DEF Shape
  <2> HIDE DEF s, u
  <2> QED
    BY <2>1, <2>2, <2>3, <2>4, <2>5, JoinedShape, JoinedCoalesced
<1>6. CASE UNCHANGED vars
  BY <1>1, <1>6 DEF vars, Inv, TypeOK
<1> QED
  BY <1>3, <1>4, <1>5, <1>6 DEF Next

\* prvHeapInit's single free block satisfies it.
LEMMA InvInit ==
  ASSUME Init
  PROVE  Inv
<1>1. /\ 0 \in Addr /\ End \in 0..End /\ 0 \in 0..End /\ End \in Nat \ {0}
  BY HeapAssumption DEF Addr
<1>2. TypeOK
  BY <1>1 DEF Init, TypeOK
<1>3. \A a \in Addr : size[a] = IF a = 0 THEN End ELSE 0
  BY DEF Init
<1>4. Tiled
  BY <1>1, <1>3 DEF Tiled, TiledBy
<1>5. UsedAreBlocks
  BY DEF Init, UsedAreBlocks
<1>6. Coalesced
  <2>1. \A a \in Addr : size[a] # 0 => a = 0 /\ a + size[a] = End
    BY <1>1, <1>3
  <2>2. End \notin Addr
    BY <1>1 DEF Addr
  <2> QED
    BY <2>1, <2>2 DEF Coalesced, JoinedBy, IsFree, IsBlock
<1> QED
  BY <1>2, <1>4, <1>5, <1>6 DEF Inv

\* The invariant holds after every sequence of malloc, free and realloc.
THEOREM HeapInvariant == Spec => []Inv
<1>1. Init => Inv
  BY InvInit
<1>2. Inv /\ [Next]_vars => Inv'
  BY InvPreserved
<1> QED
  BY <1>1, <1>2, PTL DEF Spec

\* Sizes, owners and returned addresses stay in range.
THEOREM TypeCorrect == Spec => []TypeOK
<1>1. Inv => TypeOK
  BY DEF Inv
<1> QED
  BY <1>1, HeapInvariant, PTL

\* The blocks tile the heap after every sequence of operations: pvPortMalloc
\* never gives a unit to two callers, and vPortFree never loses one.
THEOREM BlocksTileTheHeap == Spec => []Tiled
<1>1. Inv => Tiled
  BY DEF Inv
<1> QED
  BY <1>1, HeapInvariant, PTL

\* What a caller of pvPortMalloc owns starts a block.
THEOREM OnlyBlocksOwned == Spec => []UsedAreBlocks
<1>1. Inv => UsedAreBlocks
  BY DEF Inv
<1> QED
  BY <1>1, HeapInvariant, PTL

\* prvInsertBlockIntoFreeList leaves no two free blocks side by side.
THEOREM FreeBlocksJoined == Spec => []Coalesced
<1>1. Inv => Coalesced
  BY DEF Inv
<1> QED
  BY <1>1, HeapInvariant, PTL

\* One operation of pvPortMalloc, vPortFree or pvPortRealloc moves or resizes
\* no block that has an owner before and after it.
LEMMA StepKeepsBlocks ==
  ASSUME Inv, [Next]_vars, NEW c \in Addr, used[c], used'[c]
  PROVE  size'[c] = size[c]
<1>1. Shape(size, used) /\ size[c] # 0 /\ used \in [Addr -> BOOLEAN]
  BY DEF Inv, TypeOK, Tiled, UsedAreBlocks, Shape
<1>2. ASSUME NEW n \in 0..MaxReq, Malloc(n)
      PROVE  size'[c] = size[c]
  <2>1. CASE size' = size
    BY <2>1
  <2>2. CASE /\ Fitting(size, used, n) # {}
             /\ size' = Split(size, First(Fitting(size, used, n)), n)
    <3> DEFINE a == First(Fitting(size, used, n))
    <3>1. n \in Nat /\ a \in Fitting(size, used, n) /\ size' = Split(size, a, n)
      BY <2>2, FirstFits
    <3>2. c # a
      BY <3>1 DEF Fitting, IsFree
    <3> HIDE DEF a
    <3> QED
      BY <1>1, <3>1, <3>2, SplitShape
  <2> QED
    BY <1>2, <2>1, <2>2 DEF Malloc
<1>3. ASSUME NEW a \in Addr, Free(a)
      PROVE  size'[c] = size[c]
  <2>1. /\ size[a] # 0 /\ size' = Joined(size, used, a)
        /\ used' = [used EXCEPT ![a] = FALSE]
    BY <1>3 DEF Free, IsBlock
  <2>2. c # a
    BY <1>1, <2>1
  <2> QED
    BY <1>1, <2>1, <2>2, JoinedShape
<1>4. ASSUME NEW a \in Addr, NEW n \in 0..MaxReq, Realloc(a, n)
      PROVE  size'[c] = size[c]
  <2> DEFINE b == First(Fitting(size, used, n))
             s == Split(size, b, n)
             u == [used EXCEPT ![b] = TRUE]
  <2>1. n \in Nat /\ b \in Fitting(size, used, n) /\ b \in Addr
    BY <1>4, FirstFits DEF Realloc, Fitting
  <2>2. size[a] # 0 /\ used[a] /\ a # b /\ c # b
    BY <1>4, <2>1 DEF Realloc, IsBlock, Fitting, IsFree
  <2>3. size' = Joined(s, u, a) /\ used' = [u EXCEPT ![a] = FALSE]
    BY <1>4 DEF Realloc
  <2> HIDE DEF b
  <2>4. Shape(s, u) /\ s[a] = size[a] /\ s[c] = size[c]
    BY <1>1, <2>1, <2>2, SplitShape
  <2>5. u \in [Addr -> BOOLEAN] /\ u[c]
    BY <1>1, <2>2
  <2> HIDE DEF s, u
  <2>6. c # a
    <3>1. [u EXCEPT ![a] = FALSE][a] = FALSE
      BY <2>5
    <3> QED
      BY <2>3, <3>1
  <2>7. s[a] # 0
    BY <2>2, <2>4
  <2>8. \A d \in Addr : d # a /\ u[d] => Joined(s, u, a)[d] = s[d]
    BY <2>4, <2>7, JoinedShape
  <2> QED
    BY <2>3, <2>4, <2>5, <2>6, <2>8, Zenon
<1>5. CASE UNCHANGED vars
  BY <1>5 DEF vars
<1> QED
  BY <1>2, <1>3, <1>4, <1>5 DEF Next

\* What pvPortMalloc has given to a caller keeps its place and its size until
\* the caller frees it, whatever the other callers do.
THEOREM BlocksKeepTheirPlace == Spec => BlocksStay
<1>1. Inv /\ [Next]_vars =>
        [\A a \in Addr : used[a] /\ used'[a] => size'[a] = size[a]]_vars
  BY StepKeepsBlocks
<1> QED
  BY <1>1, HeapInvariant, PTL DEF Spec, BlocksStay

-----------------------------------------------------------------------------
(* The loops of Heap4. *)

\* Induction over the iterations of a loop: a set of numbers that holds 0 and
\* the successor of each of its members holds all of them.
LEMMA Induction ==
  ASSUME NEW T, 0 \in T, \A n \in Nat : n \in T => n + 1 \in T
  PROVE  \A n \in Nat : n \in T
<1> DEFINE R == OpToRel(<, Nat)
           S == Nat \ T
<1>1. SUFFICES ASSUME S # {} PROVE FALSE
  OBVIOUS
<1>2. IsWellFoundedOn(R, Nat)
  BY NatLessThanWellFounded
<1>3. \A x, y \in Nat : <<x, y>> \in R <=> x < y
  BY DEF OpToRel
<1>4. S \subseteq Nat
  OBVIOUS
<1> HIDE DEF R
<1>5. PICK x \in S : \A y \in S : ~(<<y, x>> \in R)
  BY <1>1, <1>2, <1>4, WFMin
<1>6. x \in Nat /\ x # 0 /\ x \notin T
  BY <1>5
<1>7. x - 1 \in Nat /\ x - 1 < x /\ (x - 1) + 1 = x
  BY <1>6
<1>8. x - 1 \in T
  BY <1>3, <1>5, <1>6, <1>7
<1> QED
  BY <1>6, <1>7, <1>8

\* The links a loop reaches, from p to the one after its k-th iteration.
IsRun(step, p, k, f) ==
  /\ f = [i \in 0..k |-> f[i]] /\ f[0] = p
  /\ \A i \in 0..k : i # 0 => f[i] = step[f[i - 1]]

\* The loops of pvPortMalloc and prvInsertBlockIntoFreeList run: the links they
\* reach, one for each iteration, exist.
LEMMA LoopRuns ==
  ASSUME NEW step, NEW p, NEW k \in Nat
  PROVE  \E f : IsRun(step, p, k, f)
<1> DEFINE T == {n \in Nat : \E f : IsRun(step, p, n, f)}
<1>1. 0 \in T
  <2> DEFINE g == [i \in 0..0 |-> p]
  <2>1. 0 \in 0..0 /\ \A i \in 0..0 : i = 0
    OBVIOUS
  <2>2. IsRun(step, p, 0, g)
    BY <2>1 DEF IsRun
  <2> QED
    BY <2>2
<1>2. ASSUME NEW n \in Nat, n \in T
      PROVE  n + 1 \in T
  <2>1. PICK g : IsRun(step, p, n, g)
    BY <1>2
  <2> DEFINE f == [i \in 0..(n + 1) |-> IF i = n + 1 THEN step[g[n]] ELSE g[i]]
  <2>2. ASSUME NEW i \in 0..(n + 1), i # 0
        PROVE  f[i] = step[f[i - 1]]
    <3>1. CASE i = n + 1
      <4>1. i - 1 = n /\ n \in 0..(n + 1) /\ n # n + 1
        BY <3>1
      <4>2. f[i] = step[g[n]] /\ f[n] = g[n]
        BY <3>1, <4>1
      <4> QED
        BY <4>1, <4>2
    <3>2. CASE i # n + 1
      <4>1. i \in 0..n /\ i - 1 \in 0..(n + 1) /\ i - 1 # n + 1
        BY <2>2, <3>2
      <4>2. f[i] = g[i] /\ f[i - 1] = g[i - 1] /\ g[i] = step[g[i - 1]]
        BY <2>1, <2>2, <3>2, <4>1 DEF IsRun
      <4> QED
        BY <4>2
    <3> QED
      BY <3>1, <3>2
  <2>3. f[0] = p
    <3>1. 0 \in 0..(n + 1) /\ 0 # n + 1
      OBVIOUS
    <3> QED
      BY <2>1, <3>1 DEF IsRun
  <2>4. f = [i \in 0..(n + 1) |-> f[i]]
    OBVIOUS
  <2> HIDE DEF f
  <2>5. IsRun(step, p, n + 1, f)
    BY <2>2, <2>3, <2>4 DEF IsRun
  <2> QED
    BY <2>5
<1> HIDE DEF T
<1>3. k \in T
  BY <1>1, <1>2, Induction
<1> QED
  BY <1>3 DEF T

\* A loop along links whose addresses do not fall ends, at a link at which its
\* condition fails.
LEMMA LoopEnds ==
  ASSUME NEW step, NEW S \in SUBSET Link, Start \in S,
         \A x \in S : step[x] \in S /\ x <= step[x]
  PROVE  /\ Loop(step, Start) \in S
         /\ step[Loop(step, Start)] = Loop(step, Start)
<1> DEFINE at == CHOOSE f : f = [i \in 0..End |-> IF i = 0 THEN Start ELSE step[f[i - 1]]]
<1>1. End \in Nat \ {0}
  BY HeapAssumption
<1>2. at = [i \in 0..End |-> IF i = 0 THEN Start ELSE step[at[i - 1]]]
  <2>1. End \in Nat
    BY <1>1
  <2>2. PICK f : IsRun(step, Start, End, f)
    BY <2>1, LoopRuns
  <2>3. \A i \in 0..End : f[i] = IF i = 0 THEN Start ELSE step[f[i - 1]]
    BY <2>2 DEF IsRun
  <2>4. f = [i \in 0..End |-> IF i = 0 THEN Start ELSE step[f[i - 1]]]
    BY <2>2, <2>3 DEF IsRun
  <2> QED
    BY <2>4, Zenon
<1>3. Loop(step, Start) = at[End]
  BY DEF Loop
<1> HIDE DEF at
<1>4. at[0] = Start /\ \A i \in 0..End : i # 0 => at[i] = step[at[i - 1]]
  <2>1. 0 \in 0..End
    BY <1>1
  <2>2. \A i \in 0..End : at[i] = IF i = 0 THEN Start ELSE step[at[i - 1]]
    BY <1>2, Zenon
  <2> QED
    BY <2>1, <2>2, Zenon
<1>5. Start = -2 /\ \A x \in S : x \in Int /\ x < End /\ (x # -2 => 0 <= x)
  BY <1>1 DEF Link, Addr, Start
<1> HIDE DEF Start
<1> DEFINE T == {i \in Nat : i <= End => at[i] \in S}
<1>6. \A i \in Nat : i \in T
  <2>1. 0 \in T
    BY <1>4
  <2>2. ASSUME NEW n \in Nat, n \in T
        PROVE  n + 1 \in T
    <3>1. CASE n + 1 <= End
      <4>1. n + 1 \in 0..End /\ n + 1 # 0 /\ (n + 1) - 1 = n /\ n <= End
        BY <1>1, <3>1
      <4>2. at[n + 1] = step[at[n]] /\ at[n] \in S
        BY <1>4, <2>2, <4>1
      <4> QED
        BY <4>2
    <3>2. CASE ~(n + 1 <= End)
      BY <3>2
    <3> QED
      BY <3>1, <3>2
  <2> HIDE DEF T
  <2> QED
    BY <2>1, <2>2, Induction
<1>7. \A i \in 0..End : at[i] \in S
  BY <1>1, <1>6
<1> DEFINE U == {i \in Nat : i + 1 <= End => step[at[i + 1]] = at[i + 1] \/ i <= at[i + 1]}
<1>8. \A i \in Nat : i \in U
  <2>1. 0 \in U
    <3>1. 1 \in 0..End /\ 0 \in 0..End /\ 0 + 1 = 1
      BY <1>1
    <3>2. at[1] = step[Start] /\ at[1] \in S
      BY <1>4, <1>7, <3>1
    <3>3. CASE at[1] = Start
      BY <3>1, <3>2, <3>3
    <3>4. CASE at[1] # Start
      BY <1>5, <3>1, <3>2, <3>4
    <3> QED
      BY <3>3, <3>4
  <2>2. ASSUME NEW n \in Nat, n \in U
        PROVE  n + 1 \in U
    <3>1. CASE (n + 1) + 1 <= End
      <4>1. /\ n + 1 \in 0..End /\ (n + 1) + 1 \in 0..End /\ (n + 1) + 1 # 0
            /\ ((n + 1) + 1) - 1 = n + 1 /\ n + 1 <= End
        BY <1>1, <3>1
      <4>2. /\ at[(n + 1) + 1] = step[at[n + 1]]
            /\ at[n + 1] \in S /\ at[(n + 1) + 1] \in S
        BY <1>4, <1>7, <4>1
      <4>3. step[at[n + 1]] = at[n + 1] \/ n <= at[n + 1]
        BY <2>2, <4>1
      <4>4. CASE step[at[n + 1]] = at[n + 1]
        BY <4>2, <4>4
      <4>5. CASE step[at[n + 1]] # at[n + 1] /\ n <= at[n + 1]
        <5>1. at[n + 1] \in Int /\ at[(n + 1) + 1] \in Int /\ at[n + 1] <= at[(n + 1) + 1]
          BY <1>5, <4>2
        <5>2. n + 1 <= at[(n + 1) + 1]
          BY <4>2, <4>5, <5>1
        <5> QED
          BY <5>2
      <4> QED
        BY <4>3, <4>4, <4>5
    <3>2. CASE ~((n + 1) + 1 <= End)
      BY <3>2
    <3> QED
      BY <3>1, <3>2
  <2> HIDE DEF U
  <2> QED
    BY <2>1, <2>2, Induction
<1>9. step[at[End]] = at[End]
  <2>1. End - 1 \in U /\ End - 1 \in Nat /\ (End - 1) + 1 = End /\ End \in 0..End
    BY <1>1, <1>8
  <2>2. step[at[End]] = at[End] \/ End - 1 <= at[End]
    BY <1>1, <2>1
  <2>3. at[End] \in S /\ step[at[End]] \in S /\ at[End] <= step[at[End]]
    BY <1>7, <2>1
  <2> QED
    <3>1. /\ at[End] \in Int /\ step[at[End]] \in Int
          /\ at[End] < End /\ step[at[End]] < End
      BY <1>5, <2>3
    <3> QED
      BY <1>1, <2>2, <2>3, <3>1
<1> QED
  BY <1>1, <1>3, <1>7, <1>9

-----------------------------------------------------------------------------
(* The free list of Heap4, for headers m and the set A of the blocks that    *)
(* are with a caller or on their way back.                                   *)

Sizes(m)     == [a \in Addr |-> m.size[a]]
Owners(A)    == [a \in Addr |-> a \in A]
FreeOf(m, A) == {a \in Addr : m.size[a] # 0 /\ a \notin A}

\* Link p leads to the next block of F, or from the last one to the end marker.
Chained(m, F) ==
  \A p \in {Start} \union F :
    /\ p < m.next[p] /\ m.next[p] \in F \union {End}
    /\ \A a \in F : ~(p < a /\ a < m.next[p])

Headers == [next  : [Word -> Word \union {Null}],
            size  : [Word -> 0..End],
            alloc : SUBSET Addr]

\* What every operation keeps: the headers tile the heap, no two free blocks
\* are neighbours, and the list leads through the free blocks.
Kept(m, A) ==
  /\ m \in Headers /\ A \in SUBSET Addr
  /\ Shape(Sizes(m), Owners(A)) /\ JoinedBy(Sizes(m), Owners(A))
  /\ Chained(m, FreeOf(m, A))
  /\ m.size[End] = 0 /\ m.next[End] = Null

\* The addresses that a link or a header can have.
LEMMA Addresses ==
  /\ End \in Nat \ {0} /\ Start = -2 /\ Null = -1
  /\ Link = Addr \union {-2} /\ Word = Addr \union {-2, End}
  /\ \A a \in Addr : a \in Nat /\ a < End
  /\ \A a \in Int : 0 <= a /\ a < End => a \in Addr
BY HeapAssumption DEF Start, Null, Addr, Link, Word, Addr

\* Where a link of the free list leads.
LEMMA ChainFacts ==
  ASSUME NEW m, NEW F \in SUBSET Addr, Chained(m, F), NEW p \in F \union {-2}
  PROVE  /\ p \in Int /\ p < m.next[p] /\ m.next[p] \in F \union {End}
         /\ m.next[p] \in Int /\ m.next[p] # -1
         /\ \A a \in F : a <= p \/ m.next[p] <= a
<1>1. p \in {Start} \union F /\ p \in Int
  BY Addresses
<1>2. /\ p < m.next[p] /\ m.next[p] \in F \union {End}
      /\ \A a \in F : ~(p < a /\ a < m.next[p])
  BY <1>1 DEF Chained
<1>3. m.next[p] \in Nat
  BY <1>2, Addresses
<1>4. \A a \in F : a \in Nat
  BY Addresses
<1> QED
  BY <1>1, <1>2, <1>3, <1>4

\* pxIterator: the loop of prvInsertBlockIntoFreeList ends at the last link in
\* front of block b.
LEMMA IteratorFacts ==
  ASSUME NEW m, NEW F \in SUBSET Addr, Chained(m, F), NEW b \in Addr
  PROVE  LET it == Iterator(m, b)
         IN  /\ it \in F \union {-2} /\ it \in Int /\ it < b
             /\ m.next[it] \in F \union {End} /\ m.next[it] \in Int
             /\ b <= m.next[it]
             /\ \A a \in F : a <= it \/ m.next[it] <= a
<1> DEFINE step == [p \in Link |-> IF m.next[p] < b THEN m.next[p] ELSE p]
           S    == {q \in F \union {-2} : q < b}
<1>1. /\ \A a \in F : a \in Nat /\ a < End /\ a \in Addr
      /\ End \in Nat /\ b \in Nat /\ b < End
  BY Addresses
<1>2. \A p \in F \union {-2} :
        /\ p \in Int /\ p < m.next[p] /\ m.next[p] \in F \union {End}
        /\ m.next[p] \in Int
        /\ \A a \in F : a <= p \/ m.next[p] <= a
  BY ChainFacts
<1>3. \A p \in S : step[p] = IF m.next[p] < b THEN m.next[p] ELSE p
  BY Addresses
<1> HIDE DEF step
<1>4. \A p \in S : step[p] \in S /\ p <= step[p]
  <2> SUFFICES ASSUME NEW p \in S
               PROVE  step[p] \in S /\ p <= step[p]
    OBVIOUS
  <2>1. CASE m.next[p] < b
    BY <1>1, <1>2, <1>3, <2>1
  <2>2. CASE ~(m.next[p] < b)
    BY <1>1, <1>2, <1>3, <2>2
  <2> QED
    BY <2>1, <2>2
<1>5. S \in SUBSET Link /\ Start \in S
  <2>1. S \in SUBSET Link
    BY Addresses
  <2>2. -2 < b
    BY <1>1
  <2> QED
    BY <2>1, <2>2, Addresses
<1> DEFINE it == Loop(step, Start)
<1>6. it \in S /\ step[it] = it
  BY <1>4, <1>5, LoopEnds
<1>7. it = Iterator(m, b)
  BY DEF Iterator, step
<1> HIDE DEF it
<1>8. it \in F \union {-2} /\ it < b /\ b <= m.next[it]
  BY <1>1, <1>2, <1>3, <1>6
<1>9. \A a \in F : a <= it \/ m.next[it] <= a
  BY <1>1, <1>2, <1>8
<1> QED
  BY <1>2, <1>7, <1>8, <1>9

\* pxPreviousBlock: the loop of pvPortMalloc ends in front of the first block
\* with room for n units, or of the end marker when there is none.
LEMMA PreviousFacts ==
  ASSUME NEW m \in Headers, NEW F \in SUBSET Addr, Chained(m, F),
         m.size[End] = 0, m.next[End] = Null, NEW n \in Nat
  PROVE  LET p == Previous(m, n)
         IN  /\ p \in F \union {-2} /\ p \in Int /\ p < m.next[p]
             /\ m.next[p] \in F \union {End}
             /\ m.next[p] # End => m.size[m.next[p]] >= n + 1
             /\ \A a \in F : m.size[a] >= n + 1 => m.next[p] <= a
             /\ \A a \in F : a <= p \/ m.next[p] <= a
<1> DEFINE Stops(b) == m.size[b] >= n + 1 \/ m.next[b] = Null
           step     == [p \in Link |-> IF Stops(m.next[p]) THEN p ELSE m.next[p]]
           S        == {q \in F \union {-2} : \A a \in F : a <= q => m.size[a] < n + 1}
<1>1. /\ \A a \in F : a \in Nat /\ a < End /\ a \in Addr
      /\ End \in Nat
  BY Addresses
<1>2. \A a \in F \union {End} : m.size[a] \in Nat
  <2>1. m.size \in [Word -> 0..End]
    BY DEF Headers
  <2> QED
    BY <1>1, <2>1, Addresses
<1>3. \A p \in F \union {-2} :
        /\ p \in Int /\ p < m.next[p] /\ m.next[p] \in F \union {End}
        /\ m.next[p] \in Int /\ m.next[p] # -1
        /\ \A a \in F : a <= p \/ m.next[p] <= a
  BY ChainFacts
<1>4. \A p \in S : step[p] = IF Stops(m.next[p]) THEN p ELSE m.next[p]
  BY Addresses
<1>5. \A b \in F : Stops(b) <=> m.size[b] >= n + 1
  BY <1>3, Addresses
<1>6. Stops(End)
  OBVIOUS
<1> HIDE DEF step, Stops
<1>7. ASSUME NEW p \in S
      PROVE  step[p] \in S /\ p <= step[p]
  <2>1. CASE Stops(m.next[p])
    BY <1>3, <1>4, <2>1
  <2>2. CASE ~Stops(m.next[p])
    <3>1. m.next[p] \in F /\ m.size[m.next[p]] < n + 1 /\ step[p] = m.next[p]
      BY <1>2, <1>3, <1>4, <1>5, <1>6, <2>2
    <3>2. \A a \in F : a <= m.next[p] => a <= p \/ a = m.next[p]
      BY <1>1, <1>3
    <3> QED
      BY <1>3, <3>1, <3>2
  <2> QED
    BY <2>1, <2>2
<1>8. S \in SUBSET Link /\ Start \in S
  BY <1>1, Addresses
<1> DEFINE p == Loop(step, Start)
<1>9. p \in S /\ step[p] = p
  <2> HIDE DEF S
  <2> QED
    BY <1>7, <1>8, LoopEnds
<1>10. p = Previous(m, n)
  BY DEF Previous, step, Stops
<1> HIDE DEF p
<1>11. /\ p \in F \union {-2} /\ Stops(m.next[p])
       /\ \A a \in F : a <= p => m.size[a] < n + 1
  BY <1>3, <1>4, <1>9
<1>12. m.next[p] # End => m.size[m.next[p]] >= n + 1
  BY <1>3, <1>5, <1>11
<1>13. \A a \in F : a <= p \/ m.next[p] <= a
  BY <1>1, <1>3, <1>11
<1>14. \A a \in F : m.size[a] >= n + 1 => m.next[p] <= a
  BY <1>1, <1>2, <1>11, <1>13
<1> QED
  BY <1>3, <1>10, <1>11, <1>12, <1>13, <1>14

\* The abstract view of headers m: sizes, owners and free blocks.
LEMMA KeptFacts ==
  ASSUME NEW m, NEW A, Kept(m, A)
  PROVE  LET s == Sizes(m)
             u == Owners(A)
             F == FreeOf(m, A)
         IN  /\ s \in [Addr -> 0..End] /\ u \in [Addr -> BOOLEAN] /\ TiledBy(s)
             /\ F \in SUBSET Addr /\ A \in SUBSET Addr /\ Chained(m, F)
             /\ \A a \in Addr : s[a] = m.size[a] /\ m.size[a] \in Nat
             /\ \A a \in Addr : u[a] <=> a \in A
             /\ \A a \in Addr : a \in F <=> s[a] # 0 /\ a \notin A
             /\ \A a : IsFree(s, u, a) <=> a \in F
             /\ \A a \in A : a \in Addr /\ s[a] # 0
             /\ \A a \in F \union {-2} : a # End
             /\ m.next \in [Word -> Word \union {Null}]
             /\ m.size \in [Word -> 0..End]
             /\ m.size[End] = 0 /\ m.next[End] = Null /\ m.alloc \in SUBSET Addr
<1> DEFINE s == Sizes(m)
           u == Owners(A)
           F == FreeOf(m, A)
<1>1. /\ m.next \in [Word -> Word \union {Null}]
      /\ m.size \in [Word -> 0..End] /\ m.alloc \in SUBSET Addr
      /\ m.size[End] = 0 /\ m.next[End] = Null /\ A \in SUBSET Addr
      /\ Chained(m, F) /\ Shape(s, u)
  BY DEF Kept, Headers
<1>2. \A a \in Addr : s[a] = m.size[a] /\ m.size[a] \in Nat
  BY <1>1, Addresses DEF Sizes
<1>3. \A a \in Addr : u[a] <=> a \in A
  BY DEF Owners
<1>4. \A a \in Addr : a \in F <=> s[a] # 0 /\ a \notin A
  BY <1>2 DEF FreeOf
<1>5. F \in SUBSET Addr
  BY DEF FreeOf
<1>6. /\ s \in [Addr -> 0..End] /\ u \in [Addr -> BOOLEAN] /\ TiledBy(s)
      /\ \A a \in Addr : u[a] => s[a] # 0
  BY <1>1 DEF Shape
<1> HIDE DEF s, u, F
<1>7. \A a : IsFree(s, u, a) <=> a \in F
  BY <1>3, <1>4, <1>5, Zenon DEF IsFree, IsBlock
<1>8. \A a \in A : a \in Addr /\ s[a] # 0
  BY <1>1, <1>3, <1>6
<1>9. \A a \in F \union {-2} : a # End
  BY <1>5, Addresses
<1> QED
  BY <1>1, <1>2, <1>3, <1>4, <1>5, <1>6, <1>7, <1>8, <1>9 DEF s, u, F

\* Where prvInsertBlockIntoFreeList puts block b, found from the list alone, is
\* where the sizes and the owners say its free neighbours are.
LEMMA InsertPlace ==
  ASSUME NEW m, NEW A, Kept(m, A), NEW b \in A
  PROVE  LET s  == Sizes(m)
             u  == Owners(A)
             it == Iterator(m, b)
             nx == m.next[it]
             e  == b + m.size[b]
         IN  /\ JoinStart(s, u, b) = IF it # -2 /\ it + m.size[it] = b THEN it ELSE b
             /\ JoinEnd(s, u, b) = IF e = nx /\ nx # End THEN nx + m.size[nx] ELSE e
             /\ b < nx /\ b < e
<1> DEFINE s  == Sizes(m)
           u  == Owners(A)
           F  == FreeOf(m, A)
           it == Iterator(m, b)
           nx == m.next[it]
           e  == b + m.size[b]
<1>1. /\ s \in [Addr -> 0..End] /\ TiledBy(s) /\ F \in SUBSET Addr
      /\ Chained(m, F)
      /\ \A a \in Addr : s[a] = m.size[a] /\ m.size[a] \in Nat
      /\ \A a \in Addr : u[a] <=> a \in A
      /\ \A a \in Addr : a \in F <=> s[a] # 0 /\ a \notin A
      /\ \A a : IsFree(s, u, a) <=> a \in F
      /\ b \in Addr /\ s[b] # 0
  BY KeptFacts
<1>2. Shape(s, u)
  BY DEF Kept
<1>3. /\ it \in F \union {-2} /\ it \in Int /\ it < b
      /\ nx \in F \union {End} /\ nx \in Int /\ b <= nx
      /\ \A a \in F : a <= it \/ nx <= a
  BY <1>1, IteratorFacts
<1>4. End \in Nat /\ (\A a \in Addr : a \in Nat /\ a < End) /\ End \notin Addr
  BY Addresses
<1>5. b < nx /\ b < e /\ e \in Nat /\ b \notin F /\ e = b + s[b]
  BY <1>1, <1>3, <1>4
<1> HIDE DEF s, u, F, it, nx, e
<1>6. ASSUME NEW c \in F, c + s[c] = b
      PROVE  c = it
  <2>1. c <= it
    BY <1>1, <1>3, <1>4, <1>5, <1>6
  <2>2. it # -2
    BY <1>1, <1>3, <1>4, <2>1
  <2>3. c # it => c + s[c] <= it \/ it + s[it] <= c
    BY <1>1, <1>3, <2>2, TileFacts
  <2>4. it \in Addr /\ s[it] \in Nat /\ s[it] # 0
    BY <1>1, <1>3, <2>2
  <2> QED
    BY <1>1, <1>3, <1>4, <1>6, <2>1, <2>3, <2>4
<1>7. /\ JoinStart(s, u, b) \in Addr /\ s[JoinStart(s, u, b)] # 0
      /\ JoinStart(s, u, b) # b =>
           ~u[JoinStart(s, u, b)] /\ JoinStart(s, u, b) + s[JoinStart(s, u, b)] = b
      /\ JoinStart(s, u, b) = b => \A a \in Addr : s[a] # 0 /\ a + s[a] = b => u[a]
      /\ \/ JoinEnd(s, u, b) = b + s[b] /\ ~IsFree(s, u, JoinEnd(s, u, b))
         \/ /\ IsFree(s, u, b + s[b])
            /\ JoinEnd(s, u, b) = (b + s[b]) + s[b + s[b]]
  BY <1>1, <1>2, JoinFacts
<1>8. JoinStart(s, u, b) = IF it # -2 /\ it + m.size[it] = b THEN it ELSE b
  <2>1. CASE it # -2 /\ it + m.size[it] = b
    <3>1. it \in F /\ it \in Addr /\ s[it] # 0 /\ it + s[it] = b /\ ~u[it]
      BY <1>1, <1>3, <2>1
    <3>2. JoinStart(s, u, b) # b
      BY <1>7, <3>1
    <3>3. JoinStart(s, u, b) \in F
      BY <1>1, <1>7, <3>2
    <3> QED
      BY <1>6, <1>7, <2>1, <3>2, <3>3
  <2>2. CASE ~(it # -2 /\ it + m.size[it] = b)
    <3>1. SUFFICES ASSUME JoinStart(s, u, b) # b PROVE FALSE
      BY <2>2
    <3>2. JoinStart(s, u, b) \in F
      BY <1>1, <1>7, <3>1
    <3>3. JoinStart(s, u, b) = it
      BY <1>6, <1>7, <3>1, <3>2
    <3>4. it \in Addr /\ it + s[it] = b
      BY <1>7, <3>1, <3>3
    <3> QED
      BY <1>1, <1>4, <2>2, <3>4
  <2> QED
    BY <2>1, <2>2
<1>9. IsFree(s, u, e) <=> e = nx /\ nx # End
  <2>1. ASSUME e \in F PROVE e = nx /\ nx # End
    <3>1. nx <= e /\ e < End
      BY <1>1, <1>3, <1>4, <1>5, <2>1
    <3>2. nx \in F
      BY <1>3, <1>4, <1>5, <3>1
    <3>3. b + s[b] <= nx \/ nx + s[nx] <= b
      BY <1>1, <1>5, <3>2, TileFacts
    <3>4. nx \in Addr /\ s[nx] \in Nat /\ nx \in Nat /\ b \in Nat
      BY <1>1, <1>4, <3>2
    <3> QED
      BY <1>3, <1>4, <1>5, <3>1, <3>3, <3>4
  <2>2. ASSUME e = nx, nx # End PROVE e \in F
    BY <1>3, <2>2
  <2> QED
    BY <1>1, <2>1, <2>2
<1>10. JoinEnd(s, u, b) = IF e = nx /\ nx # End THEN nx + m.size[nx] ELSE e
  <2>1. CASE e = nx /\ nx # End
    <3>1. nx \in Addr /\ s[nx] = m.size[nx]
      BY <1>1, <1>3, <2>1
    <3>2. JoinEnd(s, u, b) = e + s[e]
      BY <1>5, <1>9, <2>1 DEF JoinEnd
    <3> QED
      BY <2>1, <3>1, <3>2
  <2>2. CASE ~(e = nx /\ nx # End)
    <3>1. JoinEnd(s, u, b) = e
      BY <1>5, <1>9, <2>2 DEF JoinEnd
    <3> QED
      BY <2>2, <3>1
  <2> QED
    BY <2>1, <2>2
<1> QED
  BY <1>5, <1>8, <1>10 DEF s, u, it, nx, e

\* The headers after prvInsertBlockIntoFreeList: the joined block, from S to E,
\* has its length, the headers it swallowed are payload, and the links around it
\* are set.
LEMMA InsertResult ==
  ASSUME NEW m, NEW A, Kept(m, A), NEW b \in A
  PROVE  LET S    == JoinStart(Sizes(m), Owners(A), b)
             E    == JoinEnd(Sizes(m), Owners(A), b)
             it   == Iterator(m, b)
             nx   == m.next[it]
             gone == (IF S # b THEN {b} ELSE {})
                       \union (IF E # b + m.size[b] THEN {nx} ELSE {})
             new  == prvInsertBlockIntoFreeList(m, b)
         IN  /\ new \in Headers /\ new.alloc = m.alloc
             /\ \A w \in Word : new.size[w] =
                  IF w \in gone THEN 0 ELSE IF w = S THEN E - S ELSE m.size[w]
             /\ \A w \in Word : new.next[w] =
                  IF w \in gone THEN Null
                  ELSE IF w = S THEN (IF E # b + m.size[b] THEN m.next[nx] ELSE nx)
                  ELSE IF w = it THEN S
                  ELSE m.next[w]
             /\ S # b => S = it /\ it \in Addr
             /\ S \in Addr /\ S <= b /\ b < E /\ E \in Nat /\ E <= End /\ b < nx
             /\ E # b + m.size[b] =>
                  nx \in Addr /\ nx = b + m.size[b] /\ E = nx + m.size[nx]
<1> DEFINE s     == Sizes(m)
           u     == Owners(A)
           S     == JoinStart(s, u, b)
           E     == JoinEnd(s, u, b)
           F     == FreeOf(m, A)
           it    == Iterator(m, b)
           nx    == m.next[it]
           e     == b + m.size[b]
           left  == it # Start /\ it + m.size[it] = b
           top   == IF left THEN it ELSE b
           len   == IF left THEN m.size[it] + m.size[b] ELSE m.size[b]
           right == top + len = nx /\ nx # End
           gone  == (IF left THEN {b} ELSE {}) \union (IF right THEN {nx} ELSE {})
           new   == prvInsertBlockIntoFreeList(m, b)
<1>1. /\ s \in [Addr -> 0..End] /\ TiledBy(s) /\ F \in SUBSET Addr
      /\ Chained(m, F)
      /\ \A a \in Addr : s[a] = m.size[a] /\ m.size[a] \in Nat
      /\ \A a \in Addr : a \in F <=> s[a] # 0 /\ a \notin A
      /\ b \in Addr /\ s[b] # 0
      /\ m.next \in [Word -> Word \union {Null}]
      /\ m.size \in [Word -> 0..End] /\ m.alloc \in SUBSET Addr
  BY KeptFacts
<1>2. /\ it \in F \union {-2} /\ it \in Int /\ it < b
      /\ nx \in F \union {End} /\ nx \in Int
  BY <1>1, IteratorFacts
<1>3. /\ S = IF it # -2 /\ it + m.size[it] = b THEN it ELSE b
      /\ E = IF e = nx /\ nx # End THEN nx + m.size[nx] ELSE e
      /\ b < nx /\ b < e
  BY InsertPlace
<1>4. /\ S \in Addr /\ S <= b /\ E \in Nat /\ b < E /\ E <= End
  <2>1. Shape(s, u)
    BY DEF Kept
  <2> QED
    BY <1>1, <2>1, JoinFacts
<1>5. /\ End \in Nat /\ (\A a \in Addr : a \in Nat /\ a < End) /\ End \notin Addr
      /\ Start = -2 /\ Word = Addr \union {-2, End}
  BY Addresses
<1>6. /\ new.next = [w \in Word |->
                       IF w \in gone THEN Null
                       ELSE IF w = top THEN (IF right THEN m.next[nx] ELSE nx)
                       ELSE IF w = it THEN top
                       ELSE m.next[w]]
      /\ new.size = [w \in Word |->
                       IF w \in gone THEN 0
                       ELSE IF w = top THEN (IF right THEN len + m.size[nx] ELSE len)
                       ELSE m.size[w]]
      /\ new.alloc = m.alloc
      /\ new = [next |-> new.next, size |-> new.size, alloc |-> new.alloc]
  BY DEF prvInsertBlockIntoFreeList
<1> HIDE DEF s, u, S, E, F, it, nx, new, gone
<1>7. /\ top = S /\ (left <=> S # b) /\ (left => it \in Addr)
      /\ e \in Nat /\ b \in Nat /\ m.size[b] \in Nat
  BY <1>1, <1>2, <1>3, <1>5
<1>8. top + len = e
  BY <1>1, <1>2, <1>5, <1>7
<1>9. /\ right <=> E # e
      /\ right => nx \in Addr /\ nx = e /\ E = nx + m.size[nx]
  <2>1. ASSUME right
        PROVE  nx \in Addr /\ nx = e /\ E = nx + m.size[nx] /\ E # e
    <3>1. nx \in F /\ nx \in Addr /\ nx = e /\ E = nx + m.size[nx]
      BY <1>1, <1>2, <1>3, <1>8, <2>1
    <3>2. m.size[nx] \in Nat /\ m.size[nx] # 0
      BY <1>1, <3>1
    <3> QED
      BY <1>7, <3>1, <3>2
  <2>2. ASSUME ~right PROVE E = e
    BY <1>3, <1>8, <2>2
  <2> QED
    BY <2>1, <2>2
<1>10. (IF right THEN len + m.size[nx] ELSE len) = E - S
  <2>1. len \in Nat /\ S \in Nat /\ S + len = e
    BY <1>1, <1>4, <1>5, <1>7, <1>8
  <2>2. CASE right
    <3>1. m.size[nx] \in Nat /\ E = e + m.size[nx]
      BY <1>1, <1>9, <2>2
    <3> QED
      BY <1>7, <2>1, <2>2, <3>1
  <2>3. CASE ~right
    BY <1>7, <1>9, <2>1, <2>3
  <2> QED
    BY <2>2, <2>3
<1> HIDE DEF left, top, len, right, e
<1>11. \A w \in Word : new.size[w] =
         IF w \in gone THEN 0 ELSE IF w = S THEN E - S ELSE m.size[w]
  BY <1>6, <1>7, <1>10, Zenon
<1>12. \A w \in Word : new.next[w] =
         IF w \in gone THEN Null
         ELSE IF w = S THEN (IF E # e THEN m.next[nx] ELSE nx)
         ELSE IF w = it THEN S
         ELSE m.next[w]
  BY <1>6, <1>7, <1>9
<1>13. gone = (IF S # b THEN {b} ELSE {}) \union (IF E # e THEN {nx} ELSE {})
  BY <1>7, <1>9, Zenon DEF gone
<1>14. new \in Headers
  <2>1. E - S \in 0..End /\ 0 \in 0..End
    <3>1. S \in Nat /\ E \in Nat /\ End \in Nat /\ S < E /\ E <= End
      BY <1>4, <1>5, <1>7
    <3> QED
      BY <3>1
  <2>2. \A w \in Word : m.size[w] \in 0..End
    BY <1>1
  <2>3. \A w \in Word : new.size[w] \in 0..End
    BY <1>11, <2>1, <2>2, Zenon
  <2>4. /\ nx \in Word /\ m.next[nx] \in Word \union {Null} /\ S \in Word
        /\ \A w \in Word : m.next[w] \in Word \union {Null}
    BY <1>1, <1>2, <1>4, <1>5
  <2>5. \A w \in Word : new.next[w] \in Word \union {Null}
    BY <1>12, <2>4, Zenon
  <2>6. new.size \in [Word -> 0..End]
    <3>1. new.size = [w \in Word |-> new.size[w]]
      BY <1>6
    <3> QED
      BY <2>3, <3>1
  <2>7. new.next \in [Word -> Word \union {Null}]
    <3>1. new.next = [w \in Word |-> new.next[w]]
      BY <1>6
    <3> QED
      BY <2>5, <3>1
  <2> QED
    BY <1>1, <1>6, <2>6, <2>7 DEF Headers
<1> QED
  BY <1>3, <1>4, <1>6, <1>7, <1>9, <1>11, <1>12, <1>13, <1>14
     DEF s, u, S, E, it, nx, e, new, top

\* prvInsertBlockIntoFreeList writes to no header of a block that others hold.
LEMMA InsertFrame ==
  ASSUME NEW m, NEW A, Kept(m, A), NEW b \in A
  PROVE  \A a \in A \ {b} : prvInsertBlockIntoFreeList(m, b).next[a] = m.next[a]
<1> DEFINE F   == FreeOf(m, A)
           S   == JoinStart(Sizes(m), Owners(A), b)
           E   == JoinEnd(Sizes(m), Owners(A), b)
           it  == Iterator(m, b)
           nx  == m.next[it]
           gone == (IF S # b THEN {b} ELSE {})
                     \union (IF E # b + m.size[b] THEN {nx} ELSE {})
           new == prvInsertBlockIntoFreeList(m, b)
<1>1. /\ F \in SUBSET Addr /\ A \in SUBSET Addr /\ Chained(m, F)
      /\ \A a \in Addr : a \in F => a \notin A
  BY KeptFacts
<1>2. Word = Addr \union {-2, End} /\ \A a \in Addr : a # End /\ a # -2
  BY Addresses
<1>3. it \in F \union {-2} /\ nx \in F \union {End}
  BY <1>1, IteratorFacts
<1>4. /\ \A w \in Word : new.next[w] =
           IF w \in gone THEN Null
           ELSE IF w = S THEN (IF E # b + m.size[b] THEN m.next[nx] ELSE nx)
           ELSE IF w = it THEN S
           ELSE m.next[w]
      /\ S # b => S = it
  BY InsertResult
<1> HIDE DEF F, S, E, it, nx, new
<1>5. ASSUME NEW a \in A, a # b
      PROVE  a \in Word /\ a \notin gone /\ a # S /\ a # it
  BY <1>1, <1>2, <1>3, <1>4, <1>5
<1> HIDE DEF gone
<1>6. \A a \in A \ {b} : new.next[a] = m.next[a]
  BY <1>4, <1>5
<1> QED
  BY <1>6 DEF new

\* prvInsertBlockIntoFreeList changes the sizes as Heap's Free does.
LEMMA InsertSizes ==
  ASSUME NEW m, NEW A, Kept(m, A), NEW b \in A
  PROVE  Sizes(prvInsertBlockIntoFreeList(m, b)) = Joined(Sizes(m), Owners(A), b)
<1> DEFINE s    == Sizes(m)
           u    == Owners(A)
           S    == JoinStart(s, u, b)
           E    == JoinEnd(s, u, b)
           it   == Iterator(m, b)
           nx   == m.next[it]
           e    == b + m.size[b]
           gone == (IF S # b THEN {b} ELSE {}) \union (IF E # e THEN {nx} ELSE {})
           new  == prvInsertBlockIntoFreeList(m, b)
<1>1. /\ b \in Addr /\ s[b] # 0
      /\ \A a \in Addr : s[a] = m.size[a] /\ m.size[a] \in Nat
  BY KeptFacts
<1>2. Shape(s, u)
  BY DEF Kept
<1>3. /\ \A w \in Word : new.size[w] =
           IF w \in gone THEN 0 ELSE IF w = S THEN E - S ELSE m.size[w]
      /\ S # b => S = it /\ it \in Addr
      /\ S \in Addr /\ S <= b /\ b < E /\ E \in Nat /\ E <= End /\ b < nx
      /\ E # e => nx \in Addr /\ nx = e /\ E = nx + m.size[nx]
  BY InsertResult
<1>4. /\ \A a \in Addr : a \in Nat /\ a < End /\ a \in Word
  BY Addresses
<1>5. \A a \in Addr : Joined(s, u, b)[a] =
        IF a = S THEN E - a ELSE IF S < a /\ a < E THEN 0 ELSE s[a]
  BY DEF Joined
<1>6. \A a \in Addr : s[a] # 0 /\ S < a /\ a < E =>
        a = b \/ (a = b + s[b] /\ IsFree(s, u, b + s[b]))
  BY <1>1, <1>2, JoinInside
<1>7. IsFree(s, u, b + s[b]) =>
        E = (b + s[b]) + s[b + s[b]] /\ s[b + s[b]] # 0 /\ b + s[b] \in Addr
  BY DEF JoinEnd, IsFree, IsBlock
<1>8. b \in Nat /\ b < e /\ e = b + s[b] /\ e \in Nat
  BY <1>1, <1>4
<1> HIDE DEF s, u, S, E, it, nx, e, new
<1>9. ASSUME NEW a \in Addr
      PROVE  new.size[a] = Joined(s, u, b)[a]
  <2>0. a \in Word /\ a \in Nat /\ S \in Nat
    BY <1>3, <1>4
  <2>1. CASE a = S
    <3>1. a \notin gone
      BY <1>3, <1>4, <1>8, <2>0, <2>1
    <3> QED
      BY <1>3, <1>5, <2>0, <2>1, <3>1
  <2>2. CASE a # S /\ a \in gone
    <3>1. CASE a = b
      <4>1. S < a /\ a < E
        BY <1>3, <1>8, <2>0, <2>2, <3>1
      <4> QED
        BY <1>3, <1>5, <2>0, <2>2, <4>1
    <3>2. CASE a # b
      <4>1. E # e /\ a = nx /\ nx = e /\ E = nx + m.size[nx]
        BY <1>3, <2>2, <3>2
      <4>2. m.size[nx] \in Nat /\ m.size[nx] # 0
        BY <1>1, <1>3, <1>8, <4>1
      <4>3. S < a /\ a < E
        BY <1>3, <1>8, <2>0, <4>1, <4>2
      <4> QED
        BY <1>3, <1>5, <2>0, <2>2, <4>3
    <3> QED
      BY <3>1, <3>2
  <2>3. CASE a # S /\ a \notin gone
    <3>1. new.size[a] = s[a]
      BY <1>1, <1>3, <2>0, <2>3
    <3>2. CASE S < a /\ a < E
      <4>1. SUFFICES ASSUME s[a] # 0 PROVE FALSE
        BY <1>5, <2>3, <3>1, <3>2
      <4>2. a = b \/ (a = b + s[b] /\ IsFree(s, u, b + s[b]))
        BY <1>6, <3>2, <4>1
      <4>3. CASE a = b
        BY <2>3, <4>3
      <4>4. CASE a = b + s[b] /\ IsFree(s, u, b + s[b])
        <5>1. E = e + s[e] /\ s[e] # 0 /\ e \in Addr /\ a = e
          BY <1>7, <1>8, <4>4
        <5>2. s[e] \in Nat
          BY <1>1, <5>1
        <5>3. E # e
          BY <1>8, <5>1, <5>2
        <5> QED
          BY <1>3, <2>3, <5>1, <5>3
      <4> QED
        BY <4>2, <4>3, <4>4
    <3>3. CASE ~(S < a /\ a < E)
      BY <1>5, <2>3, <3>1, <3>3
    <3> QED
      BY <3>2, <3>3
  <2> QED
    BY <2>1, <2>2, <2>3
<1>10. Joined(s, u, b) = [a \in Addr |-> Joined(s, u, b)[a]]
  BY DEF Joined
<1>11. Sizes(new) = [a \in Addr |-> new.size[a]]
  BY DEF Sizes
<1>12. Sizes(new) = Joined(s, u, b)
  <2> HIDE DEF gone
  <2> QED
    BY <1>9, <1>10, <1>11
<1> QED
  BY <1>12 DEF s, u, new

\* After prvInsertBlockIntoFreeList of a block that was not free, the list leads
\* through the free blocks and the new one.
LEMMA InsertChained ==
  ASSUME NEW m, NEW A, Kept(m, A), NEW b \in A
  PROVE  LET new == prvInsertBlockIntoFreeList(m, b)
         IN  Chained(new, FreeOf(new, A \ {b}))
<1> DEFINE s    == Sizes(m)
           u    == Owners(A)
           S    == JoinStart(s, u, b)
           E    == JoinEnd(s, u, b)
           F    == FreeOf(m, A)
           it   == Iterator(m, b)
           nx   == m.next[it]
           e    == b + m.size[b]
           gone == (IF S # b THEN {b} ELSE {}) \union (IF E # e THEN {nx} ELSE {})
           new  == prvInsertBlockIntoFreeList(m, b)
           G    == FreeOf(new, A \ {b})
<1>1. /\ b \in Addr /\ s[b] # 0 /\ F \in SUBSET Addr /\ Chained(m, F)
      /\ \A a \in Addr : s[a] = m.size[a] /\ m.size[a] \in Nat
      /\ \A a \in Addr : a \in F <=> s[a] # 0 /\ a \notin A
      /\ m.size[End] = 0
  BY KeptFacts
<1>2. /\ it \in F \union {-2} /\ it \in Int /\ it < b
      /\ nx \in F \union {End} /\ nx \in Int
      /\ \A a \in F : a <= it \/ nx <= a
  BY <1>1, IteratorFacts
<1>3. /\ \A w \in Word : new.size[w] =
           IF w \in gone THEN 0 ELSE IF w = S THEN E - S ELSE m.size[w]
      /\ \A w \in Word : new.next[w] =
           IF w \in gone THEN Null
           ELSE IF w = S THEN (IF E # e THEN m.next[nx] ELSE nx)
           ELSE IF w = it THEN S
           ELSE m.next[w]
      /\ S # b => S = it /\ it \in Addr
      /\ S \in Addr /\ S <= b /\ b < E /\ E \in Nat /\ E <= End /\ b < nx
      /\ E # e => nx \in Addr /\ nx = e /\ E = nx + m.size[nx]
  BY InsertResult
<1>4. /\ \A a \in Addr : a \in Nat /\ a < End /\ a \in Word
      /\ End \in Nat /\ Start = -2 /\ -2 \in Word /\ End \notin Addr
  BY Addresses
<1>5. \A p \in F \union {-2} :
        /\ p \in Int /\ p < m.next[p] /\ m.next[p] \in F \union {End}
        /\ m.next[p] \in Int
        /\ \A a \in F : a <= p \/ m.next[p] <= a
  BY <1>1, ChainFacts
<1>6. \A a \in Addr : a \in G <=> new.size[a] # 0 /\ a \notin A \ {b}
  BY DEF FreeOf
<1>7. G \in SUBSET Addr
  BY DEF FreeOf
<1>8. b \in Nat /\ S \in Nat /\ b \notin F /\ nx \notin {b, S, -2} /\ it # b
  BY <1>1, <1>2, <1>3, <1>4
<1> HIDE DEF s, u, S, E, F, it, nx, e, new, G
<1>9. S \notin gone /\ -2 \notin gone
  BY <1>3, <1>4, <1>8
<1>10. S \in G
  <2>1. new.size[S] = E - S /\ E - S # 0
    BY <1>3, <1>4, <1>8, <1>9
  <2>2. S # b => S \notin A
    BY <1>1, <1>2, <1>3, <1>4
  <2> QED
    BY <1>3, <1>6, <2>1, <2>2
<1>11. \A a \in Addr : a # S => (a \in G <=> a \in F /\ a \notin gone)
  <2> SUFFICES ASSUME NEW a \in Addr, a # S
               PROVE  a \in G <=> a \in F /\ a \notin gone
    OBVIOUS
  <2>1. CASE a \in gone
    <3>1. new.size[a] = 0
      BY <1>3, <1>4, <2>1
    <3> QED
      BY <1>6, <2>1, <3>1
  <2>2. CASE a \notin gone
    <3>1. new.size[a] = m.size[a] /\ a # b
      BY <1>3, <1>4, <2>2
    <3> QED
      BY <1>1, <1>6, <2>2, <3>1
  <2> QED
    BY <2>1, <2>2
<1>12. ASSUME NEW p \in G \union {-2}
       PROVE  /\ p < new.next[p] /\ new.next[p] \in G \union {End}
              /\ \A a \in G : ~(p < a /\ a < new.next[p])
  <2>0. p \in Word /\ p \in Int /\ p \notin gone
    BY <1>4, <1>7, <1>9, <1>11
  <2>1. CASE p = S /\ E # e
    <3>1. new.next[p] = m.next[nx] /\ nx \in F /\ nx \in Addr
      BY <1>2, <1>3, <1>4, <2>0, <2>1
    <3>2. /\ nx < m.next[nx] /\ m.next[nx] \in F \union {End} /\ m.next[nx] \in Int
          /\ \A a \in F : a <= nx \/ m.next[nx] <= a
      BY <1>5, <3>1
    <3>3. S < m.next[nx]
      BY <1>2, <1>3, <1>8, <3>2
    <3>4. m.next[nx] \in G \union {End}
      <4>1. m.next[nx] # S /\ m.next[nx] # b /\ m.next[nx] # nx
        BY <1>2, <1>3, <1>8, <3>2
      <4> QED
        BY <1>1, <1>11, <3>2, <4>1
    <3>5. ASSUME NEW a \in G, S < a, a < m.next[nx] PROVE FALSE
      <4>1. a \in F /\ a \notin gone /\ a \in Nat
        BY <1>4, <1>7, <1>8, <1>11, <3>5
      <4>2. a # nx
        BY <2>1, <4>1
      <4>3. a <= it \/ nx <= a
        BY <1>2, <4>1
      <4>4. it <= S
        BY <1>2, <1>3, <1>8
      <4> QED
        BY <1>2, <1>8, <3>2, <3>5, <4>1, <4>2, <4>3, <4>4
    <3> QED
      BY <2>1, <3>1, <3>3, <3>4, <3>5
  <2>2. CASE p = S /\ E = e
    <3>1. new.next[p] = nx
      BY <1>3, <2>0, <2>2
    <3>2. S < nx
      BY <1>2, <1>3, <1>8
    <3>3. nx \in G \union {End}
      BY <1>1, <1>2, <1>8, <1>11, <2>2
    <3>4. ASSUME NEW a \in G, S < a, a < nx PROVE FALSE
      <4>1. a \in F /\ a \in Nat
        BY <1>4, <1>7, <1>8, <1>11, <3>4
      <4>2. a <= it \/ nx <= a
        BY <1>2, <4>1
      <4>3. it <= S
        BY <1>2, <1>3, <1>8
      <4> QED
        BY <1>2, <1>8, <3>4, <4>1, <4>2, <4>3
    <3> QED
      BY <2>2, <3>1, <3>2, <3>3, <3>4
  <2>3. CASE p # S /\ p = it
    <3>1. S = b /\ new.next[p] = b
      BY <1>3, <2>0, <2>3
    <3>2. ASSUME NEW a \in G, it < a, a < b PROVE FALSE
      <4>1. a \in F /\ a \in Nat
        BY <1>4, <1>7, <1>8, <1>11, <3>1, <3>2
      <4> QED
        BY <1>2, <1>3, <1>8, <3>2, <4>1
    <3> QED
      BY <1>2, <1>10, <2>3, <3>1, <3>2
  <2>4. CASE p # S /\ p # it
    <3>1. new.next[p] = m.next[p]
      BY <1>3, <2>0, <2>4
    <3>2. p \in F \union {-2}
      BY <1>7, <1>11, <2>4
    <3>3. /\ p < m.next[p] /\ m.next[p] \in F \union {End} /\ m.next[p] \in Int
          /\ \A a \in F : a <= p \/ m.next[p] <= a
      BY <1>5, <3>2
    <3>4. CASE p < it
      <4>1. it \in F
        BY <1>2, <1>4, <1>7, <2>0, <3>4
      <4>2. m.next[p] <= it
        BY <1>2, <2>0, <3>3, <3>4, <4>1
      <4>3. m.next[p] \in F /\ m.next[p] \in Addr
        BY <1>1, <1>2, <1>3, <1>4, <3>3, <4>2
      <4>4. m.next[p] \in G
        <5>1. m.next[p] # b /\ m.next[p] # nx
          BY <1>2, <1>3, <1>8, <3>3, <4>2
        <5> QED
          BY <1>10, <1>11, <4>3, <5>1
      <4>5. ASSUME NEW a \in G, p < a, a < m.next[p] PROVE FALSE
        <5>1. a \in Nat /\ a < it
          BY <1>2, <1>4, <1>7, <3>3, <4>2, <4>5
        <5>2. a # S
          BY <1>2, <1>3, <5>1
        <5>3. a \in F
          BY <1>7, <1>11, <5>2
        <5> QED
          BY <2>0, <3>3, <4>5, <5>1, <5>3
      <4> QED
        BY <3>1, <3>3, <4>4, <4>5
    <3>5. CASE ~(p < it)
      <4>1. p \in F /\ nx <= p
        <5>1. -2 <= it
          BY <1>1, <1>2, <1>4
        <5>2. it < p
          BY <1>2, <2>0, <2>4, <3>5
        <5>3. p \in F
          BY <1>2, <3>2, <5>1, <5>2
        <5> QED
          BY <1>2, <2>0, <5>2, <5>3
      <4>2. m.next[p] \in G \union {End}
        <5>1. m.next[p] # b /\ m.next[p] # nx /\ m.next[p] # S
          BY <1>2, <1>3, <1>8, <2>0, <3>3, <4>1
        <5> QED
          BY <1>1, <1>11, <3>3, <5>1
      <4>3. ASSUME NEW a \in G, p < a, a < m.next[p] PROVE FALSE
        <5>1. a \in Nat /\ a # S
          BY <1>2, <1>3, <1>4, <1>7, <1>8, <2>0, <4>1, <4>3
        <5>2. a \in F
          BY <1>7, <1>11, <5>1
        <5> QED
          BY <2>0, <3>3, <4>3, <5>1, <5>2
      <4> QED
        BY <3>1, <3>3, <4>2, <4>3
    <3> QED
      BY <3>4, <3>5
  <2> QED
    BY <2>1, <2>2, <2>3, <2>4
<1>13. Chained(new, G)
  <2> HIDE DEF gone
  <2> QED
    BY <1>4, <1>12 DEF Chained
<1> QED
  BY <1>13 DEF new, G

\* The owners of a set of blocks.
LEMMA OwnersType ==
  ASSUME NEW A
  PROVE  Owners(A) \in [Addr -> BOOLEAN]
<1>1. \A a \in Addr : (a \in A) \in BOOLEAN
  OBVIOUS
<1> QED
  BY <1>1 DEF Owners

\* A block that vPortFree gives back leaves the set of owned blocks.
LEMMA OwnersLess ==
  ASSUME NEW A, NEW b \in Addr
  PROVE  Owners(A \ {b}) = [Owners(A) EXCEPT ![b] = FALSE]
<1>1. /\ Owners(A \ {b}) \in [Addr -> BOOLEAN]
      /\ [Owners(A) EXCEPT ![b] = FALSE] \in [Addr -> BOOLEAN]
  <2>1. Owners(A \ {b}) \in [Addr -> BOOLEAN] /\ Owners(A) \in [Addr -> BOOLEAN]
    BY OwnersType
  <2> QED
    BY <2>1
<1>2. ASSUME NEW a \in Addr
      PROVE  Owners(A \ {b})[a] <=> [Owners(A) EXCEPT ![b] = FALSE][a]
  <2>1. CASE a = b
    BY <2>1 DEF Owners
  <2>2. CASE a # b
    BY <2>2 DEF Owners
  <2> QED
    BY <2>1, <2>2
<1>3. \A a \in Addr : Owners(A \ {b})[a] = [Owners(A) EXCEPT ![b] = FALSE][a]
  BY <1>1, <1>2
<1> QED
  BY <1>1, <1>3

\* A block that pvPortMalloc gives to a caller joins the set of owned blocks.
LEMMA OwnersMore ==
  ASSUME NEW A, NEW b \in Addr
  PROVE  Owners(A \union {b}) = [Owners(A) EXCEPT ![b] = TRUE]
<1>1. /\ Owners(A \union {b}) \in [Addr -> BOOLEAN]
      /\ [Owners(A) EXCEPT ![b] = TRUE] \in [Addr -> BOOLEAN]
  <2>1. Owners(A \union {b}) \in [Addr -> BOOLEAN] /\ Owners(A) \in [Addr -> BOOLEAN]
    BY OwnersType
  <2> QED
    BY <2>1
<1>2. ASSUME NEW a \in Addr
      PROVE  Owners(A \union {b})[a] <=> [Owners(A) EXCEPT ![b] = TRUE][a]
  <2>1. CASE a = b
    BY <2>1 DEF Owners
  <2>2. CASE a # b
    BY <2>2 DEF Owners
  <2> QED
    BY <2>1, <2>2
<1>3. \A a \in Addr : Owners(A \union {b})[a] = [Owners(A) EXCEPT ![b] = TRUE][a]
  BY <1>1, <1>2
<1> QED
  BY <1>1, <1>3

\* prvInsertBlockIntoFreeList keeps the heap for everybody but the owner of the
\* block that it is given.
LEMMA InsertKept ==
  ASSUME NEW m, NEW A, Kept(m, A), NEW b \in A
  PROVE  LET new == prvInsertBlockIntoFreeList(m, b)
         IN  Kept(new, A \ {b}) /\ new.alloc = m.alloc
<1> DEFINE s   == Sizes(m)
           u   == Owners(A)
           new == prvInsertBlockIntoFreeList(m, b)
<1>1. /\ b \in Addr /\ s[b] # 0 /\ u[b] /\ A \in SUBSET Addr
      /\ m.size[End] = 0 /\ m.next[End] = Null
  BY KeptFacts
<1>2. Shape(s, u) /\ JoinedBy(s, u)
  BY DEF Kept
<1>3. Sizes(new) = Joined(s, u, b)
  BY InsertSizes
<1>4. Owners(A \ {b}) = [u EXCEPT ![b] = FALSE]
  BY <1>1, OwnersLess
<1>5. Shape(Sizes(new), Owners(A \ {b})) /\ JoinedBy(Sizes(new), Owners(A \ {b}))
  <2> HIDE DEF s, u, new
  <2> QED
    BY <1>1, <1>2, <1>3, <1>4, JoinedShape, JoinedCoalesced
<1>6. Chained(new, FreeOf(new, A \ {b}))
  BY InsertChained
<1>7. new \in Headers /\ new.alloc = m.alloc
  BY InsertResult
<1>8. new.size[End] = 0 /\ new.next[End] = Null
  <2> DEFINE S  == JoinStart(s, u, b)
             E  == JoinEnd(s, u, b)
             it == Iterator(m, b)
             nx == m.next[it]
  <2>1. /\ \A w \in Word : new.size[w] =
             IF w \in (IF S # b THEN {b} ELSE {})
                        \union (IF E # b + m.size[b] THEN {nx} ELSE {})
               THEN 0 ELSE IF w = S THEN E - S ELSE m.size[w]
        /\ \A w \in Word : new.next[w] =
             IF w \in (IF S # b THEN {b} ELSE {})
                        \union (IF E # b + m.size[b] THEN {nx} ELSE {})
               THEN Null
             ELSE IF w = S THEN (IF E # b + m.size[b] THEN m.next[nx] ELSE nx)
             ELSE IF w = it THEN S
             ELSE m.next[w]
        /\ S \in Addr
        /\ E # b + m.size[b] => nx \in Addr
    BY InsertResult
  <2>2. it # End
    <3>1. /\ FreeOf(m, A) \in SUBSET Addr /\ Chained(m, FreeOf(m, A))
          /\ \A a \in FreeOf(m, A) \union {-2} : a # End
      BY KeptFacts
    <3> QED
      BY <1>1, <3>1, IteratorFacts
  <2>3. End \in Word /\ End \notin Addr
    BY Addresses
  <2> HIDE DEF S, E, it, nx, new
  <2> QED
    BY <1>1, <2>1, <2>2, <2>3
<1>9. A \ {b} \in SUBSET Addr
  BY <1>1
<1> QED
  BY <1>5, <1>6, <1>7, <1>8, <1>9 DEF Kept

-----------------------------------------------------------------------------
(* The counters of free bytes. *)

\* The units that lie in free blocks.
Units(s, u) ==
  {x \in Addr : \E a \in Addr : IsFree(s, u, a) /\ a <= x /\ x < a + s[a]}

\* There are finitely many units, and disjoint sets of them add up.
LEMMA CountUnits ==
  ASSUME NEW T \in SUBSET Addr, NEW I \in SUBSET Addr, T \intersect I = {}
  PROVE  /\ Cardinality(T) \in Nat /\ Cardinality(I) \in Nat
         /\ Cardinality(T \union I) = Cardinality(T) + Cardinality(I)
<1>1. 0 \in Int /\ End - 1 \in Int
  BY Addresses
<1>2. IsFiniteSet(Addr)
  BY <1>1, FS_Interval DEF Addr
<1>3. IsFiniteSet(I) /\ IsFiniteSet(T)
  BY <1>2, FS_Subset
<1>4. Cardinality(I) \in Nat /\ Cardinality(T) \in Nat
  BY <1>3, FS_CardinalityType
<1>5. Cardinality(T \intersect I) = 0
  BY FS_EmptySet
<1>6. Cardinality(T \union I) =
        Cardinality(T) + Cardinality(I) - Cardinality(T \intersect I)
  BY ONLY <1>3, FS_Union
<1> QED
  BY <1>4, <1>5, <1>6

\* The number of units of a block.
LEMMA CountStretch ==
  ASSUME NEW b \in Nat, NEW k \in Nat
  PROVE  Cardinality(b..(b + k - 1)) = k
<1>1. b \in Int /\ b + k - 1 \in Int
  OBVIOUS
<1>2. Cardinality(b..(b + k - 1)) = IF b > b + k - 1 THEN 0 ELSE (b + k - 1) - b + 1
  BY ONLY <1>1, FS_Interval
<1> QED
  BY <1>2

\* pvPortMalloc takes as many units from the free ones as the block has that it
\* returns, and these are no less than the request and a header.
LEMMA SplitUnits ==
  ASSUME NEW s, NEW u, Shape(s, u), NEW n \in Nat, NEW b \in Fitting(s, u, n)
  PROVE  LET t == Split(s, b, n)
             v == [u EXCEPT ![b] = TRUE]
         IN  /\ Cardinality(Units(s, u)) \in Nat /\ Cardinality(Units(t, v)) \in Nat
             /\ Cardinality(Units(s, u)) = Cardinality(Units(t, v)) + t[b]
             /\ t[b] \in Nat /\ n + 1 <= t[b]
<1> DEFINE t == Split(s, b, n)
           v == [u EXCEPT ![b] = TRUE]
           r == b + n + 1
<1>1. /\ b \in Addr /\ s[b] # 0 /\ ~u[b] /\ s[b] >= n + 1
      /\ s \in [Addr -> 0..End] /\ TiledBy(s) /\ u \in [Addr -> BOOLEAN]
      /\ \A a \in Addr : a \in Nat /\ a < End /\ s[a] \in Nat
      /\ IsFree(s, u, b) /\ End \in Nat
  BY Addresses DEF Shape, Fitting, IsFree, IsBlock
<1>2. /\ b + s[b] <= End
      /\ \A c \in Addr : s[c] # 0 /\ c # b => (c + s[c] <= b \/ b + s[b] <= c)
      /\ \A c \in Addr : b < c /\ c < b + s[b] => s[c] = 0
  BY <1>1, TileFacts
<1>3. v[b] /\ \A a \in Addr : a # b => (v[a] <=> u[a])
  BY <1>1
<1>4. \/ t = s
      \/ /\ r \in Addr /\ b < r /\ r < b + s[b] /\ t[b] = n + 1
         /\ t[r] = s[b] - (n + 1) /\ r = b + t[b]
         /\ \A a \in Addr : a # b /\ a # r => t[a] = s[a]
  <2>1. CASE ~(s[b] - (n + 1) > MinBlock)
    BY <2>1 DEF Split
  <2>2. CASE s[b] - (n + 1) > MinBlock
    <3>1. r \in Addr /\ b < r /\ r < b + s[b]
      BY <1>1, <1>2, <2>2, Addresses DEF MinBlock
    <3>2. t = [s EXCEPT ![b] = n + 1, ![r] = s[b] - (n + 1)]
      BY <2>2 DEF Split
    <3> HIDE DEF t
    <3>3. /\ t[b] = n + 1 /\ t[r] = s[b] - (n + 1)
          /\ \A a \in Addr : a # b /\ a # r => t[a] = s[a]
      BY <1>1, <3>1, <3>2
    <3>4. r = b + t[b]
      BY <1>1, <3>3
    <3> QED
      BY <3>1, <3>3, <3>4
  <2> QED
    BY <2>1, <2>2
<1>5. \A a, x : IsFree(s, u, a) <=> a \in Addr /\ s[a] # 0 /\ ~u[a]
  BY DEF IsFree, IsBlock
<1>6. \A a, x : IsFree(t, v, a) <=> a \in Addr /\ t[a] # 0 /\ ~v[a]
  BY DEF IsFree, IsBlock
<1> HIDE DEF t, v
<1>7. t[b] \in Nat /\ n + 1 <= t[b] /\ t[b] <= s[b] /\ b \in Nat /\ s[b] \in Nat
  BY <1>1, <1>4
<1>8. Units(s, u) \in SUBSET Addr /\ Units(t, v) \in SUBSET Addr
  BY DEF Units
<1>9. ASSUME NEW x \in Units(t, v)
      PROVE  x \in Units(s, u) /\ x \notin b..(b + t[b] - 1)
  <2>1. PICK a \in Addr : t[a] # 0 /\ ~v[a] /\ a <= x /\ x < a + t[a]
    BY <1>6, <1>9 DEF Units
  <2>2. a # b /\ ~u[a] /\ x \in Nat /\ x \in Addr /\ a \in Nat
    BY <1>1, <1>3, <1>8, <1>9, <2>1
  <2>3. CASE s[a] # 0 /\ t[a] = s[a]
    <3>1. x \in Units(s, u)
      BY <1>5, <2>1, <2>2, <2>3 DEF Units
    <3>2. a + s[a] <= b \/ b + s[b] <= a
      BY <1>2, <2>2, <2>3
    <3>3. ~(b <= x /\ x <= b + t[b] - 1)
      BY <1>1, <1>7, <2>1, <2>2, <2>3, <3>2
    <3> QED
      BY <3>1, <3>3
  <2>4. CASE ~(s[a] # 0 /\ t[a] = s[a])
    <3>1. a = r /\ r = b + t[b] /\ t[r] = s[b] - (n + 1) /\ t[b] = n + 1
      BY <1>4, <2>1, <2>2, <2>4
    <3>2. b <= x /\ x < b + s[b] /\ ~(x <= b + t[b] - 1)
      BY <1>1, <1>7, <2>1, <2>2, <3>1
    <3>3. x \in Units(s, u)
      BY <1>1, <2>2, <3>2 DEF Units
    <3> QED
      BY <3>2, <3>3
  <2> QED
    BY <2>3, <2>4
<1>10. ASSUME NEW x \in b..(b + t[b] - 1)
       PROVE  x \in Units(s, u)
  <2>1. x \in Nat /\ b <= x /\ x < b + s[b] /\ x \in Addr
    BY <1>1, <1>2, <1>7, Addresses
  <2> QED
    BY <1>1, <2>1 DEF Units
<1>11. ASSUME NEW x \in Units(s, u), x \notin b..(b + t[b] - 1)
       PROVE  x \in Units(t, v)
  <2>1. PICK a \in Addr : s[a] # 0 /\ ~u[a] /\ a <= x /\ x < a + s[a]
    BY <1>5, <1>11 DEF Units
  <2>2. x \in Addr /\ x \in Nat /\ ~(b <= x /\ x < b + t[b])
    <3>1. x \in Addr /\ x \in Nat
      BY <1>1, <1>8, <1>11
    <3>2. b <= x /\ x < b + t[b] => x \in b..(b + t[b] - 1)
      BY <1>7, <3>1
    <3> QED
      BY <1>11, <3>1, <3>2
  <2>3. CASE a # b
    <3>1. s[a] = t[a]
      BY <1>2, <1>4, <2>1, <2>3
    <3>2. IsFree(t, v, a)
      BY <1>3, <1>6, <2>1, <2>3, <3>1
    <3> QED
      BY <2>1, <2>2, <3>1, <3>2 DEF Units
  <2>4. CASE a = b
    <3>1. b + t[b] <= x /\ x < b + s[b]
      BY <1>1, <1>7, <2>1, <2>2, <2>4
    <3>2. t # s
      BY <1>1, <3>1, <2>2
    <3>3. /\ r \in Addr /\ r = b + t[b] /\ t[r] = s[b] - (n + 1) /\ t[b] = n + 1
          /\ b < r /\ r < b + s[b]
      BY <1>4, <3>2
    <3>4. s[r] = 0
      BY <1>2, <3>3
    <3>5. ~u[r]
      BY <3>3, <3>4 DEF Shape
    <3>6. IsFree(t, v, r) /\ r <= x /\ x < r + t[r]
      <4>1. r <= x /\ x < r + t[r] /\ t[r] # 0 /\ r # b
        BY <1>1, <1>7, <2>2, <3>1, <3>3
      <4> QED
        BY <1>3, <1>6, <3>3, <3>5, <4>1
    <3> QED
      BY <2>2, <3>3, <3>6 DEF Units
  <2> QED
    BY <2>3, <2>4
<1>12. Units(s, u) = Units(t, v) \union b..(b + t[b] - 1)
  BY <1>9, <1>10, <1>11
<1>13. Units(t, v) \intersect (b..(b + t[b] - 1)) = {}
  BY <1>9
<1>14. /\ Cardinality(Units(s, u)) \in Nat /\ Cardinality(Units(t, v)) \in Nat
       /\ Cardinality(Units(s, u)) = Cardinality(Units(t, v)) + t[b]
  <2> DEFINE Y == Units(t, v)
             I == b..(b + t[b] - 1)
  <2>1. I \in SUBSET Addr
    BY <1>8, <1>10, <1>12
  <2>2. Y \in SUBSET Addr /\ Y \intersect I = {} /\ Units(s, u) = Y \union I
    BY <1>1, <1>7, <1>8, <1>12, <1>13
  <2>3. Cardinality(I) = t[b]
    BY <1>7, <1>9, CountStretch
  <2> HIDE DEF Y, I
  <2>4. /\ Cardinality(Y) \in Nat /\ Cardinality(I) \in Nat
        /\ Cardinality(Y \union I) = Cardinality(Y) + Cardinality(I)
    BY <2>1, <2>2, CountUnits
  <2>5. /\ Cardinality(Units(s, u)) = Cardinality(Y) + t[b] /\ Cardinality(Y) + t[b] \in Nat
    BY <2>2, <2>3, <2>4
  <2> QED
    BY <2>4, <2>5 DEF Y
<1> QED
  BY <1>7, <1>14 DEF t, v

\* vPortFree gives back as many units as the block had.
LEMMA JoinUnits ==
  ASSUME NEW s, NEW u, Shape(s, u), NEW b \in Addr, s[b] # 0, u[b]
  PROVE  LET t == Joined(s, u, b)
             v == [u EXCEPT ![b] = FALSE]
         IN  /\ Cardinality(Units(t, v)) \in Nat /\ Cardinality(Units(s, u)) \in Nat
             /\ Cardinality(Units(t, v)) = Cardinality(Units(s, u)) + s[b]
<1> DEFINE t == Joined(s, u, b)
           v == [u EXCEPT ![b] = FALSE]
           S == JoinStart(s, u, b)
           E == JoinEnd(s, u, b)
           e == b + s[b]
<1>1. /\ s \in [Addr -> 0..End] /\ TiledBy(s) /\ u \in [Addr -> BOOLEAN]
      /\ \A a \in Addr : a \in Nat /\ a < End /\ s[a] \in Nat
      /\ End \in Nat
  BY Addresses DEF Shape
<1>2. /\ b + s[b] <= End
      /\ \A c \in Addr : s[c] # 0 /\ c # b => (c + s[c] <= b \/ b + s[b] <= c)
  BY <1>1, TileFacts
<1>3. /\ S \in Addr /\ s[S] # 0 /\ S <= b
      /\ E \in Nat /\ b < E /\ E <= End
      /\ S # b => ~u[S] /\ S + s[S] = b
      /\ \/ E = e /\ ~IsFree(s, u, E)
         \/ IsFree(s, u, e) /\ E = e + s[e]
  BY JoinFacts
<1>4. \A a \in Addr : t[a] =
        IF a = S THEN E - a ELSE IF S < a /\ a < E THEN 0 ELSE s[a]
  BY DEF Joined
<1>5. ~v[b] /\ \A a \in Addr : a # b => (v[a] <=> u[a])
  BY <1>1
<1>6. \A a : IsFree(s, u, a) <=> a \in Addr /\ s[a] # 0 /\ ~u[a]
  BY DEF IsFree, IsBlock
<1>7. \A a : IsFree(t, v, a) <=> a \in Addr /\ t[a] # 0 /\ ~v[a]
  BY DEF IsFree, IsBlock
<1>8. \A c \in Addr : s[c] # 0 /\ S < c /\ c < E => c = b \/ (c = e /\ IsFree(s, u, e))
  BY JoinInside
<1>9. b \in Nat /\ s[b] \in Nat /\ e \in Nat /\ b < e /\ S \in Nat
  BY <1>1, <1>3
<1> HIDE DEF t, v, S, E
<1>10. Units(s, u) \in SUBSET Addr /\ Units(t, v) \in SUBSET Addr
  BY DEF Units
<1>11. IsFree(t, v, S) /\ S + t[S] = E
  <2>1. t[S] = E - S /\ E - S # 0 /\ S + (E - S) = E
    BY <1>3, <1>4, <1>9
  <2>2. ~v[S]
    BY <1>3, <1>5
  <2> QED
    BY <1>3, <1>7, <2>1, <2>2
<1>12. ASSUME NEW x \in Units(s, u)
       PROVE  x \in Units(t, v) /\ x \notin b..(b + s[b] - 1)
  <2>1. PICK a \in Addr : s[a] # 0 /\ ~u[a] /\ a <= x /\ x < a + s[a]
    BY <1>6, <1>12 DEF Units
  <2>2. a # b /\ x \in Addr /\ x \in Nat /\ a \in Nat /\ s[a] \in Nat
    BY <1>1, <1>10, <1>12, <2>1
  <2>3. a + s[a] <= b \/ b + s[b] <= a
    BY <1>2, <2>1, <2>2
  <2>4. ~(b <= x /\ x <= b + s[b] - 1)
    BY <1>9, <2>1, <2>2, <2>3
  <2>5. CASE S <= a /\ a < E
    <3>1. S <= x /\ x < E
      <4>1. CASE a = S
        BY <1>3, <1>9, <2>1, <2>2, <4>1
      <4>2. CASE a # S
        <5>1. a = e /\ IsFree(s, u, e)
          BY <1>8, <1>9, <2>1, <2>2, <2>5, <4>2
        <5>2. E = e + s[e]
          BY <1>3, <5>1
        <5> QED
          BY <1>9, <2>1, <2>2, <2>5, <5>1, <5>2
      <4> QED
        BY <4>1, <4>2
    <3> QED
      BY <1>3, <1>11, <2>2, <2>4, <3>1 DEF Units
  <2>6. CASE ~(S <= a /\ a < E)
    <3>1. t[a] = s[a]
      BY <1>3, <1>4, <1>9, <2>2, <2>6
    <3>2. IsFree(t, v, a)
      BY <1>5, <1>7, <2>1, <2>2, <3>1
    <3> QED
      BY <2>1, <2>2, <2>4, <3>1, <3>2 DEF Units
  <2> QED
    BY <2>5, <2>6
<1>13. ASSUME NEW x \in b..(b + s[b] - 1)
       PROVE  x \in Units(t, v)
  <2>1. x \in Nat /\ b <= x /\ x < e /\ x \in Addr
    BY <1>1, <1>2, <1>9, Addresses
  <2>2. e <= E
    <3>1. IsFree(s, u, e) => s[e] \in Nat
      BY <1>1, <1>6
    <3> QED
      BY <1>3, <1>9, <3>1
  <2>3. S <= x /\ x < S + t[S]
    BY <1>3, <1>9, <1>11, <2>1, <2>2
  <2> QED
    BY <1>3, <1>11, <2>1, <2>3 DEF Units
<1>14. ASSUME NEW x \in Units(t, v), x \notin b..(b + s[b] - 1)
       PROVE  x \in Units(s, u)
  <2>1. PICK a \in Addr : t[a] # 0 /\ ~v[a] /\ a <= x /\ x < a + t[a]
    BY <1>7, <1>14 DEF Units
  <2>2. x \in Addr /\ x \in Nat /\ a \in Nat /\ ~(b <= x /\ x < e)
    <3>1. x \in Addr /\ x \in Nat /\ a \in Nat
      BY <1>1, <1>10, <1>14
    <3>2. b <= x /\ x < e => x \in b..(b + s[b] - 1)
      BY <1>9, <3>1
    <3> QED
      BY <1>14, <3>1, <3>2
  <2>3. CASE a # S
    <3>1. t[a] = s[a] /\ ~(S < a /\ a < E)
      BY <1>4, <2>1, <2>3
    <3>2. a # b
      BY <1>3, <1>9, <2>3, <3>1
    <3>3. IsFree(s, u, a)
      BY <1>5, <1>6, <2>1, <3>1, <3>2
    <3> QED
      BY <2>1, <2>2, <3>1, <3>3 DEF Units
  <2>4. CASE a = S
    <3>1. S <= x /\ x < E
      BY <1>11, <2>1, <2>4
    <3>2. CASE x < b
      <4>1. S # b /\ x < S + s[S]
        BY <1>3, <1>9, <2>2, <3>1, <3>2
      <4>2. IsFree(s, u, S)
        BY <1>3, <1>6, <4>1
      <4> QED
        BY <1>3, <2>2, <3>1, <4>1, <4>2 DEF Units
    <3>3. CASE ~(x < b)
      <4>1. e <= x
        BY <1>9, <2>2, <3>3
      <4>2. E # e
        BY <1>3, <1>9, <2>2, <3>1, <4>1
      <4>3. IsFree(s, u, e) /\ E = e + s[e]
        BY <1>3, <4>2
      <4>4. e \in Addr
        BY <1>6, <4>3
      <4> QED
        BY <2>2, <3>1, <4>1, <4>3, <4>4 DEF Units
    <3> QED
      BY <3>2, <3>3
  <2> QED
    BY <2>3, <2>4
<1>15. Units(t, v) = Units(s, u) \union b..(b + s[b] - 1)
  BY <1>12, <1>13, <1>14
<1>16. Units(s, u) \intersect (b..(b + s[b] - 1)) = {}
  BY <1>12
<1>17. /\ Cardinality(Units(s, u)) \in Nat /\ Cardinality(Units(t, v)) \in Nat
       /\ Cardinality(Units(t, v)) = Cardinality(Units(s, u)) + s[b]
  <2> DEFINE Y == Units(s, u)
             I == b..(b + s[b] - 1)
  <2>1. I \in SUBSET Addr
    BY <1>10, <1>13, <1>15
  <2>2. Y \in SUBSET Addr /\ Y \intersect I = {} /\ Units(t, v) = Y \union I
    BY <1>9, <1>10, <1>15, <1>16
  <2>3. Cardinality(I) = s[b]
    BY <1>7, <1>9, CountStretch
  <2> HIDE DEF Y, I
  <2>4. /\ Cardinality(Y) \in Nat /\ Cardinality(I) \in Nat
        /\ Cardinality(Y \union I) = Cardinality(Y) + Cardinality(I)
    BY <2>1, <2>2, CountUnits
  <2>5. /\ Cardinality(Units(t, v)) = Cardinality(Y) + s[b] /\ Cardinality(Y) + s[b] \in Nat
    BY <2>2, <2>3, <2>4
  <2> QED
    BY <2>4, <2>5 DEF Y
<1> QED
  BY <1>17 DEF t, v

-----------------------------------------------------------------------------
(* pvPortMalloc. *)

\* More owners leave fewer free blocks, and so no free neighbours.
LEMMA MoreOwners ==
  ASSUME NEW s, NEW A, NEW B \in SUBSET Addr, Shape(s, Owners(A)), JoinedBy(s, Owners(A)),
         A \subseteq B, \A b \in B : s[b] # 0
  PROVE  Shape(s, Owners(B)) /\ JoinedBy(s, Owners(B))
<1>1. Owners(B) \in [Addr -> BOOLEAN] /\ Owners(A) \in [Addr -> BOOLEAN]
  BY OwnersType
<1>2. \A a \in Addr : (Owners(A)[a] <=> a \in A) /\ (Owners(B)[a] <=> a \in B)
  BY DEF Owners
<1>3. Shape(s, Owners(B))
  BY <1>1, <1>2 DEF Shape
<1>4. JoinedBy(s, Owners(B))
  BY <1>2 DEF JoinedBy, IsFree, IsBlock
<1> QED
  BY <1>3, <1>4

\* The block behind link p is taken out of the list.
LEMMA OutChained ==
  ASSUME NEW m, NEW F \in SUBSET Addr, Chained(m, F),
         m.next \in [Word -> Word \union {Null}],
         NEW p \in F \union {-2}, NEW b \in F, b = m.next[p],
         NEW k, k.next = [m.next EXCEPT ![p] = m.next[b]]
  PROVE  Chained(k, F \ {b})
<1>1. \A q \in F \union {-2} :
        /\ q \in Int /\ q < m.next[q] /\ m.next[q] \in F \union {End}
        /\ m.next[q] \in Int
        /\ \A a \in F : a <= q \/ m.next[q] <= a
  BY ChainFacts
<1>2. /\ \A a \in F : a \in Nat
      /\ b \in Nat /\ F \union {-2} \subseteq Word /\ Start = -2
  BY Addresses
<1>3. \A q \in F \union {-2} : k.next[q] = IF q = p THEN m.next[b] ELSE m.next[q]
  BY <1>2
<1>4. ASSUME NEW q \in {-2} \union (F \ {b})
      PROVE  /\ q < k.next[q] /\ k.next[q] \in (F \ {b}) \union {End}
             /\ \A a \in F \ {b} : ~(q < a /\ a < k.next[q])
  <2>1. CASE q = p
    <3>1. k.next[q] = m.next[b]
      BY <1>3, <2>1
    <3>2. /\ p \in Int /\ p < b /\ \A a \in F : a <= p \/ b <= a
      BY <1>1
    <3>3. /\ b < m.next[b] /\ m.next[b] \in F \union {End} /\ m.next[b] \in Int
          /\ \A a \in F : a <= b \/ m.next[b] <= a
      BY <1>1
    <3>4. p < m.next[b] /\ m.next[b] # b
      BY <1>2, <3>2, <3>3
    <3>5. ASSUME NEW a \in F \ {b}, p < a, a < m.next[b] PROVE FALSE
      <4>1. a \in F /\ a \in Nat /\ a # b
        BY <1>2
      <4>2. (a <= p \/ b <= a) /\ (a <= b \/ m.next[b] <= a)
        BY <3>2, <3>3, <4>1
      <4> QED
        BY <1>2, <3>2, <3>3, <3>5, <4>1, <4>2
    <3> QED
      BY <2>1, <3>1, <3>3, <3>4, <3>5
  <2>2. CASE q # p
    <3>1. k.next[q] = m.next[q]
      BY <1>3, <2>2
    <3>2. /\ q \in F \union {-2} /\ q \in Int /\ q < m.next[q]
          /\ m.next[q] \in F \union {End}
          /\ m.next[q] \in Int
          /\ \A a \in F : a <= q \/ m.next[q] <= a
      BY <1>1
    <3>3. p \in Int /\ p < b /\ \A a \in F : a <= p \/ b <= a
      BY <1>1
    <3>4. m.next[q] # b
      <4>1. SUFFICES ASSUME m.next[q] = b PROVE FALSE
        OBVIOUS
      <4>2. CASE p < q
        <5>1. q \in F
          BY <1>2, <3>2, <3>3, <4>2
        <5> QED
          BY <3>2, <3>3, <4>1, <4>2, <5>1
      <4>3. CASE q < p
        <5>1. p \in F
          BY <1>2, <3>2, <3>3, <4>3
        <5> QED
          BY <3>2, <3>3, <4>1, <4>3, <5>1
      <4> QED
        BY <2>2, <3>2, <3>3, <4>2, <4>3
    <3>5. \A a \in F : ~(q < a /\ a < m.next[q])
      BY <1>2, <3>2
    <3> QED
      BY <3>1, <3>2, <3>4, <3>5
  <2> QED
    BY <2>1, <2>2
<1> QED
  BY <1>2, <1>4 DEF Chained

\* What becomes of the header of a block that has an owner is of no concern to
\* the list, as long as its size stays.
LEMMA OwnKept ==
  ASSUME NEW m, NEW A, Kept(m, A), NEW b \in A,
         NEW new, new \in Headers, new.next = [m.next EXCEPT ![b] = Null],
         new.size = m.size
  PROVE  Kept(new, A) /\ Sizes(new) = Sizes(m)
<1> DEFINE F == FreeOf(m, A)
<1>1. /\ b \in Addr /\ A \in SUBSET Addr /\ F \in SUBSET Addr
      /\ m.next \in [Word -> Word \union {Null}]
      /\ m.size[End] = 0 /\ m.next[End] = Null
      /\ \A a \in Addr : a \in F => a \notin A
      /\ Chained(m, F)
  BY KeptFacts
<1>2. Word = Addr \union {-2, End} /\ End \notin Addr /\ -2 \notin Addr /\ Start = -2
  BY Addresses
<1>3. Sizes(new) = Sizes(m) /\ FreeOf(new, A) = F
  BY DEF Sizes, FreeOf
<1>4. \A q \in {-2} \union F : new.next[q] = m.next[q]
  <2>1. b \notin F /\ b # -2 /\ {-2} \union F \subseteq Word
    BY <1>1, <1>2
  <2> QED
    BY <1>1, <2>1
<1>5. Chained(new, F)
  <2> HIDE DEF F
  <2> QED
    BY <1>1, <1>2, <1>4 DEF Chained
<1>6. new.size[End] = 0 /\ new.next[End] = Null
  BY <1>1, <1>2
<1> QED
  BY <1>3, <1>5, <1>6 DEF Kept

\* A block without a free neighbour is joined with nothing.
LEMMA JoinNothing ==
  ASSUME NEW t, NEW v, Shape(t, v), NEW r \in Addr, t[r] # 0,
         \A c \in Addr : t[c] # 0 /\ c + t[c] = r => v[c],
         ~IsFree(t, v, r + t[r])
  PROVE  Joined(t, v, r) = t
<1> DEFINE S == JoinStart(t, v, r)
           E == JoinEnd(t, v, r)
<1>1. /\ t \in [Addr -> 0..End] /\ TiledBy(t)
      /\ \A a \in Addr : a \in Nat /\ t[a] \in Nat
  BY Addresses DEF Shape
<1>2. S \in Addr /\ t[S] # 0 /\ (S # r => ~v[S] /\ S + t[S] = r)
  BY JoinFacts
<1>3. S = r
  BY <1>2
<1>4. E = r + t[r]
  BY DEF JoinEnd
<1>5. \A a \in Addr : Joined(t, v, r)[a] =
        IF a = S THEN E - a ELSE IF S < a /\ a < E THEN 0 ELSE t[a]
  BY DEF Joined
<1>6. \A b \in Addr : r < b /\ b < r + t[r] => t[b] = 0
  BY <1>1, TileFacts
<1> HIDE DEF S, E
<1>7. \A a \in Addr : Joined(t, v, r)[a] = t[a]
  <2>1. E - r = t[r]
    BY <1>1, <1>4
  <2> QED
    BY <1>3, <1>4, <1>5, <1>6, <2>1
<1>8. Joined(t, v, r) = [a \in Addr |-> Joined(t, v, r)[a]]
  BY DEF Joined
<1> QED
  BY <1>1, <1>7, <1>8

\* pvPortMalloc takes the block behind link p out of the list, and puts what is
\* too much back: for the other owners nothing changes, and the sizes are those
\* of Heap's Split.
LEMMA TakenKept ==
  ASSUME NEW m, NEW A, Kept(m, A), NEW n \in Nat,
         NEW p \in FreeOf(m, A) \union {-2}, NEW b \in FreeOf(m, A),
         b = m.next[p], m.size[b] >= n + 1
  PROVE  LET new == Taken(m, p, b, n)
         IN  /\ Kept(new, A \union {b}) /\ Sizes(new) = Split(Sizes(m), b, n)
             /\ new.alloc = m.alloc \union {b} /\ b \in Fitting(Sizes(m), Owners(A), n)
             /\ new.size[b] = Split(Sizes(m), b, n)[b]
             /\ new.next[b] = Null /\ \A a \in A : new.next[a] = m.next[a]
<1> DEFINE s   == Sizes(m)
           u   == Owners(A)
           F   == FreeOf(m, A)
           t   == Split(s, b, n)
           D   == A \union {b}
           r   == b + n + 1
           out == [m EXCEPT !.next[p] = m.next[b]]
           k   == [out EXCEPT !.size[r] = m.size[b] - (n + 1), !.size[b] = n + 1]
           cut == IF m.size[b] - (n + 1) > heapMINIMUM_BLOCK_SIZE
                    THEN prvInsertBlockIntoFreeList(k, r) ELSE out
<1>1. /\ s \in [Addr -> 0..End] /\ TiledBy(s) /\ u \in [Addr -> BOOLEAN]
      /\ F \in SUBSET Addr /\ A \in SUBSET Addr /\ Chained(m, F)
      /\ \A a \in Addr : s[a] = m.size[a] /\ m.size[a] \in Nat
      /\ \A a \in Addr : u[a] <=> a \in A
      /\ \A a \in Addr : a \in F <=> s[a] # 0 /\ a \notin A
      /\ \A a : IsFree(s, u, a) <=> a \in F
      /\ \A a \in A : a \in Addr /\ s[a] # 0
      /\ \A a \in F \union {-2} : a # End
      /\ m.next \in [Word -> Word \union {Null}]
      /\ m.size \in [Word -> 0..End]
      /\ m.size[End] = 0 /\ m.next[End] = Null
  BY KeptFacts
<1>2. Shape(s, u) /\ JoinedBy(s, u) /\ m \in Headers
  BY DEF Kept
<1>3. b \in Addr /\ b \in Fitting(s, u, n)
  BY <1>1 DEF Fitting
<1>4. /\ Word = Addr \union {-2, End} /\ End \notin Addr /\ -2 \notin Addr
      /\ \A a \in Addr : a \in Nat /\ a < End
      /\ End \in Nat
  BY Addresses
<1>5. /\ p \in Word /\ b \in Word /\ b \notin A /\ p # End
      /\ m.next[b] \in Word \union {Null}
  BY <1>1, <1>3, <1>4
<1>6. /\ out.next = [m.next EXCEPT ![p] = m.next[b]] /\ out.size = m.size
      /\ out.alloc = m.alloc
  BY <1>2 DEF Headers
<1>7. out \in Headers
  BY <1>2, <1>5 DEF Headers
<1>8. Owners(D) = [u EXCEPT ![b] = TRUE]
  BY <1>3, OwnersMore
<1>9. Shape(t, Owners(D)) /\ JoinedBy(t, Owners(D))
  <2>1. Shape(t, [u EXCEPT ![b] = TRUE])
    BY <1>2, <1>3, SplitShape
  <2>2. JoinedBy(t, [u EXCEPT ![b] = TRUE])
    BY <1>2, <1>3, SplitCoalesced
  <2> HIDE DEF t, u, D
  <2> QED
    BY <1>8, <2>1, <2>2
<1>10. Taken(m, p, b, n) = [cut EXCEPT !.next[b] = Null, !.alloc = @ \union {b}]
  BY DEF Taken
<1>11. D \in SUBSET Addr /\ b \in D
  BY <1>1, <1>3
<1>12. heapMINIMUM_BLOCK_SIZE = MinBlock
  BY DEF heapMINIMUM_BLOCK_SIZE, MinBlock
<1>13. /\ Kept(cut, D) /\ Sizes(cut) = t /\ cut.alloc = m.alloc
       /\ \A a \in A : cut.next[a] = m.next[a]
  <2>0. \A a \in A : out.next[a] = m.next[a]
    <3>1. \A a \in A : a # p /\ a \in Word
      BY <1>1, <1>4, <1>5
    <3> HIDE DEF out
    <3> QED
      BY <1>1, <1>6, <3>1
  <2>1. CASE ~(m.size[b] - (n + 1) > heapMINIMUM_BLOCK_SIZE)
    <3>1. cut = out
      BY <2>1
    <3>2. t = s
      BY <1>1, <1>3, <1>12, <2>1 DEF Split
    <3> HIDE DEF out, cut
    <3>3. Sizes(out) = s
      BY <1>6 DEF Sizes
    <3>4. FreeOf(out, D) = F \ {b}
      BY <1>6 DEF FreeOf
    <3>5. Chained(out, F \ {b})
      BY <1>1, <1>6, OutChained
    <3>6. out.size[End] = 0 /\ out.next[End] = Null
      BY <1>1, <1>4, <1>5, <1>6
    <3>7. Kept(out, D)
      <4> HIDE DEF F, D, s, t
      <4> QED
        BY <1>7, <1>9, <1>11, <3>2, <3>3, <3>4, <3>5, <3>6 DEF Kept
    <3> QED
      BY <1>6, <2>0, <3>1, <3>2, <3>3, <3>7
  <2>2. CASE m.size[b] - (n + 1) > heapMINIMUM_BLOCK_SIZE
    <3> DEFINE B == D \union {r}
    <3>1. b + s[b] <= End /\ (\A c \in Addr : b < c /\ c < b + s[b] => s[c] = 0)
      BY <1>1, <1>3, TileFacts
    <3>2. /\ r \in Addr /\ b < r /\ r < b + s[b] /\ r \in Word
          /\ n + 1 \in 0..End /\ m.size[b] - (n + 1) \in 0..End
          /\ m.size[b] - (n + 1) # 0
      <4>1. /\ r \in Nat /\ b < r /\ r < b + s[b] /\ m.size[b] = s[b]
            /\ s[b] \in Nat /\ b \in Nat
        BY <1>1, <1>3, <1>4, <1>12, <2>2 DEF MinBlock
      <4>2. r \in Addr
        BY <1>4, <3>1, <4>1, Addresses
      <4> QED
        BY <1>4, <1>12, <2>2, <3>1, <4>1, <4>2 DEF MinBlock
    <3>3. s[r] = 0 /\ r \notin A /\ r \notin F /\ r # b
      BY <1>1, <1>4, <3>1, <3>2
    <3>4. t = [s EXCEPT ![b] = n + 1, ![r] = s[b] - (n + 1)]
      BY <1>1, <1>3, <1>12, <2>2 DEF Split
    <3>5. k.next = out.next /\ k.alloc = m.alloc
      BY <1>6, <1>7 DEF Headers
    <3>6. k.size = [m.size EXCEPT ![r] = m.size[b] - (n + 1), ![b] = n + 1]
      <4> HIDE DEF out
      <4> QED
        BY <1>6, <1>7 DEF Headers
    <3>7. k \in Headers
      <4> HIDE DEF out
      <4> QED
        BY <1>5, <1>7, <3>2 DEF Headers
    <3>8. cut = prvInsertBlockIntoFreeList(k, r)
      BY <2>2
    <3> HIDE DEF k, out, cut
    <3>9. \A w \in Word : k.size[w] =
            IF w = b THEN n + 1 ELSE IF w = r THEN m.size[b] - (n + 1) ELSE m.size[w]
      BY <1>1, <3>3, <3>6
    <3>10. \A a \in Addr : t[a] =
             IF a = b THEN n + 1 ELSE IF a = r THEN s[b] - (n + 1) ELSE s[a]
      BY <1>1, <1>3, <3>2, <3>3, <3>4
    <3>11. Sizes(k) = t
      <4>1. \A a \in Addr : k.size[a] = t[a]
        BY <1>1, <1>3, <1>4, <3>9, <3>10
      <4>2. t \in [Addr -> 0..End]
        BY <1>9 DEF Shape
      <4> HIDE DEF t
      <4> QED
        BY <4>1, <4>2 DEF Sizes
    <3>12. FreeOf(k, B) = F \ {b}
      <4>1. ASSUME NEW a \in Addr
            PROVE  k.size[a] # 0 /\ a \notin B <=> a \in F /\ a # b
        BY <1>1, <1>4, <3>3, <3>9
      <4> QED
        BY <1>1, <4>1 DEF FreeOf
    <3>13. Chained(k, F \ {b})
      BY <1>1, <1>6, <3>5, OutChained
    <3>14. k.size[End] = 0 /\ k.next[End] = Null
      BY <1>1, <1>3, <1>4, <1>5, <1>6, <3>2, <3>5, <3>9
    <3>15. t[r] # 0 /\ t[b] # 0 /\ b + t[b] = r /\ r + t[r] = b + s[b]
      BY <1>1, <1>3, <1>4, <3>2, <3>3, <3>10
    <3>16. Shape(t, Owners(B)) /\ JoinedBy(t, Owners(B)) /\ B \in SUBSET Addr
      <4>1. \A a \in B : t[a] # 0
        BY <1>1, <1>4, <3>10, <3>15
      <4>2. B \in SUBSET Addr /\ D \subseteq B
        BY <1>11, <3>2
      <4> HIDE DEF t, B, D
      <4> QED
        BY <1>9, <4>1, <4>2, MoreOwners
    <3>17. Kept(k, B) /\ r \in B
      <4>1. r \in B
        OBVIOUS
      <4> HIDE DEF t, B, D, F
      <4> QED
        BY <3>7, <3>11, <3>12, <3>13, <3>14, <3>16, <4>1 DEF Kept
    <3>18. B \ {r} = D
      BY <3>3
    <3>19. Kept(cut, D) /\ cut.alloc = m.alloc
      <4> HIDE DEF B, D, r
      <4> QED
        BY <3>5, <3>8, <3>17, <3>18, InsertKept
    <3>20. Joined(t, Owners(B), r) = t
      <4>1. \A a \in Addr : Owners(B)[a] <=> a \in B
        BY DEF Owners
      <4>2. ASSUME NEW c \in Addr, t[c] # 0, c + t[c] = r
            PROVE  Owners(B)[c]
        <5>1. t \in [Addr -> 0..End] /\ TiledBy(t) /\ \A a \in Addr : t[a] \in Nat
          BY <1>4, <3>16 DEF Shape
        <5>2. c # b => c + t[c] <= b \/ b + t[b] <= c
          <6> HIDE DEF t
          <6> QED
            BY <1>3, <3>15, <4>2, <5>1, TileFacts
        <5>3. c \in Nat /\ t[c] \in Nat /\ b \in Nat /\ t[b] \in Nat
          BY <1>3, <1>4, <5>1
        <5>4. c = b
          <6> HIDE DEF t
          <6> QED
            BY <3>2, <3>15, <4>2, <5>2, <5>3
        <5> QED
          BY <1>3, <4>1, <5>4
      <4>3. ~IsFree(t, Owners(B), r + t[r])
        <5>1. SUFFICES ASSUME IsFree(t, Owners(B), b + s[b]) PROVE FALSE
          BY <3>15
        <5>2. b + s[b] \in Addr /\ t[b + s[b]] # 0 /\ b + s[b] \notin B
          BY <4>1, <5>1 DEF IsFree, IsBlock
        <5>3. b + s[b] \in F
          BY <1>1, <3>10, <5>2
        <5> QED
          BY <1>1, <1>2, <1>3, <5>3 DEF JoinedBy
      <4> HIDE DEF t, B, r
      <4> QED
        BY <3>2, <3>15, <3>16, <4>2, <4>3, JoinNothing
    <3>21. Sizes(cut) = t
      <4>1. Sizes(cut) = Joined(Sizes(k), Owners(B), r)
        <5> HIDE DEF B, r
        <5> QED
          BY <3>8, <3>17, InsertSizes
      <4> QED
        BY <3>11, <3>20, <4>1
    <3>22. \A a \in A : cut.next[a] = m.next[a]
      <4>1. \A a \in B \ {r} : cut.next[a] = k.next[a]
        <5> HIDE DEF B, r
        <5> QED
          BY <3>8, <3>17, InsertFrame
      <4> QED
        BY <2>0, <3>5, <3>18, <4>1
    <3> QED
      BY <3>19, <3>21, <3>22
  <2> QED
    BY <2>1, <2>2
<1> DEFINE new == [cut EXCEPT !.next[b] = Null, !.alloc = @ \union {b}]
<1>14. /\ Kept(new, D) /\ Sizes(new) = Sizes(cut) /\ new.alloc = cut.alloc \union {b}
       /\ new.size = cut.size
       /\ new.next[b] = Null /\ \A a \in A : new.next[a] = cut.next[a]
  <2>1. cut \in Headers /\ b \in Addr /\ Null \in Word \union {Null}
    BY <1>3, <1>13 DEF Kept
  <2> HIDE DEF cut
  <2>2. new.next = [cut.next EXCEPT ![b] = Null]
    BY <2>1 DEF Headers
  <2>3. new.size = cut.size
    BY <2>1 DEF Headers
  <2>4. new.alloc = cut.alloc \union {b}
    BY <2>1 DEF Headers
  <2>5. new \in Headers
    BY <1>5, <2>1 DEF Headers
  <2>6. new.next[b] = Null /\ \A a \in A : new.next[a] = cut.next[a]
    <3>1. cut.next \in [Word -> Word \union {Null}]
      BY <2>1 DEF Headers
    <3>2. \A a \in A : a # b /\ a \in Word
      BY <1>1, <1>4, <1>5
    <3> HIDE DEF new
    <3> QED
      BY <1>5, <2>2, <3>1, <3>2
  <2> HIDE DEF D, new
  <2> QED
    BY <1>11, <1>13, <2>2, <2>3, <2>4, <2>5, <2>6, OwnKept
<1> HIDE DEF cut, new
<1>15. new.size[b] = t[b]
  <2>1. Sizes(new)[b] = new.size[b]
    BY <1>3 DEF Sizes
  <2> QED
    BY <1>13, <1>14, <2>1
<1> QED
  BY <1>3, <1>10, <1>13, <1>14, <1>15 DEF new

\* The two outcomes r of a request of n units: no free block fits, or the first
\* that does is taken.
Refused(m, A, f, n, r) ==
  /\ n = 0 \/ Fitting(Sizes(m), Owners(A), n) = {}
  /\ r.at = Null /\ r.mem = m /\ r.free = f

Granted(m, A, f, n, r) ==
  /\ n # 0 /\ Fitting(Sizes(m), Owners(A), n) # {}
  /\ r.at = First(Fitting(Sizes(m), Owners(A), n))
  /\ r.at \in Fitting(Sizes(m), Owners(A), n)
  /\ Kept(r.mem, A \union {r.at})
  /\ Sizes(r.mem) = Split(Sizes(m), r.at, n)
  /\ r.mem.alloc = m.alloc \union {r.at}
  /\ r.free = Cardinality(Units(Sizes(r.mem), Owners(A \union {r.at})))
  /\ f \in Nat /\ r.free \in Nat /\ r.free <= f
  /\ r.mem.next[r.at] = Null /\ \A a \in A : r.mem.next[a] = m.next[a]

\* pvPortMalloc returns NULL when no free block fits, and else takes the first
\* one that does, and counts what it takes.
LEMMA MallocedKept ==
  ASSUME NEW m, NEW A, Kept(m, A), NEW n \in Nat,
         NEW f, f = Cardinality(Units(Sizes(m), Owners(A)))
  PROVE  \/ Refused(m, A, f, n, Malloced(m, f, n))
         \/ Granted(m, A, f, n, Malloced(m, f, n))
<1> DEFINE s == Sizes(m)
           u == Owners(A)
           F == FreeOf(m, A)
           p == Previous(m, n)
           b == m.next[p]
           t == Taken(m, p, b, n)
           r == Malloced(m, f, n)
<1>1. /\ F \in SUBSET Addr /\ A \in SUBSET Addr /\ Chained(m, F)
      /\ \A a \in Addr : s[a] = m.size[a] /\ m.size[a] \in Nat
      /\ \A a : IsFree(s, u, a) <=> a \in F
      /\ m.size[End] = 0 /\ m.next[End] = Null
  BY KeptFacts
<1>2. Shape(s, u) /\ m \in Headers
  BY DEF Kept
<1>3. /\ p \in F \union {-2} /\ b \in F \union {End}
      /\ b # End => m.size[b] >= n + 1
      /\ \A a \in F : m.size[a] >= n + 1 => b <= a
  BY <1>1, <1>2, PreviousFacts
<1>4. \A a : a \in Fitting(s, u, n) <=> a \in F /\ m.size[a] >= n + 1
  BY <1>1 DEF Fitting
<1>5. r = IF n = 0 \/ n + 1 > f \/ b = End
            THEN [at |-> Null, mem |-> m, free |-> f]
            ELSE [at |-> b, mem |-> t, free |-> f - t.size[b]]
  BY DEF Malloced
<1>6. \A a \in Fitting(s, u, n) : f \in Nat /\ n + 1 <= f
  <2> SUFFICES ASSUME NEW a \in Fitting(s, u, n)
               PROVE  f \in Nat /\ n + 1 <= f
    OBVIOUS
  <2> DEFINE x == Split(s, a, n)[a]
             c == Cardinality(Units(Split(s, a, n), [u EXCEPT ![a] = TRUE]))
  <2>1. /\ f \in Nat /\ c \in Nat /\ f = c + x /\ x \in Nat /\ n + 1 <= x
    BY <1>2, SplitUnits
  <2> HIDE DEF x, c
  <2> QED
    BY <2>1
<1>7. \A a \in F : a \in Nat /\ a < End /\ a \in Addr
  BY <1>1, Addresses
<1> HIDE DEF s, u, F, p, b, t, r
<1>8. CASE n = 0 \/ n + 1 > f \/ b = End
  <2>1. r.at = Null /\ r.mem = m /\ r.free = f
    BY <1>5, <1>8
  <2>2. n = 0 \/ Fitting(s, u, n) = {}
    <3>1. CASE n = 0
      BY <3>1
    <3>2. CASE n + 1 > f
      BY <1>6, <3>2
    <3>3. CASE b = End
      <4>1. \A a \in Fitting(s, u, n) : a \in F /\ b <= a
        BY <1>3, <1>4
      <4>2. End \in Nat
        BY Addresses
      <4> QED
        BY <1>7, <3>3, <4>1, <4>2
    <3> QED
      BY <1>8, <3>1, <3>2, <3>3
  <2> QED
    BY <2>1, <2>2 DEF r, s, u, Refused
<1>9. CASE ~(n = 0 \/ n + 1 > f \/ b = End)
  <2>1. r.at = b /\ r.mem = t /\ r.free = f - t.size[b]
    BY <1>5, <1>9
  <2>2. b \in F /\ m.size[b] >= n + 1
    BY <1>3, <1>9
  <2>3. /\ Kept(t, A \union {b}) /\ Sizes(t) = Split(s, b, n)
        /\ t.alloc = m.alloc \union {b} /\ b \in Fitting(s, u, n)
        /\ t.size[b] = Split(s, b, n)[b]
        /\ t.next[b] = Null /\ \A a \in A : t.next[a] = m.next[a]
    <3>1. b = m.next[p] /\ t = Taken(m, p, b, n) /\ F = FreeOf(m, A)
      BY DEF b, t, F
    <3>2. p \in FreeOf(m, A) \union {-2} /\ b \in FreeOf(m, A)
      BY <1>3, <2>2, <3>1
    <3>3. LET new == Taken(m, p, b, n)
          IN  /\ Kept(new, A \union {b}) /\ Sizes(new) = Split(Sizes(m), b, n)
              /\ new.alloc = m.alloc \union {b} /\ b \in Fitting(Sizes(m), Owners(A), n)
              /\ new.size[b] = Split(Sizes(m), b, n)[b]
              /\ new.next[b] = Null /\ \A a \in A : new.next[a] = m.next[a]
      <4>1. b = m.next[p] /\ m.size[b] >= n + 1 /\ Kept(m, A) /\ n \in Nat
        BY <2>2, <3>1
      <4> QED
        BY ONLY <3>2, <4>1, TakenKept
    <3> QED
      BY <3>1, <3>3 DEF s, u
  <2>4. Fitting(s, u, n) # {} /\ Fitting(s, u, n) \in SUBSET Addr
    BY <2>3 DEF Fitting
  <2>5. b = First(Fitting(s, u, n))
    <3> DEFINE g == First(Fitting(s, u, n))
    <3>1. g \in Fitting(s, u, n) /\ \A a \in Fitting(s, u, n) : g <= a
      BY <2>4, FirstExists
    <3>2. g \in F /\ b <= g /\ g <= b
      BY <1>3, <1>4, <2>3, <3>1
    <3> HIDE DEF g
    <3>3. b = g
      BY <1>7, <2>2, <3>2
    <3> QED
      BY <3>3 DEF g
  <2>6. Owners(A \union {b}) = [u EXCEPT ![b] = TRUE]
    BY <1>7, <2>2, OwnersMore DEF u
  <2> DEFINE x == Split(s, b, n)[b]
             c == Cardinality(Units(Split(s, b, n), [u EXCEPT ![b] = TRUE]))
  <2>7. f \in Nat /\ c \in Nat /\ f = c + x /\ x \in Nat
    BY <1>2, <2>3, SplitUnits DEF s, u
  <2>8. c = Cardinality(Units(Sizes(t), Owners(A \union {b})))
    BY <2>3, <2>6
  <2>9. t.size[b] = x
    BY <2>3
  <2> HIDE DEF x, c
  <2>10. r.free = c /\ c <= f
    BY <2>1, <2>7, <2>9
  <2>11. n # 0
    BY <1>9
  <2> QED
    BY <2>1, <2>3, <2>4, <2>5, <2>7, <2>8, <2>10, <2>11 DEF r, s, u, Granted
<1> QED
  BY <1>8, <1>9

-----------------------------------------------------------------------------
(* The operations of Heap4 on headers m, f free units of which there never    *)
(* were less than l, the blocks O of the callers and the blocks R on their    *)
(* way back.                                                                  *)

Safe(m, f, l, O, R) ==
  /\ Kept(m, O \union R) /\ m.alloc = O /\ O \intersect R = {}
  /\ f = Cardinality(Units(Sizes(m), Owners(O \union R)))
  /\ f \in Nat /\ l \in Nat /\ l <= f
  /\ \A a \in O \union R : m.next[a] = Null

\* pvPortMalloc and pvPortCalloc keep the heap.
LEMMA MallocSafe ==
  ASSUME NEW m, NEW f, NEW l, NEW O, NEW R, Safe(m, f, l, O, R), NEW n \in Nat
  PROVE  LET r == Malloced(m, f, n)
         IN  /\ r.at = Null \/ r.at \in Addr
             /\ r.at # Null => r.at \notin O \union R
             /\ Safe(r.mem, r.free, Lower(l, r.free),
                     IF r.at = Null THEN O ELSE O \union {r.at}, R)
<1> DEFINE r == Malloced(m, f, n)
           A == O \union R
           s == Sizes(m)
           u == Owners(A)
           d == Lower(l, r.free)
<1>1. /\ Kept(m, A) /\ f = Cardinality(Units(s, u)) /\ m.alloc = O /\ O \intersect R = {}
      /\ f \in Nat /\ l \in Nat /\ l <= f /\ \A a \in A : m.next[a] = Null
  BY DEF Safe
<1>2. Refused(m, A, f, n, r) \/ Granted(m, A, f, n, r)
  <2> HIDE DEF A
  <2> QED
    BY <1>1, MallocedKept
<1>3. r.free \in Nat
  BY <1>1, <1>2 DEF Refused, Granted
<1> HIDE DEF r
<1>4. d \in Nat /\ d <= r.free
  BY <1>1, <1>3 DEF Lower
<1>5. \A a : IsFree(s, u, a) => a \in Addr /\ a \notin A
  <2>1. \A a : IsFree(s, u, a) <=> a \in FreeOf(m, A)
    BY <1>1, KeptFacts
  <2> QED
    BY <2>1 DEF FreeOf
<1> HIDE DEF s, u, A, d
<1>6. CASE Refused(m, A, f, n, r)
  <2>1. r.at = Null /\ r.mem = m /\ r.free = f
    BY <1>6 DEF Refused
  <2>2. Safe(r.mem, r.free, d, O, R)
    BY <1>1, <1>4, <2>1 DEF Safe, A, s, u
  <2> QED
    BY <2>1, <2>2 DEF r, d
<1>7. CASE Granted(m, A, f, n, r)
  <2>0. /\ r.at \in Fitting(s, u, n)
        /\ Kept(r.mem, A \union {r.at})
        /\ r.mem.alloc = m.alloc \union {r.at}
        /\ r.free = Cardinality(Units(Sizes(r.mem), Owners(A \union {r.at})))
        /\ \A a \in A \union {r.at} : r.mem.next[a] = Null
    BY <1>1, <1>7 DEF Granted, s, u
  <2>1. r.at \in Addr /\ r.at \notin A
    BY <1>5, <2>0 DEF Fitting
  <2>2. r.at # Null
    BY <2>1, Addresses
  <2>3. A \union {r.at} = (O \union {r.at}) \union R
    BY DEF A
  <2>4. (O \union {r.at}) \intersect R = {}
    BY <1>1, <2>1 DEF A
  <2>5. Safe(r.mem, r.free, d, O \union {r.at}, R)
    BY <1>1, <1>3, <1>4, <2>0, <2>3, <2>4 DEF Safe
  <2> QED
    BY <2>1, <2>2, <2>5 DEF r, d, A
<1> QED
  BY <1>2, <1>6, <1>7

\* The first part of vPortFree clears the owner bit and nothing else.
LEMMA MarkSafe ==
  ASSUME NEW m, NEW f, NEW l, NEW O, NEW R, Safe(m, f, l, O, R), NEW a \in O
  PROVE  LET new == [m EXCEPT !.alloc = @ \ {a}]
         IN  /\ Safe(new, f, l, O \ {a}, R \union {a})
             /\ new.next = m.next /\ new.size = m.size
<1> DEFINE new == [m EXCEPT !.alloc = @ \ {a}]
           A   == O \union R
<1>1. /\ Kept(m, A) /\ f = Cardinality(Units(Sizes(m), Owners(A))) /\ m.alloc = O
      /\ O \intersect R = {} /\ f \in Nat /\ l \in Nat /\ l <= f
      /\ \A x \in A : m.next[x] = Null
  BY DEF Safe
<1>2. m \in Headers
  BY <1>1 DEF Kept
<1>3. new.next = m.next /\ new.size = m.size /\ new.alloc = O \ {a}
  BY <1>1, <1>2 DEF Headers
<1>4. new \in Headers
  BY <1>2 DEF Headers
<1> HIDE DEF new
<1>5. Sizes(new) = Sizes(m) /\ FreeOf(new, A) = FreeOf(m, A)
  BY <1>3 DEF Sizes, FreeOf
<1>6. Chained(new, FreeOf(m, A))
  <2>1. Chained(m, FreeOf(m, A))
    BY <1>1 DEF Kept
  <2> QED
    BY <1>3, <2>1 DEF Chained
<1>7. Kept(new, A)
  <2> HIDE DEF A
  <2> QED
    BY <1>1, <1>3, <1>4, <1>5, <1>6 DEF Kept
<1>8. (O \ {a}) \union (R \union {a}) = A /\ (O \ {a}) \intersect (R \union {a}) = {}
  BY <1>1
<1> HIDE DEF A
<1>9. Safe(new, f, l, O \ {a}, R \union {a})
  BY <1>1, <1>3, <1>5, <1>7, <1>8 DEF Safe
<1> QED
  BY <1>3, <1>9 DEF new

\* The second part of vPortFree gives the block back.
LEMMA FreeSafe ==
  ASSUME NEW m, NEW f, NEW l, NEW O, NEW R, Safe(m, f, l, O, R), NEW a \in R
  PROVE  /\ Safe(prvInsertBlockIntoFreeList(m, a), f + m.size[a], l, O, R \ {a})
         /\ a \in Addr /\ Sizes(m)[a] = m.size[a] /\ m.size[a] # 0
<1> DEFINE new == prvInsertBlockIntoFreeList(m, a)
           A   == O \union R
           s   == Sizes(m)
           u   == Owners(A)
<1>1. /\ Kept(m, A) /\ f = Cardinality(Units(s, u)) /\ m.alloc = O
      /\ O \intersect R = {} /\ f \in Nat /\ l \in Nat /\ l <= f /\ a \in A
      /\ \A x \in A : m.next[x] = Null
  BY DEF Safe
<1>2. /\ a \in Addr /\ s[a] # 0 /\ u[a] /\ s[a] = m.size[a] /\ m.size[a] \in Nat
  BY <1>1, KeptFacts
<1>3. Shape(s, u)
  BY <1>1 DEF Kept
<1>4. Kept(new, A \ {a}) /\ new.alloc = m.alloc
  BY <1>1, InsertKept
<1>5. Sizes(new) = Joined(s, u, a)
  BY <1>1, InsertSizes
<1>6. Owners(A \ {a}) = [u EXCEPT ![a] = FALSE]
  BY <1>2, OwnersLess
<1>7. Cardinality(Units(Joined(s, u, a), [u EXCEPT ![a] = FALSE])) =
        Cardinality(Units(s, u)) + s[a]
  BY <1>2, <1>3, JoinUnits
<1>8. A \ {a} = O \union (R \ {a}) /\ O \intersect (R \ {a}) = {}
  BY <1>1
<1> HIDE DEF new, A, s, u
<1>9. Cardinality(Units(Sizes(new), Owners(A \ {a}))) = f + m.size[a]
  BY <1>1, <1>2, <1>5, <1>6, <1>7
<1>10. f + m.size[a] \in Nat /\ l <= f + m.size[a]
  BY <1>1, <1>2
<1>11. \A x \in A \ {a} : new.next[x] = Null
  BY <1>1, InsertFrame DEF new
<1>12. Safe(new, f + m.size[a], l, O, R \ {a})
  BY <1>1, <1>4, <1>8, <1>9, <1>10, <1>11 DEF Safe
<1> QED
  BY <1>2, <1>12 DEF new, s

-----------------------------------------------------------------------------
(* Heap4 implements Heap. *)

\* The heap that the headers show: Heap4's refinement mapping.
AbsSize == [a \in Addr |-> IF ~ready THEN (IF a = 0 THEN End ELSE 0)
                                     ELSE mem.size[a]]
AbsUsed == [a \in Addr |-> a \in mem.alloc \union freeing]

\* The operators of the heap that Heap4 refers to are those of Heap.
LEMMA SameOperators ==
  ASSUME NEW s, NEW u, NEW a, NEW n, NEW S
  PROVE  /\ H!Fitting(s, u, n) = Fitting(s, u, n)
         /\ H!First(S) = First(S)
         /\ H!Split(s, a, n) = Split(s, a, n)
         /\ H!Joined(s, u, a) = Joined(s, u, a)
         /\ H!IsBlock(s, a) <=> IsBlock(s, a)
         /\ H!TiledBy(s) <=> TiledBy(s)
         /\ H!Addr = Addr /\ H!Null = Null
<1>1. H!Addr = Addr /\ H!Null = Null
  BY DEF H!Addr, Addr, H!Null, Null
<1>2. H!Fitting(s, u, n) = Fitting(s, u, n)
  BY DEF H!Fitting, Fitting, H!IsFree, IsFree, H!IsBlock, IsBlock, H!Addr, Addr
<1>3. H!First(S) = First(S)
  BY DEF H!First, First
<1>4. H!Split(s, a, n) = Split(s, a, n)
  BY DEF H!Split, Split, H!MinBlock, MinBlock
<1>5. H!IsBlock(s, a) <=> IsBlock(s, a)
  BY DEF H!IsBlock, IsBlock, H!Addr, Addr
<1>6. H!TiledBy(s) <=> TiledBy(s)
  BY DEF H!TiledBy, TiledBy, H!Addr, Addr
<1>7. H!Joined(s, u, a) = Joined(s, u, a)
  BY DEF H!Joined, Joined, H!JoinStart, JoinStart, H!JoinEnd, JoinEnd,
         H!Before, Before, H!IsFree, IsFree, H!IsBlock, IsBlock, H!Addr, Addr
<1> QED
  BY <1>1, <1>2, <1>3, <1>4, <1>5, <1>6, <1>7

\* A refused request is Heap's refusal, in terms of what the headers show.
LEMMA AbstractRefused ==
  ASSUME NEW n, n = 0 \/ Fitting(AbsSize, AbsUsed, n) = {},
         ret' = Null, AbsSize' = AbsSize, AbsUsed' = AbsUsed
  PROVE  H!Malloc(n)
BY SameOperators DEF H!Malloc, AbsSize, AbsUsed, Addr

\* A request that takes the first block that fits is Heap's Malloc.
LEMMA AbstractGranted ==
  ASSUME NEW n, n # 0, Fitting(AbsSize, AbsUsed, n) # {},
         NEW a, a = First(Fitting(AbsSize, AbsUsed, n)),
         AbsSize' = Split(AbsSize, a, n),
         AbsUsed' = [AbsUsed EXCEPT ![a] = TRUE], ret' = a
  PROVE  H!Malloc(n)
<1>1. /\ a = H!First(H!Fitting(AbsSize, AbsUsed, n))
      /\ H!Fitting(AbsSize, AbsUsed, n) # {}
  BY SameOperators, Zenon
<1>2. AbsSize' = H!Split(AbsSize, a, n)
  BY SameOperators
<1> QED
  BY <1>1, <1>2 DEF H!Malloc, AbsSize, AbsUsed, Addr

\* A block that is joined with its free neighbours is Heap's Free.
LEMMA AbstractFree ==
  ASSUME NEW a, IsBlock(AbsSize, a), AbsUsed[a],
         AbsSize' = Joined(AbsSize, AbsUsed, a),
         AbsUsed' = [AbsUsed EXCEPT ![a] = FALSE], ret' = Null
  PROVE  H!Free(a)
BY SameOperators DEF H!Free, AbsSize, AbsUsed, Addr

\* A request followed by giving back the old block is Heap's Realloc.
LEMMA AbstractRealloc ==
  ASSUME NEW a, NEW n, IsBlock(AbsSize, a), AbsUsed[a], n # 0,
         Fitting(AbsSize, AbsUsed, n) # {},
         NEW b, b = First(Fitting(AbsSize, AbsUsed, n)),
         AbsSize' = Joined(Split(AbsSize, b, n), [AbsUsed EXCEPT ![b] = TRUE], a),
         AbsUsed' = [[AbsUsed EXCEPT ![b] = TRUE] EXCEPT ![a] = FALSE],
         ret' = b
  PROVE  H!Realloc(a, n)
<1>1. /\ b = H!First(H!Fitting(AbsSize, AbsUsed, n))
      /\ H!Fitting(AbsSize, AbsUsed, n) # {}
  BY SameOperators, Zenon
<1>2. AbsSize' = H!Joined(H!Split(AbsSize, b, n), [AbsUsed EXCEPT ![b] = TRUE], a)
  <2> DEFINE s == Split(AbsSize, b, n)
             u == [AbsUsed EXCEPT ![b] = TRUE]
  <2>1. H!Split(AbsSize, b, n) = s
    BY SameOperators
  <2> HIDE DEF s, u
  <2>2. H!Joined(s, u, a) = Joined(s, u, a)
    BY SameOperators
  <2> QED
    BY <2>1, <2>2 DEF s, u
<1>3. H!IsBlock(AbsSize, a)
  BY SameOperators
<1> QED
  BY <1>1, <1>2, <1>3 DEF H!Realloc, AbsSize, AbsUsed, Addr

\* The invariant of Heap4: before the first request the memory is untouched,
\* and up to a copy past the end of a block the heap is safe.
ListInv ==
  /\ ready \in BOOLEAN /\ smashed \in BOOLEAN
  /\ ~ready => /\ mem = [next |-> [w \in Word |-> Null],
                         size |-> [w \in Word |-> 0], alloc |-> {}]
               /\ owned = {} /\ freeing = {}
  /\ ~smashed => Safe(Mem, Room, Low, owned, freeing)

\* A heap that is one free block has all its units free.
LEMMA OneBlockUnits ==
  ASSUME NEW s, NEW u, s[0] = End, ~u[0]
  PROVE  Cardinality(Units(s, u)) = End
<1>1. End \in Nat \ {0} /\ 0 \in Addr /\ \A a \in Addr : a \in Nat /\ a < End
  BY Addresses
<1>2. IsFree(s, u, 0)
  BY <1>1 DEF IsFree, IsBlock
<1>3. \A x \in Addr : 0 <= x /\ x < 0 + s[0]
  BY <1>1
<1>4. Units(s, u) = Addr
  BY <1>1, <1>2, <1>3 DEF Units
<1>5. 0 \in Int /\ End - 1 \in Int /\ Addr = 0..(End - 1)
  BY <1>1 DEF Addr
<1>6. Cardinality(0..(End - 1)) = IF 0 > End - 1 THEN 0 ELSE (End - 1) - 0 + 1
  BY ONLY <1>5, FS_Interval
<1>7. Cardinality(0..(End - 1)) = End
  BY <1>1, <1>6
<1> QED
  BY <1>4, <1>5, <1>7

\* The headers that prvHeapInit writes are safe.
LEMMA StartSafe ==
  ASSUME NEW z, z = [next |-> [w \in Word |-> Null],
                     size |-> [w \in Word |-> 0], alloc |-> {}]
  PROVE  LET m == prvHeapInit(z)
         IN  /\ Safe(m, End, End, {}, {})
             /\ Sizes(m) = [a \in Addr |-> IF a = 0 THEN End ELSE 0]
<1> DEFINE m == prvHeapInit(z)
           s == [a \in Addr |-> IF a = 0 THEN End ELSE 0]
           u == Owners({})
<1>1. /\ End \in Nat \ {0} /\ Start = -2 /\ Null = -1
      /\ Word = Addr \union {-2, End} /\ 0 \in Addr /\ End \notin Addr
      /\ \A a \in Addr : a \in Nat /\ a < End
  BY Addresses
<1>2. /\ m.next = [[z.next EXCEPT ![Start] = 0] EXCEPT ![0] = End]
      /\ m.size = [z.size EXCEPT ![0] = End] /\ m.alloc = {}
      /\ m = [next |-> m.next, size |-> m.size, alloc |-> m.alloc]
  <2>1. m = [z EXCEPT !.next[Start] = 0, !.size[0] = End, !.next[0] = End]
    BY DEF prvHeapInit
  <2>2. m.next = [[z.next EXCEPT ![Start] = 0] EXCEPT ![0] = End]
    BY <2>1
  <2>3. m.size = [z.size EXCEPT ![0] = End] /\ m.alloc = {}
    BY <2>1
  <2>4. m = [next |-> m.next, size |-> m.size, alloc |-> m.alloc]
    BY <2>1
  <2> QED
    BY <2>2, <2>3, <2>4
<1> HIDE DEF m
<1>3. \A w \in Word : m.next[w] = IF w = 0 THEN End ELSE IF w = -2 THEN 0 ELSE Null
  BY <1>1, <1>2
<1>4. \A w \in Word : m.size[w] = IF w = 0 THEN End ELSE 0
  BY <1>1, <1>2
<1>5. m \in Headers
  <2>1. m.next \in [Word -> Word \union {Null}]
    BY <1>1, <1>2
  <2>2. m.size \in [Word -> 0..End]
    BY <1>1, <1>2
  <2> QED
    BY <1>2, <2>1, <2>2 DEF Headers
<1>6. Sizes(m) = s
  BY <1>1, <1>4 DEF Sizes
<1>7. FreeOf(m, {}) = {0}
  BY <1>1, <1>4 DEF FreeOf
<1>8. Chained(m, {0})
  BY <1>1, <1>3 DEF Chained
<1>9. u \in [Addr -> BOOLEAN] /\ \A a \in Addr : ~u[a]
  BY OwnersType DEF Owners
<1>10. Shape(s, u) /\ JoinedBy(s, u)
  <2>1. \A a \in Addr : s[a] = IF a = 0 THEN End ELSE 0
    OBVIOUS
  <2>2. s \in [Addr -> 0..End]
    BY <1>1
  <2> HIDE DEF s, u
  <2>3. TiledBy(s)
    BY <1>1, <2>1 DEF TiledBy
  <2>4. \A a \in Addr : s[a] # 0 => a = 0 /\ a + s[a] = End
    BY <1>1, <2>1
  <2>5. JoinedBy(s, u)
    BY <1>1, <2>4 DEF JoinedBy, IsFree, IsBlock
  <2> QED
    BY <1>9, <2>2, <2>3, <2>5 DEF Shape
<1>11. Kept(m, {})
  BY <1>1, <1>3, <1>4, <1>5, <1>6, <1>7, <1>8, <1>10 DEF Kept
<1>12. Cardinality(Units(s, u)) = End
  <2>1. s[0] = End /\ ~u[0]
    BY <1>1, <1>9
  <2> HIDE DEF s, u
  <2> QED
    BY <2>1, OneBlockUnits
<1>13. {} \union {} = {} /\ {} \intersect {} = {} /\ End <= End /\ End \in Nat
  BY <1>1
<1> HIDE DEF s, u
<1>14. Safe(m, End, End, {}, {})
  BY <1>2, <1>6, <1>11, <1>12, <1>13 DEF Safe, u
<1> QED
  BY <1>6, <1>14 DEF m, s

\* The first request finds the heap that prvHeapInit makes.
LEMMA ListInvInit ==
  ASSUME ListInit
  PROVE  ListInv
<1>1. /\ ready = FALSE /\ smashed = FALSE /\ owned = {} /\ freeing = {}
      /\ mem = [next |-> [w \in Word |-> Null],
                size |-> [w \in Word |-> 0], alloc |-> {}]
  BY DEF ListInit
<1>2. Safe(prvHeapInit(mem), End, End, {}, {})
  BY <1>1, StartSafe
<1>3. Mem = prvHeapInit(mem) /\ Room = End /\ Low = End
  BY <1>1 DEF Mem, Room, Low
<1> QED
  BY <1>1, <1>2, <1>3 DEF ListInv

\* What the headers show, before a step: initialised by pvPortMalloc or not yet.
LEMMA Abstraction ==
  ASSUME ListInv, ~smashed
  PROVE  /\ AbsSize = Sizes(Mem) /\ AbsUsed = Owners(owned \union freeing)
         /\ ready => mem = Mem /\ free = Room /\ minEver = Low
         /\ Safe(Mem, Room, Low, owned, freeing)
<1>1. Safe(Mem, Room, Low, owned, freeing) /\ Mem.alloc = owned
  BY DEF ListInv, Safe
<1>2. CASE ready
  <2>1. Mem = mem /\ Room = free /\ Low = minEver
    BY <1>2 DEF Mem, Room, Low
  <2>2. AbsSize = Sizes(mem)
    BY <1>2 DEF AbsSize, Sizes
  <2>3. AbsUsed = Owners(owned \union freeing)
    BY <1>1, <2>1 DEF AbsUsed, Owners
  <2> QED
    BY <1>1, <2>1, <2>2, <2>3
<1>3. CASE ~ready
  <2>1. /\ mem = [next |-> [w \in Word |-> Null],
                  size |-> [w \in Word |-> 0], alloc |-> {}]
        /\ owned = {} /\ freeing = {}
    BY <1>3 DEF ListInv
  <2>2. Mem = prvHeapInit(mem)
    BY <1>3 DEF Mem
  <2>3. Sizes(Mem) = [a \in Addr |-> IF a = 0 THEN End ELSE 0]
    BY <2>1, <2>2, StartSafe
  <2>4. AbsSize = [a \in Addr |-> IF a = 0 THEN End ELSE 0]
    BY <1>3 DEF AbsSize
  <2>5. mem.alloc = {}
    BY <2>1
  <2>6. AbsUsed = Owners(owned \union freeing)
    BY <2>1, <2>5 DEF AbsUsed, Owners
  <2> QED
    BY <1>1, <1>3, <2>3, <2>4, <2>6
<1> QED
  BY <1>2, <1>3

\* What the headers show after a step.
LEMMA AbstractionNext ==
  ASSUME ready', mem'.alloc = owned'
  PROVE  AbsSize' = Sizes(mem') /\ AbsUsed' = Owners(owned' \union freeing')
<1>1. AbsSize' = Sizes(mem')
  BY DEF AbsSize, Sizes
<1>2. AbsUsed' = Owners(owned' \union freeing')
  BY DEF AbsUsed, Owners
<1> QED
  BY <1>1, <1>2

\* After a step that leaves the heap initialised and safe the invariant holds.
LEMMA ListInvNext ==
  ASSUME ready' = TRUE, smashed' \in BOOLEAN,
         ~smashed' => Safe(mem', free', minEver', owned', freeing')
  PROVE  ListInv'
<1>1. Mem' = mem' /\ Room' = free' /\ Low' = minEver'
  BY DEF Mem, Room, Low
<1> QED
  BY <1>1 DEF ListInv

\* pvPortMalloc and the allocation of pvPortCalloc keep the heap, and do what
\* Heap's Malloc does.
LEMMA MallocStep ==
  ASSUME ListInv, ~smashed, NEW n \in Nat, NEW r, r = Malloced(Mem, Room, n),
         ready' = TRUE, mem' = r.mem, free' = r.free, minEver' = Lower(Low, r.free),
         ret' = r.at, owned' = (IF r.at = Null THEN owned ELSE owned \union {r.at}),
         freeing' = freeing
  PROVE  Safe(mem', free', minEver', owned', freeing') /\ H!Malloc(n)
<1> DEFINE m == Mem
           f == Room
           A == owned \union freeing
<1>1. /\ AbsSize = Sizes(m) /\ AbsUsed = Owners(A)
      /\ Safe(m, f, Low, owned, freeing)
  BY Abstraction
<1>2. Safe(mem', free', minEver', owned', freeing')
  <2> HIDE DEF m, f
  <2>1. Safe(r.mem, r.free, Lower(Low, r.free),
             IF r.at = Null THEN owned ELSE owned \union {r.at}, freeing)
    BY <1>1, MallocSafe DEF m, f
  <2> QED
    BY <2>1
<1>3. mem'.alloc = owned'
  BY <1>2 DEF Safe
<1>4. AbsSize' = Sizes(mem') /\ AbsUsed' = Owners(owned' \union freeing')
  BY <1>3, AbstractionNext
<1>5. Refused(m, A, f, n, r) \/ Granted(m, A, f, n, r)
  <2>1. Kept(m, A) /\ f = Cardinality(Units(Sizes(m), Owners(A)))
    BY <1>1 DEF Safe
  <2> HIDE DEF m, f, A
  <2>2. r = Malloced(m, f, n)
    BY DEF m, f
  <2> QED
    BY <2>1, <2>2, MallocedKept
<1> HIDE DEF m, f
<1>6. CASE Refused(m, A, f, n, r)
  <2>1. r.at = Null /\ r.mem = m /\ (n = 0 \/ Fitting(Sizes(m), Owners(A), n) = {})
    BY <1>6 DEF Refused
  <2>2. AbsSize' = AbsSize /\ AbsUsed' = AbsUsed
    BY <1>1, <1>4, <2>1
  <2>3. H!Malloc(n)
    BY <1>1, <2>1, <2>2, AbstractRefused
  <2> QED
    BY <1>2, <2>3
<1>7. CASE Granted(m, A, f, n, r)
  <2>1. /\ n # 0 /\ Fitting(Sizes(m), Owners(A), n) # {}
        /\ r.at = First(Fitting(Sizes(m), Owners(A), n))
        /\ r.at \in Fitting(Sizes(m), Owners(A), n)
        /\ Sizes(r.mem) = Split(Sizes(m), r.at, n)
    BY <1>7 DEF Granted
  <2>2. r.at \in Addr
    BY <2>1 DEF Fitting
  <2>3. r.at # Null
    BY <2>2, Addresses
  <2>4. owned' \union freeing' = A \union {r.at}
    BY <2>3
  <2> HIDE DEF A
  <2>5. Owners(A \union {r.at}) = [Owners(A) EXCEPT ![r.at] = TRUE]
    BY <2>2, OwnersMore
  <2>6. /\ AbsSize' = Split(AbsSize, r.at, n) /\ AbsUsed' = [AbsUsed EXCEPT ![r.at] = TRUE]
        /\ Fitting(AbsSize, AbsUsed, n) # {} /\ r.at = First(Fitting(AbsSize, AbsUsed, n))
    BY <1>1, <1>4, <2>1, <2>4, <2>5
  <2>7. H!Malloc(n)
    BY <2>1, <2>6, AbstractGranted
  <2> QED
    BY <1>2, <2>7
<1> QED
  BY <1>5, <1>6, <1>7

\* A block has an owner, or is on its way back, only once the heap is
\* initialised.
LEMMA OwnedReady ==
  ASSUME ListInv, NEW a, a \in owned \union freeing
  PROVE  ready = TRUE
BY DEF ListInv

\* The first part of vPortFree keeps the heap; Heap does not see it.
LEMMA MarkStep ==
  ASSUME ListInv, NEW a, vPortFreeMark(a)
  PROVE  /\ ready' = TRUE /\ smashed' = FALSE
         /\ Safe(mem', free', minEver', owned', freeing')
         /\ AbsSize' = AbsSize /\ AbsUsed' = AbsUsed /\ ret' = ret
<1>1. /\ ~smashed /\ a \in owned /\ mem' = [mem EXCEPT !.alloc = @ \ {a}]
      /\ freeing' = freeing \union {a} /\ owned' = owned \ {a}
      /\ UNCHANGED <<ready, free, minEver, ret, smashed>>
  BY DEF vPortFreeMark
<1>2. ready = TRUE /\ ready' = TRUE /\ smashed' = FALSE
  BY <1>1, OwnedReady DEF ListInv
<1>3. /\ AbsSize = Sizes(mem) /\ AbsUsed = Owners(owned \union freeing)
      /\ Safe(mem, free, minEver, owned, freeing)
  BY <1>1, <1>2, Abstraction
<1> DEFINE new == [mem EXCEPT !.alloc = @ \ {a}]
<1>4. Safe(new, free, minEver, owned \ {a}, freeing \union {a}) /\ new.size = mem.size
  BY <1>1, <1>3, MarkSafe
<1> HIDE DEF new
<1>5. Safe(mem', free', minEver', owned', freeing') /\ mem'.size = mem.size
  BY <1>1, <1>4 DEF new
<1>6. mem'.alloc = owned'
  BY <1>5 DEF Safe
<1>7. AbsSize' = Sizes(mem') /\ AbsUsed' = Owners(owned' \union freeing')
  BY <1>2, <1>6, AbstractionNext
<1>8. Sizes(mem') = Sizes(mem)
  BY <1>5 DEF Sizes
<1>9. owned' \union freeing' = owned \union freeing
  BY <1>1
<1> QED
  BY <1>1, <1>2, <1>3, <1>5, <1>7, <1>8, <1>9

\* The second part of vPortFree keeps the heap, and does what Heap's Free does.
LEMMA FreeStep ==
  ASSUME ListInv, NEW a, vPortFreeInsert(a)
  PROVE  /\ ready' = TRUE /\ smashed' = FALSE
         /\ Safe(mem', free', minEver', owned', freeing')
         /\ H!Free(a) /\ a \in Addr
<1> DEFINE A == owned \union freeing
           s == Sizes(mem)
           u == Owners(A)
<1>1. /\ ~smashed /\ a \in freeing /\ free' = free + mem.size[a]
      /\ mem' = prvInsertBlockIntoFreeList(mem, a)
      /\ freeing' = freeing \ {a} /\ ret' = Null
      /\ UNCHANGED <<ready, minEver, owned, smashed>>
  BY DEF vPortFreeInsert
<1>2. ready = TRUE /\ ready' = TRUE /\ smashed' = FALSE
  BY <1>1, OwnedReady DEF ListInv
<1>3. /\ AbsSize = s /\ AbsUsed = u /\ Safe(mem, free, minEver, owned, freeing)
  BY <1>1, <1>2, Abstraction
<1>4. /\ Safe(prvInsertBlockIntoFreeList(mem, a), free + mem.size[a], minEver,
              owned, freeing \ {a})
      /\ a \in Addr /\ s[a] = mem.size[a] /\ mem.size[a] # 0
  BY <1>1, <1>3, FreeSafe
<1>5. Safe(mem', free', minEver', owned', freeing')
  BY <1>1, <1>4
<1>6. mem'.alloc = owned'
  BY <1>5 DEF Safe
<1>7. AbsSize' = Sizes(mem') /\ AbsUsed' = Owners(owned' \union freeing')
  BY <1>2, <1>6, AbstractionNext
<1>8. owned' \union freeing' = A \ {a} /\ a \in A /\ Kept(mem, A)
  BY <1>1, <1>3 DEF Safe
<1> HIDE DEF A
<1>9. Sizes(mem') = Joined(s, u, a)
  BY <1>1, <1>8, InsertSizes
<1>10. Owners(A \ {a}) = [u EXCEPT ![a] = FALSE] /\ u[a] = TRUE
  BY <1>4, <1>8, OwnersLess DEF Owners
<1> HIDE DEF s, u
<1>11. IsBlock(AbsSize, a) /\ AbsUsed[a]
  BY <1>3, <1>4, <1>10 DEF IsBlock
<1>12. H!Free(a)
  BY <1>1, <1>3, <1>7, <1>8, <1>9, <1>10, <1>11, AbstractFree
<1> QED
  BY <1>2, <1>4, <1>5, <1>12

\* pvPortRealloc, where the copy fits the new block, keeps the heap, and does
\* what Heap's Realloc does.
LEMMA ReallocStep ==
  ASSUME ListInv, NEW a, NEW n \in Nat, pvPortRealloc(a, n)
  PROVE  /\ ready' = TRUE /\ smashed' = FALSE
         /\ Safe(mem', free', minEver', owned', freeing')
         /\ H!Realloc(a, n)
<1> DEFINE A    == owned \union freeing
           s    == Sizes(mem)
           u    == Owners(A)
           r    == Malloced(mem, free, n)
           b    == r.at
           left == [r.mem EXCEPT !.alloc = @ \ {a}]
           low  == Lower(minEver, r.free)
           O    == (owned \union {b}) \ {a}
           R    == freeing \union {a}
<1>1. /\ ~smashed /\ a \in owned /\ b # Null
      /\ mem' = prvInsertBlockIntoFreeList(left, a)
      /\ free' = r.free + mem.size[a] /\ minEver' = low /\ ret' = b
      /\ owned' = (owned \ {a}) \union {b}
      /\ UNCHANGED <<ready, freeing, smashed>>
  BY DEF pvPortRealloc
<1>2. ready = TRUE /\ ready' = TRUE /\ smashed' = FALSE
  BY <1>1, OwnedReady DEF ListInv
<1>3. /\ AbsSize = s /\ AbsUsed = u /\ Safe(mem, free, minEver, owned, freeing)
  BY <1>1, <1>2, Abstraction
<1>4. /\ Kept(mem, A) /\ free = Cardinality(Units(s, u)) /\ a \in A
      /\ owned \intersect freeing = {}
  BY <1>1, <1>3 DEF Safe
<1>5. /\ b \notin A /\ Safe(r.mem, r.free, low, owned \union {b}, freeing)
  BY <1>1, <1>3, MallocSafe
<1>6. /\ a \in Addr /\ s[a] # 0 /\ s[a] = mem.size[a] /\ Shape(s, u)
      /\ \A x \in Addr : u[x] <=> x \in A
  <2>1. Shape(s, u)
    BY <1>4 DEF Kept
  <2> HIDE DEF A
  <2> QED
    BY <1>4, <2>1, KeptFacts
<1>7. Granted(mem, A, free, n, r)
  <2> HIDE DEF A, r
  <2>1. Refused(mem, A, free, n, r) \/ Granted(mem, A, free, n, r)
    BY <1>4, MallocedKept DEF r
  <2> QED
    BY <1>1, <2>1 DEF Refused
<1> HIDE DEF r
<1>8. /\ n # 0 /\ Fitting(s, u, n) # {} /\ b = First(Fitting(s, u, n))
      /\ b \in Fitting(s, u, n) /\ Sizes(r.mem) = Split(s, b, n)
  <2> HIDE DEF A
  <2> QED
    BY <1>7 DEF Granted
<1>9. a # b /\ b \in Addr
  BY <1>4, <1>5, <1>8 DEF Fitting
<1>10. Safe(left, r.free, low, O, R) /\ left.size = r.mem.size
  <2>1. a \in owned \union {b}
    BY <1>1
  <2> HIDE DEF low, b
  <2> QED
    BY <1>5, <2>1, MarkSafe
<1>11. Sizes(left) = Split(s, b, n)
  <2>1. Sizes(left) = Sizes(r.mem)
    BY <1>10 DEF Sizes
  <2> QED
    BY <1>8, <2>1
<1> HIDE DEF left, low
<1>12. O \union R = A \union {b} /\ a \in O \union R /\ a \in R
  BY <1>1
<1>13. R \ {a} = freeing /\ O = owned' /\ freeing' = freeing
  BY <1>1, <1>4, <1>9
<1> HIDE DEF O, R, A
<1>14. Safe(prvInsertBlockIntoFreeList(left, a), r.free + left.size[a], low, O, R \ {a})
  BY <1>10, <1>12, FreeSafe
<1>15. left.size[a] = mem.size[a]
  <2>1. Sizes(left)[a] = left.size[a]
    BY <1>6 DEF Sizes
  <2>2. Split(s, b, n)[a] = s[a]
    <3> HIDE DEF s, u, b
    <3> QED
      BY <1>6, <1>8, <1>9, SplitShape
  <2> QED
    BY <1>6, <1>11, <2>1, <2>2
<1>16. Safe(mem', free', minEver', owned', freeing')
  BY <1>1, <1>13, <1>14, <1>15
<1>17. mem'.alloc = owned'
  BY <1>16 DEF Safe
<1>18. AbsSize' = Sizes(mem') /\ AbsUsed' = Owners(owned' \union freeing')
  BY <1>2, <1>17, AbstractionNext
<1>19. Owners(A \union {b}) = [u EXCEPT ![b] = TRUE]
  BY <1>9, OwnersMore
<1>20. Sizes(mem') = Joined(Split(s, b, n), [u EXCEPT ![b] = TRUE], a)
  <2>1. Kept(left, O \union R)
    BY <1>10 DEF Safe
  <2>2. Sizes(mem') = Joined(Sizes(left), Owners(O \union R), a)
    BY <1>1, <1>12, <2>1, InsertSizes
  <2> HIDE DEF s, u
  <2> QED
    BY <1>11, <1>12, <1>19, <2>2
<1>21. owned' \union freeing' = (A \union {b}) \ {a}
  BY <1>1, <1>4, <1>9 DEF A
<1>22. Owners(owned' \union freeing') = [[u EXCEPT ![b] = TRUE] EXCEPT ![a] = FALSE]
  <2> DEFINE B == A \union {b}
  <2> HIDE DEF B
  <2>1. Owners(B \ {a}) = [Owners(B) EXCEPT ![a] = FALSE]
    BY <1>6, OwnersLess
  <2> QED
    BY <1>19, <1>21, <2>1 DEF B
<1>23. IsBlock(AbsSize, a) /\ AbsUsed[a]
  BY <1>3, <1>4, <1>6 DEF IsBlock
<1> HIDE DEF s, u, b
<1>24. /\ Fitting(AbsSize, AbsUsed, n) # {} /\ b = First(Fitting(AbsSize, AbsUsed, n))
       /\ AbsSize' = Joined(Split(AbsSize, b, n), [AbsUsed EXCEPT ![b] = TRUE], a)
       /\ AbsUsed' = [[AbsUsed EXCEPT ![b] = TRUE] EXCEPT ![a] = FALSE]
       /\ ret' = b /\ n # 0
  BY <1>1, <1>3, <1>8, <1>18, <1>20, <1>22
<1>25. H!Realloc(a, n)
  BY ONLY <1>23, <1>24, AbstractRealloc
<1> QED
  BY <1>2, <1>16, <1>25

\* Every step of Heap4 keeps the invariant, and is a step of Heap or one that
\* Heap does not see, or writes past a block.
LEMMA ListStep ==
  ASSUME ListInv, [ListNext]_listVars
  PROVE  /\ ListInv'
         /\ \/ H!Next
            \/ smashed'
            \/ AbsSize' = AbsSize /\ AbsUsed' = AbsUsed /\ ret' = ret
<1>1. MaxReq \in Nat /\ H!Addr = Addr
  BY HeapAssumption, Addresses, SameOperators
<1>2. \A n \in 0..MaxReq : n \in Nat
  BY <1>1
<1>3. ASSUME NEW n \in 0..MaxReq, pvPortMalloc(n) \/ pvPortCalloc(n)
      PROVE  ListInv' /\ (H!Next \/ smashed')
  <2> DEFINE r == Malloced(Mem, Room, n)
  <2>1. /\ ~smashed /\ ready' = TRUE /\ mem' = r.mem /\ free' = r.free
        /\ minEver' = Lower(Low, r.free) /\ ret' = r.at
        /\ owned' = (IF r.at = Null THEN owned ELSE owned \union {r.at})
        /\ freeing' = freeing
    BY <1>3 DEF pvPortMalloc, pvPortCalloc
  <2>2. smashed' \in BOOLEAN
    BY <1>3 DEF pvPortMalloc, pvPortCalloc, ListInv
  <2> HIDE DEF r
  <2>3. Safe(mem', free', minEver', owned', freeing') /\ H!Malloc(n)
    BY <1>2, <2>1, MallocStep DEF r
  <2>4. ListInv'
    BY <2>1, <2>2, <2>3, ListInvNext
  <2> QED
    BY <2>3, <2>4 DEF H!Next
<1>4. ASSUME NEW a \in Addr, vPortFreeMark(a)
      PROVE  ListInv' /\ AbsSize' = AbsSize /\ AbsUsed' = AbsUsed /\ ret' = ret
  <2>1. /\ ready' = TRUE /\ smashed' = FALSE
        /\ Safe(mem', free', minEver', owned', freeing')
        /\ AbsSize' = AbsSize /\ AbsUsed' = AbsUsed /\ ret' = ret
    BY <1>4, MarkStep
  <2> QED
    BY <2>1, ListInvNext
<1>5. ASSUME NEW a \in Addr, vPortFreeInsert(a)
      PROVE  ListInv' /\ H!Next
  <2>1. /\ ready' = TRUE /\ smashed' = FALSE
        /\ Safe(mem', free', minEver', owned', freeing') /\ H!Free(a)
    BY <1>5, FreeStep
  <2>2. H!Next
    BY <1>1, <2>1 DEF H!Next
  <2> QED
    BY <2>1, <2>2, ListInvNext
<1>6. ASSUME NEW a \in Addr, NEW n \in 0..MaxReq, pvPortRealloc(a, n)
      PROVE  ListInv' /\ H!Next
  <2>1. /\ ready' = TRUE /\ smashed' = FALSE
        /\ Safe(mem', free', minEver', owned', freeing') /\ H!Realloc(a, n)
    BY <1>2, <1>6, ReallocStep
  <2>2. H!Next
    BY <1>1, <2>1 DEF H!Next
  <2> QED
    BY <2>1, <2>2, ListInvNext
<1>7. ASSUME NEW a \in Addr, NEW n \in 0..MaxReq, pvPortReallocPast(a, n)
      PROVE  ListInv' /\ smashed'
  <2>1. a \in owned /\ ready' = ready /\ smashed' = TRUE
    BY <1>7 DEF pvPortReallocPast
  <2>2. ready = TRUE
    BY <2>1, OwnedReady
  <2> QED
    BY <2>1, <2>2, ListInvNext
<1>8. CASE UNCHANGED listVars
  <2>1. UNCHANGED <<ready, mem, free, minEver, freeing, ret, owned, smashed>>
    BY <1>8 DEF listVars
  <2>2. Mem' = Mem /\ Room' = Room /\ Low' = Low
    BY <2>1 DEF Mem, Room, Low
  <2>3. ListInv'
    BY <2>1, <2>2 DEF ListInv
  <2>4. AbsSize' = AbsSize /\ AbsUsed' = AbsUsed
    BY <2>1 DEF AbsSize, AbsUsed
  <2> QED
    BY <2>1, <2>3, <2>4
<1> QED
  BY <1>1, <1>3, <1>4, <1>5, <1>6, <1>7, <1>8 DEF ListNext

-----------------------------------------------------------------------------
(* The theorems about Heap4. *)

\* The invariant holds in every state: whatever the callers request, give back
\* or resize, and whoever is between the two parts of vPortFree.
THEOREM ListInvariant == ListSpec => []ListInv
<1>1. ListInit => ListInv
  BY ListInvInit
<1>2. ListInv /\ [ListNext]_listVars => ListInv'
  BY ListStep
<1> QED
  BY <1>1, <1>2, PTL DEF ListSpec

\* What the properties of Heap4 speak of, in the terms of the invariant.
LEMMA SoundFacts ==
  ASSUME ListInv, Sound
  PROVE  /\ Safe(mem, free, minEver, owned, freeing) /\ Kept(mem, owned \union freeing)
         /\ FreeBlocks = FreeOf(mem, owned \union freeing)
         /\ FreeUnits = Units(Sizes(mem), Owners(owned \union freeing))
         /\ AbsSize = Sizes(mem)
<1> DEFINE A == owned \union freeing
<1>1. ready /\ ~smashed
  BY DEF Sound
<1>2. Safe(mem, free, minEver, owned, freeing) /\ AbsSize = Sizes(mem)
  BY <1>1, Abstraction
<1>3. Kept(mem, A)
  BY <1>2 DEF Safe
<1>4. FreeBlocks = FreeOf(mem, A)
  BY Addresses DEF FreeBlocks, Blocks, FreeOf
<1>5. FreeUnits = Units(Sizes(mem), Owners(A))
  <2> DEFINE F == FreeOf(mem, A)
             s == Sizes(mem)
             u == Owners(A)
  <2>1. /\ F \in SUBSET Addr /\ \A a : IsFree(s, u, a) <=> a \in F
        /\ \A a \in Addr : s[a] = mem.size[a]
    <3> HIDE DEF A
    <3> QED
      BY <1>3, KeptFacts
  <2>2. FreeUnits = {x \in Addr : \E a \in F : a <= x /\ x < a + mem.size[a]}
    BY <1>4, Addresses DEF FreeUnits
  <2> HIDE DEF F, s, u
  <2> QED
    BY <2>1, <2>2 DEF Units, s, u
<1> QED
  BY <1>2, <1>3, <1>4, <1>5

\* The free list: in every state up to a copy past a block, the blocks tile the
\* heap, and the list from xStart to pxEnd leads through the free ones in the
\* order of their addresses, no two of them adjacent.
THEOREM FreeListIsExact == ListSpec => []FreeListExact
<1>1. ASSUME ListInv, Sound
      PROVE  /\ H!Tiled
             /\ \A p \in {Start} \union FreeBlocks :
                  /\ p < mem.next[p] /\ mem.next[p] \in FreeBlocks \union {End}
                  /\ \A a \in FreeBlocks : ~(p < a /\ a < mem.next[p])
             /\ \A a \in FreeBlocks :
                  a + mem.size[a] # mem.next[a] \/ mem.next[a] = End
  <2> DEFINE A == owned \union freeing
             F == FreeOf(mem, A)
             s == Sizes(mem)
             u == Owners(A)
  <2>1. Kept(mem, A) /\ FreeBlocks = F /\ AbsSize = s
    BY <1>1, SoundFacts
  <2>2. /\ Chained(mem, F) /\ TiledBy(s)
        /\ \A a : IsFree(s, u, a) <=> a \in F
        /\ F \in SUBSET Addr /\ \A a \in Addr : s[a] = mem.size[a]
    <3> HIDE DEF A
    <3> QED
      BY <2>1, KeptFacts
  <2>3. JoinedBy(s, u)
    BY <2>1 DEF Kept
  <2> HIDE DEF A, F, s, u
  <2>4. H!Tiled
    <3>1. H!TiledBy(AbsSize)
      BY <2>1, <2>2, SameOperators
    <3> QED
      BY <3>1, Addresses DEF H!Tiled, AbsSize
  <2>5. ASSUME NEW a \in F
        PROVE  a + mem.size[a] # mem.next[a] \/ mem.next[a] = End
    <3>1. mem.next[a] \in F \union {End}
      BY <2>2 DEF Chained
    <3>2. ~IsFree(s, u, a + s[a])
      BY <2>2, <2>3 DEF JoinedBy
    <3> QED
      BY <2>2, <3>1, <3>2
  <2> QED
    BY <2>1, <2>2, <2>4, <2>5 DEF Chained
<1>2. ListInv => FreeListExact
  BY <1>1 DEF FreeListExact
<1> QED
  BY <1>2, ListInvariant, PTL

\* The counters: xFreeBytesRemaining is what the free blocks have, and never
\* was below xMinimumEverFreeBytesRemaining.
THEOREM FreeBytesAreExact == ListSpec => []FreeBytesExact
<1>1. ASSUME ListInv, Sound
      PROVE  free = Cardinality(FreeUnits) /\ minEver <= free
  BY <1>1, SoundFacts DEF Safe
<1>2. ListInv => (Sound => free = Cardinality(FreeUnits) /\ minEver <= free)
  BY <1>1
<1>3. ListInv => FreeBytesExact
  BY <1>2 DEF FreeBytesExact
<1> QED
  BY <1>3, ListInvariant, PTL

\* No leak and no fragmentation for good: when every block has been given back,
\* the heap is again the one free block that prvHeapInit made.
THEOREM HeapComesBackWhole == ListSpec => []AllReturned
<1>1. ASSUME ListInv, Sound, owned = {}, freeing = {}
      PROVE  Blocks = {0} /\ mem.next[Start] = 0 /\ free = End
  <2> DEFINE s == Sizes(mem)
             u == Owners({})
             F == FreeOf(mem, {})
  <2>1. /\ Kept(mem, {}) /\ free = Cardinality(Units(s, u))
    <3>1. owned \union freeing = {}
      BY <1>1
    <3> QED
      BY <1>1, <3>1, SoundFacts DEF Safe
  <2>2. /\ s \in [Addr -> 0..End] /\ TiledBy(s) /\ F \in SUBSET Addr /\ Chained(mem, F)
        /\ \A a \in Addr : s[a] = mem.size[a] /\ ~u[a]
        /\ \A a \in Addr : a \in F <=> s[a] # 0
    <3>1. \A a \in Addr : ~u[a]
      BY DEF Owners
    <3> HIDE DEF u
    <3> QED
      BY <2>1, <3>1, KeptFacts
  <2>3. JoinedBy(s, u)
    BY <2>1 DEF Kept
  <2>4. /\ End \in Nat \ {0} /\ Start = -2 /\ 0 \in Addr
        /\ \A a \in Addr : a \in Nat /\ a < End
        /\ \A a \in Nat : a < End => a \in Addr
    BY Addresses DEF Addr
  <2> HIDE DEF s, u, F
  <2>5. s[0] = End
    <3>1. s[0] \in Nat /\ s[0] # 0 /\ 0 + s[0] = s[0] /\ s[0] <= End
      BY <2>2, <2>4 DEF TiledBy
    <3>2. s[0] < End => s[s[0]] # 0
      BY <2>2, <2>4, <3>1 DEF TiledBy
    <3>3. s[0] < End => IsFree(s, u, s[0])
      BY <2>2, <2>4, <3>1, <3>2 DEF IsFree, IsBlock
    <3>4. IsFree(s, u, 0)
      BY <2>2, <2>4, <3>1 DEF IsFree, IsBlock
    <3>5. ~IsFree(s, u, 0 + s[0])
      BY <2>3, <2>4, <3>4 DEF JoinedBy
    <3> QED
      BY <2>4, <3>1, <3>3, <3>5
  <2>6. \A a \in Addr : s[a] # 0 <=> a = 0
    <3>1. \A a \in Addr : 0 < a /\ a < 0 + s[0] => s[a] = 0
      BY <2>2, <2>4, <2>5 DEF TiledBy
    <3> QED
      BY <2>4, <2>5, <3>1
  <2>7. Blocks = {0}
    BY <2>2, <2>4, <2>6 DEF Blocks
  <2>8. F = {0}
    BY <2>2, <2>4, <2>6
  <2>9. mem.next[Start] = 0
    <3>1. /\ mem.next[Start] \in F \union {End}
          /\ \A a \in F : ~(Start < a /\ a < mem.next[Start])
      BY <2>2 DEF Chained
    <3> QED
      BY <2>4, <2>8, <3>1
  <2>10. free = End
    BY <2>1, <2>2, <2>4, <2>5, OneBlockUnits
  <2> QED
    BY <2>7, <2>9, <2>10
<1>2. ListInv => AllReturned
  BY <1>1 DEF AllReturned
<1> QED
  BY <1>2, ListInvariant, PTL

\* Heap4 implements Heap: with its list, its owner bits and the two parts of
\* vPortFree, heap_4_custom.c does to sizes, owners and results what the
\* allocator without them does, up to the step that writes past a block.
THEOREM ListImplementsHeap == ListSpec => ImplementsHeap
<1>1. ListInit => H!Init
  <2> SUFFICES ASSUME ListInit PROVE H!Init
    OBVIOUS
  <2>1. /\ ready = FALSE /\ freeing = {} /\ ret = Null
        /\ mem = [next |-> [w \in Word |-> Null],
                  size |-> [w \in Word |-> 0], alloc |-> {}]
    BY DEF ListInit
  <2>2. mem.alloc = {}
    BY <2>1
  <2>3. AbsSize = [a \in Addr |-> IF a = 0 THEN End ELSE 0]
    BY <2>1 DEF AbsSize
  <2>4. AbsUsed = [a \in Addr |-> FALSE]
    <3>1. \A a \in Addr : (a \in mem.alloc \union freeing) = FALSE
      BY <2>1, <2>2
    <3> QED
      BY <3>1 DEF AbsUsed
  <2> QED
    BY <2>1, <2>3, <2>4, Addresses, SameOperators DEF H!Init, AbsSize, AbsUsed
<1>2. ListInv /\ [ListNext]_listVars => [H!Next \/ smashed']_(H!vars)
  <2> SUFFICES ASSUME ListInv, [ListNext]_listVars, ~H!Next, ~smashed'
               PROVE  UNCHANGED H!vars
    OBVIOUS
  <2>1. AbsSize' = AbsSize /\ AbsUsed' = AbsUsed /\ ret' = ret
    BY ListStep
  <2> QED
    BY <2>1 DEF H!vars, AbsSize, AbsUsed, Addr
<1> QED
  BY <1>1, <1>2, ListInvariant, PTL DEF ListSpec, ImplementsHeap

\* The assertions of vPortFree ("Check the block is actually allocated") hold
\* for every block that a caller has, up to a copy past a block: nothing else
\* that the allocator does can break them.
THEOREM OnlyACopyBreaksTheAssertions == ListSpec => [](~smashed => OwnedBlocksMarked)
<1>1. ASSUME ListInv, ~smashed
      PROVE  OwnedBlocksMarked
  <2>1. ready \/ owned = {}
    BY <1>1 DEF ListInv
  <2>2. CASE owned = {}
    BY <2>2 DEF OwnedBlocksMarked
  <2>3. CASE ready
    <3>1. Safe(mem, free, minEver, owned, freeing)
      BY <1>1, <2>3, Abstraction
    <3> QED
      BY <3>1 DEF Safe, OwnedBlocksMarked
  <2> QED
    BY <2>1, <2>2, <2>3
<1>2. ListInv => (~smashed => OwnedBlocksMarked)
  BY <1>1
<1> QED
  BY <1>2, ListInvariant, PTL
=============================================================================
