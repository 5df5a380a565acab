-------------------------------- MODULE Heap --------------------------------
(***************************************************************************)
(* What the allocator of src/src/freertos/heap_4_custom.c promises, without*)
(* its list of free blocks: the heap is cut into blocks, malloc takes the  *)
(* free block with the lowest address that is large enough and splits it,  *)
(* free gives a block back and joins it with its free neighbours.          *)
(*                                                                         *)
(* A request of n units makes a block of n + 1, with its header.  Every    *)
(* operation runs with the scheduler suspended, so it is one step.         *)
(***************************************************************************)
EXTENDS HeapUnits

\* heapMINIMUM_BLOCK_SIZE, two headers.
MinBlock == 2

VARIABLES
  size,    \* size of the block that starts at an address, 0 if none does
  used     \* the block belongs to the application

vars == <<size, used, ret>>

Init ==
  /\ size = [a \in Addr |-> IF a = 0 THEN End ELSE 0]
  /\ used = [a \in Addr |-> FALSE]
  /\ ret = Null

IsBlock(s, a) == a \in Addr /\ s[a] # 0
IsFree(s, u, a) == IsBlock(s, a) /\ ~u[a]

\* Mutant: owned blocks are on the free list, too.
FittingAny(s, u, n) == {a \in Addr : IsBlock(s, a) /\ s[a] >= n + 1}

\* The free blocks that a request of n units fits into, and the first one.
Fitting(s, u, n) == {a \in Addr : IsFree(s, u, a) /\ s[a] >= n + 1}
First(S) == CHOOSE a \in S : \A b \in S : a <= b

\* Mutant: the header of the new block is forgotten in the remainder.
SplitLong(s, a, n) ==
  IF s[a] - (n + 1) > MinBlock
    THEN [s EXCEPT ![a] = n + 1, ![a + n + 1] = s[a] - n]
    ELSE s

\* The sizes after block a was taken for n units: what is more than MinBlock
\* units too long becomes a free block of its own.
Split(s, a, n) ==
  IF s[a] - (n + 1) > MinBlock
    THEN [s EXCEPT ![a] = n + 1, ![a + n + 1] = s[a] - (n + 1)]
    ELSE s

\* The blocks that end where block a starts, of which there is at most one.
Before(s, a) == {b \in Addr : s[b] # 0 /\ b + s[b] = a}

\* The start of the free block that block a becomes part of when it is freed.
JoinStart(s, u, a) ==
  IF \E b \in Before(s, a) : ~u[b] THEN CHOOSE b \in Before(s, a) : ~u[b]
                                   ELSE a

\* Mutant: no look at the block behind.
JoinEndNear(s, u, a) == a + s[a]

\* The address behind it.
JoinEnd(s, u, a) ==
  LET e == a + s[a] IN IF IsFree(s, u, e) THEN e + s[e] ELSE e

\* Mutant: the headers inside the joined block survive.
JoinedOver(s, u, a) ==
  [s EXCEPT ![JoinStart(s, u, a)] = JoinEnd(s, u, a) - JoinStart(s, u, a)]

Joined(s, u, a) ==
  [b \in Addr |->
     IF b = JoinStart(s, u, a) THEN JoinEnd(s, u, a) - b
     ELSE IF JoinStart(s, u, a) < b /\ b < JoinEnd(s, u, a) THEN 0
     ELSE s[b]]

-----------------------------------------------------------------------------
\* pvPortMalloc and pvPortCalloc: zero units or no block that fits give NULL.
Malloc(n) ==
  \/ /\ n = 0 \/ Fitting(size, used, n) = {}
     /\ ret' = Null /\ UNCHANGED <<size, used>>
  \/ /\ n # 0 /\ Fitting(size, used, n) # {}
     /\ LET a == First(Fitting(size, used, n))
        IN  /\ size' = Split(size, a, n)
            /\ used' = [used EXCEPT ![a] = TRUE]
            /\ ret' = a

\* Mutant: the owner bit is not cleared.
FreeOwned(a) ==
  /\ IsBlock(size, a) /\ used[a]
  /\ size' = Joined(size, used, a)
  /\ ret' = Null /\ UNCHANGED used

\* vPortFree of a block the application owns.
Free(a) ==
  /\ IsBlock(size, a) /\ used[a]
  /\ size' = Joined(size, used, a)
  /\ used' = [used EXCEPT ![a] = FALSE]
  /\ ret' = Null

\* pvPortRealloc when the new block is found: allocate, then free the old one.
\* This is what it promises about the blocks; what its copy between the two
\* really writes is in Heap4.
Realloc(a, n) ==
  /\ IsBlock(size, a) /\ used[a] /\ n # 0 /\ Fitting(size, used, n) # {}
  /\ LET b == First(Fitting(size, used, n))
         s == Split(size, b, n)
         u == [used EXCEPT ![b] = TRUE]
     IN  /\ size' = Joined(s, u, a)
         /\ used' = [u EXCEPT ![a] = FALSE]
         /\ ret' = b

Next ==
  \/ \E n \in 0..MaxReq : Malloc(n)
  \/ \E a \in Addr : Free(a)
  \/ \E a \in Addr, n \in 0..MaxReq : Realloc(a, n)

Spec == Init /\ [][Next]_vars

-----------------------------------------------------------------------------
(* Properties *)

\* Sizes, owners and results are in range.
TypeOK ==
  /\ size \in [Addr -> 0..End]
  /\ used \in [Addr -> BOOLEAN]
  /\ ret \in Addr \union {Null}

\* The blocks tile the heap: one starts at 0, each ends where the next one
\* starts or at the end marker, and none starts inside another.  Two owners
\* never share a unit, and no unit is lost.
TiledBy(s) ==
  /\ s[0] # 0
  /\ \A a \in Addr : s[a] # 0 =>
       /\ a + s[a] <= End
       /\ a + s[a] < End => s[a + s[a]] # 0
       /\ \A b \in Addr : a < b /\ b < a + s[a] => s[b] = 0

Tiled == TiledBy(size)

\* Only blocks have an owner.
UsedAreBlocks == \A a \in Addr : used[a] => size[a] # 0

\* No two free blocks are neighbours: free always joins them, so that a long
\* free stretch is never refused because it is in pieces.
JoinedBy(s, u) ==
  \A a \in Addr : IsFree(s, u, a) => ~IsFree(s, u, a + s[a])

Coalesced == JoinedBy(size, used)

\* What malloc returns to one caller is not touched by what it does for
\* another: a block keeps its place and size from malloc to free.
BlocksStay ==
  [][\A a \in Addr : used[a] /\ used'[a] => size'[a] = size[a]]_vars
=============================================================================
