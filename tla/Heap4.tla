-------------------------------- MODULE Heap4 --------------------------------
(***************************************************************************)
(* The allocator of src/src/freertos/heap_4_custom.c with its data         *)
(* structures: a header in front of every block, the list of free blocks   *)
(* from xStart to pxEnd in the order of their addresses, and the counters  *)
(* of free bytes.  It implements Heap, as long as pvPortRealloc and        *)
(* pvPortCalloc stay inside the block they were given.                     *)
(*                                                                         *)
(* Words that are not headers are payload: they are not modelled, and      *)
(* shown as 0 (a header that is merged into the block before it becomes    *)
(* payload).                                                               *)
(*                                                                         *)
(* Every operation runs with the scheduler suspended except the first part *)
(* of vPortFree, which clears the owner bit before it suspends it.         *)
(***************************************************************************)
EXTENDS HeapUnits, FiniteSets

CONSTANT
  MaxFreeing \* bound: tasks that are inside vPortFree at the same time

ASSUME FreeingAssumption == MaxFreeing \in Nat \ {0}

Start == -2   \* address of xStart, which lies outside the heap
Link  == Addr \union {Start}
Word  == Link \union {End}

\* Mutant: one header is enough.
OneHeader == 1

\* The smallest block that is worth splitting off: two headers.
heapMINIMUM_BLOCK_SIZE == 2

VARIABLES
  ready,    \* pxEnd # NULL
  mem,      \* the headers: next is pxNextFreeBlock, size xBlockSize without
            \* its top bit, alloc the addresses with that bit set
  free,     \* xFreeBytesRemaining
  minEver,  \* xMinimumEverFreeBytesRemaining
  freeing,  \* blocks between the two parts of vPortFree
  owned,    \* history: the blocks that callers hold
  smashed   \* history: a copy went past the end of its block

listVars == <<ready, mem, free, minEver, freeing, ret, owned, smashed>>

ListInit ==
  /\ ready = FALSE
  /\ mem = [next |-> [w \in Word |-> Null], size |-> [w \in Word |-> 0], alloc |-> {}]
  /\ free = 0 /\ minEver = 0 /\ freeing = {} /\ ret = Null
  /\ owned = {} /\ smashed = FALSE

-----------------------------------------------------------------------------
(* The free list. *)

\* prvHeapInit: one free block in front of the end marker.
prvHeapInit(m) ==
  [m EXCEPT !.next[Start] = 0, !.size[0] = End, !.next[0] = End]

\* A loop along the list, from link p: step is its body, and leaves alone the
\* link at which the loop's condition fails.  Addresses grow along the list,
\* so no loop has more than End iterations.
Loop(step, p) ==
  LET at[i \in 0..End] == IF i = 0 THEN p ELSE step[at[i - 1]]
  IN  at[End]

\* Mutant: blocks are inserted at the front of the list.
IteratorFront(m, b) == Start

\* The link after which a block at address b belongs: pxIterator.
Iterator(m, b) ==
  Loop([p \in Link |-> IF m.next[p] < b THEN m.next[p] ELSE p], Start)

\* Mutant: a block is linked in and joined with no neighbour.
prvInsertOnly(m, b) ==
  [m EXCEPT !.next[b] = m.next[Iterator(m, b)], !.next[Iterator(m, b)] = b]

\* prvInsertBlockIntoFreeList: block b is joined with the free block in front
\* of it and with the one behind it where they are adjacent.
prvInsertBlockIntoFreeList(m, b) ==
  LET it    == Iterator(m, b)
      nx    == m.next[it]
      left  == it # Start /\ it + m.size[it] = b
      top   == IF left THEN it ELSE b
      len   == IF left THEN m.size[it] + m.size[b] ELSE m.size[b]
      right == top + len = nx /\ nx # End
      gone  == (IF left THEN {b} ELSE {}) \union (IF right THEN {nx} ELSE {})
  IN  [next  |-> [w \in Word |->
                    IF w \in gone THEN Null
                    ELSE IF w = top THEN (IF right THEN m.next[nx] ELSE nx)
                    ELSE IF w = it THEN top
                    ELSE m.next[w]],
       size  |-> [w \in Word |->
                    IF w \in gone THEN 0
                    ELSE IF w = top THEN (IF right THEN len + m.size[nx] ELSE len)
                    ELSE m.size[w]],
       alloc |-> m.alloc]

\* The link in front of the first block with room for n units, or in front of
\* the end marker: pxPreviousBlock.
Previous(m, n) ==
  LET stops(b) == m.size[b] >= n + 1 \/ m.next[b] = Null
  IN  Loop([p \in Link |-> IF stops(m.next[p]) THEN p ELSE m.next[p]], Start)

\* Block b behind link p is taken out of the list for n units; what is more
\* than heapMINIMUM_BLOCK_SIZE too long goes back to it.
Taken(m, p, b, n) ==
  LET out  == [m EXCEPT !.next[p] = m.next[b]]
      rest == b + n + 1
      cut  == IF m.size[b] - (n + 1) > heapMINIMUM_BLOCK_SIZE
                THEN prvInsertBlockIntoFreeList(
                       [out EXCEPT !.size[rest] = m.size[b] - (n + 1),
                                   !.size[b] = n + 1], rest)
                ELSE out
  IN  [cut EXCEPT !.next[b] = Null, !.alloc = @ \union {b}]

\* pvPortMalloc(n) on headers m and f free units: the block, Null if there is
\* none, and the headers and the counter afterwards.
Malloced(m, f, n) ==
  LET p == Previous(m, n)
      b == m.next[p]
      t == Taken(m, p, b, n)
  IN  IF n = 0 \/ n + 1 > f \/ b = End
        THEN [at |-> Null, mem |-> m, free |-> f]
        ELSE [at |-> b, mem |-> t, free |-> f - t.size[b]]

\* The first call of pvPortMalloc initialises the heap.
Mem  == IF ready THEN mem ELSE prvHeapInit(mem)
Room == IF ready THEN free ELSE End
Low  == IF ready THEN minEver ELSE End

Lower(x, y) == IF x < y THEN x ELSE y

-----------------------------------------------------------------------------
(* The operations. *)

pvPortMalloc(n) ==
  LET r == Malloced(Mem, Room, n)
  IN  /\ ~smashed
      /\ ready' = TRUE /\ mem' = r.mem /\ free' = r.free
      /\ minEver' = Lower(Low, r.free)
      /\ ret' = r.at
      /\ owned' = IF r.at = Null THEN owned ELSE owned \union {r.at}
      /\ UNCHANGED <<freeing, smashed>>

\* Like malloc, and the payload is cleared; with no check of malloc's result,
\* so that a failure clears memory at address 0.
pvPortCalloc(n) ==
  LET r == Malloced(Mem, Room, n)
  IN  /\ ~smashed
      /\ ready' = TRUE /\ mem' = r.mem /\ free' = r.free
      /\ minEver' = Lower(Low, r.free)
      /\ ret' = r.at
      /\ owned' = IF r.at = Null THEN owned ELSE owned \union {r.at}
      /\ smashed' = (r.at = Null /\ n # 0)
      /\ UNCHANGED freeing

\* vPortFree, the part before vTaskSuspendAll.
vPortFreeMark(a) ==
  /\ ~smashed /\ a \in owned /\ Cardinality(freeing) < MaxFreeing
  /\ a \in mem.alloc /\ mem.next[a] = Null
  /\ mem' = [mem EXCEPT !.alloc = @ \ {a}]
  /\ freeing' = freeing \union {a} /\ owned' = owned \ {a}
  /\ UNCHANGED <<ready, free, minEver, ret, smashed>>

\* Mutant: xFreeBytesRemaining is not given the block back.
vPortFreeUncounted(a) ==
  /\ ~smashed /\ a \in freeing
  /\ mem' = prvInsertBlockIntoFreeList(mem, a)
  /\ freeing' = freeing \ {a} /\ ret' = Null
  /\ UNCHANGED <<ready, free, minEver, owned, smashed>>

\* vPortFree, the part with the scheduler suspended.
vPortFreeInsert(a) ==
  /\ ~smashed /\ a \in freeing
  /\ free' = free + mem.size[a]
  /\ mem' = prvInsertBlockIntoFreeList(mem, a)
  /\ freeing' = freeing \ {a} /\ ret' = Null
  /\ UNCHANGED <<ready, minEver, owned, smashed>>

\* pvPortRealloc of an owned block: a new block, a copy of as many units as
\* the old block has with its header, one unit more than its payload, and
\* vPortFree of the old block.
pvPortRealloc(a, n) ==
  LET r    == Malloced(mem, free, n)
      size == mem.size[a]
      left == [r.mem EXCEPT !.alloc = @ \ {a}]
  IN  /\ ~smashed /\ a \in owned
      /\ r.at # Null /\ size < r.mem.size[r.at]
      /\ mem' = prvInsertBlockIntoFreeList(left, a)
      /\ free' = r.free + size
      /\ minEver' = Lower(minEver, r.free)
      /\ ret' = r.at /\ owned' = (owned \ {a}) \union {r.at}
      /\ UNCHANGED <<ready, freeing, smashed>>

\* The header at w becomes a copy of the header at v.
Overwritten(m, w, v) ==
  [m EXCEPT !.next[w] = m.next[v], !.size[w] = m.size[v],
            !.alloc = IF v \in @ THEN @ \union {w} ELSE @ \ {w}]

\* pvPortRealloc when the copy leaves the new block, or malloc failed and it
\* goes to address 0: the state after the copy.  If the blocks have the same
\* size, the header behind the old block replaces the one behind the new
\* block; if the new one is smaller, some payload does, which may be 0.
\* What vPortFree makes of it is left open: the model ends here.
pvPortReallocPast(a, n) ==
  LET r    == Malloced(mem, free, n)
      size == mem.size[a]
      past == r.at + r.mem.size[r.at]
  IN  /\ ~smashed /\ a \in owned
      /\ \/ /\ r.at = Null
            /\ mem' = r.mem
         \/ /\ r.at # Null /\ size = r.mem.size[r.at]
            /\ mem' = Overwritten(r.mem, past, a + size)
         \/ /\ r.at # Null /\ size > r.mem.size[r.at]
            /\ mem' = [r.mem EXCEPT !.next[past] = Null, !.size[past] = 0,
                                    !.alloc = @ \ {past}]
      /\ free' = r.free /\ minEver' = Lower(minEver, r.free)
      /\ ret' = r.at
      /\ owned' = IF r.at = Null THEN owned ELSE owned \union {r.at}
      /\ smashed' = TRUE
      /\ UNCHANGED <<ready, freeing>>

ListNext ==
  \/ \E n \in 0..MaxReq : pvPortMalloc(n) \/ pvPortCalloc(n)
  \/ \E a \in Addr : vPortFreeMark(a) \/ vPortFreeInsert(a)
  \/ \E a \in Addr, n \in 0..MaxReq : pvPortRealloc(a, n) \/ pvPortReallocPast(a, n)

ListSpec == ListInit /\ [][ListNext]_listVars

-----------------------------------------------------------------------------
(* Properties *)

\* The abstract heap: the sizes in the headers, and the blocks that belong to
\* a caller or are on their way back.
H == INSTANCE Heap WITH
       size <- [a \in Addr |-> IF ~ready THEN (IF a = 0 THEN End ELSE 0)
                                         ELSE mem.size[a]],
       used <- [a \in Addr |-> a \in mem.alloc \union freeing]

\* The blocks, those that nobody owns and that are not on their way back, and
\* the units in these.
Blocks     == {a \in Addr : mem.size[a] # 0}
FreeBlocks == Blocks \ (owned \union freeing)
FreeUnits  == {x \in Addr : \E a \in FreeBlocks : a <= x /\ x < a + mem.size[a]}

Sound == ready /\ ~smashed

\* The blocks tile the heap, and the free list leads from each free block, and
\* from xStart to the first, to the next one in the order of the addresses,
\* from the last to the end marker, and no two of them are adjacent: malloc,
\* free in its two parts and realloc keep the list that the next of them
\* relies on.
FreeListExact ==
  Sound =>
    /\ H!Tiled
    /\ \A p \in {Start} \union FreeBlocks :
         /\ p < mem.next[p] /\ mem.next[p] \in FreeBlocks \union {End}
         /\ \A a \in FreeBlocks : ~(p < a /\ a < mem.next[p])
    /\ \A a \in FreeBlocks : a + mem.size[a] # mem.next[a] \/ mem.next[a] = End

\* xFreeBytesRemaining is the size of the blocks on the free list, whatever
\* happens between the two parts of vPortFree, and never was below
\* xMinimumEverFreeBytesRemaining.
FreeBytesExact ==
  Sound => free = Cardinality(FreeUnits) /\ minEver <= free

\* When every block has been given back, the heap is one free block again: no
\* sequence of operations fragments or leaks it for good.
AllReturned ==
  Sound /\ owned = {} /\ freeing = {} =>
    Blocks = {0} /\ mem.next[Start] = 0 /\ free = End

\* A block that a caller holds passes the assertions of vPortFree: its header
\* is marked as allocated and has no successor ("Check the block is actually
\* allocated").
OwnedBlocksMarked ==
  \A a \in owned : a \in mem.alloc /\ mem.next[a] = Null

\* The list, the owner bits and the two parts of vPortFree implement the
\* allocator of Heap, up to the step that writes past a block.
ImplementsHeap == H!Init /\ [][H!Next \/ smashed']_(H!vars)
=============================================================================
