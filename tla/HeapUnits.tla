------------------------------ MODULE HeapUnits ------------------------------
(***************************************************************************)
(* The memory that Heap and Heap4 describe, in units of 8 bytes:           *)
(* portBYTE_ALIGNMENT, and the size of the header (xHeapStructSize) every  *)
(* block starts with.                                                      *)
(***************************************************************************)
EXTENDS Integers

CONSTANTS
  End,       \* address of *pxEnd: the units available for blocks
  MaxReq     \* the largest request, in units

ASSUME HeapAssumption == End \in Nat \ {0} /\ MaxReq \in Nat

Addr == 0..(End - 1)
Null == -1

VARIABLE
  ret        \* what the last operation returned
=============================================================================
