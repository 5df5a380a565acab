------------------------------ MODULE MCHeap ------------------------------
EXTENDS Heap
=============================================================================
