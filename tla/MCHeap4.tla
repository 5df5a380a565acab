------------------------------ MODULE MCHeap4 ------------------------------
EXTENDS Heap4
=============================================================================
