------------------------------- MODULE MCHeap -------------------------------
EXTENDS Heap

MCClasses == <<2, 4>>
=============================================================================
