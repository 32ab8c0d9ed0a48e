------------------------------ MODULE MCMemory ------------------------------
EXTENDS VirtualMemory, TLC
DirSymmetry == Permutations(Dir)
=============================================================================
