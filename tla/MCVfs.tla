-------------------------------- MODULE MCVfs --------------------------------
EXTENDS Vfs, TLC

MCPaths   == {<< >>, <<"dev">>, <<"dev", "hda0">>, <<"a", "b">>}
MCTargets == {<< >>, <<"dev">>, <<"a">>}
MCDiskNames == <<"hda0">>

\* Nothing tells one free heap address from another.
MCSymmetry == Permutations(InodeAddr) \cup Permutations(OpsAddr)
==============================================================================
