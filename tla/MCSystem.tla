------------------------------ MODULE MCSystem ------------------------------
EXTENDS Installer

MCPaths     == {<<"target", "boot">>}
MCTargets   == {<< >>, <<"dev">>, <<"target">>}
MCDiskNames == <<"hda0", "hda1", "hda2">>
=============================================================================
