------------------------------ MODULE MCIdeDisk ------------------------------
EXTENDS IdeDisk
==============================================================================
