---------------------------- MODULE MCDiskImage -----------------------------
EXTENDS DiskImage
Small == {[count |-> 4, bps |-> 128], [count |-> 5, bps |-> 256]}
=============================================================================
