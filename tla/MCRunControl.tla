--------------------------- MODULE MCRunControl ----------------------------
EXTENDS RunControl
=============================================================================
