---------------------------- MODULE MCNetBrowser ----------------------------
EXTENDS NetBrowser
=============================================================================
