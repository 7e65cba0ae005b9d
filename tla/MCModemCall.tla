---------------------------- MODULE MCModemCall -----------------------------
EXTENDS ModemCall
=============================================================================
