---------------------------- MODULE MCModemLine -----------------------------
(***************************************************************************)
(* ModemLine for TLC. The bounds are in the cfg files: Modem.cfg for the   *)
(* data and for progress, ModemOff.cfg for the modem switched off in       *)
(* stream mode.                                                            *)
(***************************************************************************)
EXTENDS ModemLine
=============================================================================
