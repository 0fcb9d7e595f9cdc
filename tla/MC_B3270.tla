------------------------------ MODULE MC_B3270 ------------------------------
(* The b3270 -json dialect on its stdin, for TLC. *)
EXTENDS ScriptChannel

MCDialect == "b3270"
MCMaxUnits == 3
=============================================================================
