------------------------------ MODULE MC_S3270 ------------------------------
(* The s3270 script dialect on one connection, for TLC. *)
EXTENDS ScriptChannel

MCDialect == "s3270"
MCMaxUnits == 3
=============================================================================
