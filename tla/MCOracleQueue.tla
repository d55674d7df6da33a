--------------------------- MODULE MCOracleQueue ----------------------------
(* Instances of OracleQueue for TLC: the constants are in the .cfg file.   *)
EXTENDS OracleQueue
=============================================================================
