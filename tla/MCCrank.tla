------------------------------ MODULE MCCrank -------------------------------
(* Instances of Crank for TLC.                                             *)
EXTENDS Crank

CONSTANTS f1, f2, f3

OneOfEach == {<<f1, "wallet">>, <<f2, "permission">>, <<f3, "escrow">>}
=============================================================================
