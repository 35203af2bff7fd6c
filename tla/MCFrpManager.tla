---------------------------- MODULE MCFrpManager ----------------------------
(* TLC instance of FrpManager.                                               *)
EXTENDS FrpManager, TLC

============================================================================
