---------------------------- MODULE MCEmmcEnum ----------------------------
(* Finite instances of EmmcEnum for TLC.                                   *)
EXTENDS EmmcEnum

AnyCard == Kind
=============================================================================
