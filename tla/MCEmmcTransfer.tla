-------------------------- MODULE MCEmmcTransfer --------------------------
(* Finite instances of EmmcTransfer for TLC.                               *)
EXTENDS EmmcTransfer

R(w, m, f) == [write |-> w, multi |-> m, dontstdby |-> f]
AnyTransfer == Request
OneBlock    == {R(w, FALSE, f) : w, f \in BOOLEAN}
WriteOne    == {R(TRUE, FALSE, TRUE)}
=============================================================================
