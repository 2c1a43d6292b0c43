----------------------------- MODULE MCX1Control -----------------------------
(* Values for X1Control: the house feeds in, or draws. *)
EXTENDS X1Control

SurplusAndDemand == {-2, 3}
=============================================================================
