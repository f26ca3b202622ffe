---------------------------- MODULE MCRateCheck ----------------------------
(* Values of RateCheck's function constants for TLC.                       *)
EXTENDS RateCheck, TLC

CONSTANTS s1, s2, x1, alice

MCSourceOf == [s \in Sub |-> x1]
MCOwnerOf == [s \in Sub |-> alice]
=============================================================================
