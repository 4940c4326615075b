----------------------------- MODULE MCDialRetry -----------------------------
(* Model-checking instance of DialRetry: a list of three servers, the     *)
(* code's ceiling of 5 attempts, two or three concurrent Process calls on *)
(* one handler, and either no server up or only the last one.             *)
EXTENDS DialRetry

CONSTANTS c1, c2, c3

TwoConns   == {c1, c2}
ThreeConns == {c1, c2, c3}
NoneOrLastUp == {{}, {3}}
=============================================================================
