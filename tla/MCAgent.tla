------------------------------ MODULE MCAgent ------------------------------
(***************************************************************************)
(* Agent for TLC: hosts and connections are model values.                  *)
(***************************************************************************)
EXTENDS Agent
CONSTANTS c1, c2, h1, h2
=============================================================================
