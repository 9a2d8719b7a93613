------------------------- MODULE MCServerLifecycle -------------------------
(***************************************************************************)
(* ServerLifecycle for TLC: sockets and requests are model values.         *)
(***************************************************************************)
EXTENDS ServerLifecycle
CONSTANTS s1, s2, r1, r2
=============================================================================
