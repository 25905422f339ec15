-------------------------------- MODULE Parts --------------------------------
(***************************************************************************)
(* The components that are not composed with one another stand side by     *)
(* side: the part that moves is chosen at the start, and the variables of  *)
(* the others are never used.                                              *)
(***************************************************************************)
EXTENDS Naturals

VARIABLE part

Unused(v) == v = 0
=============================================================================
