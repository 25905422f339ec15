------------------------------ MODULE MCRequests ------------------------------
(***************************************************************************)
(* ApiRequests for TLC: two requests at a time, for one of the operations  *)
(* whose handlers do the same.                                             *)
(***************************************************************************)
EXTENDS ApiRequests

CONSTANTS r1, r2

Like(h) == {o \in DOMAIN Handlers : Handlers[o] = h}
MCOperations == {CHOOSE o \in Like(Handlers[each]) : TRUE : each \in DOMAIN Handlers}
=============================================================================
