------------------------------ MODULE MCProposals -----------------------------
(***************************************************************************)
(* Proposals for TLC: two parties and a stranger, and two proposals of the *)
(* same document, which differ in their salt.                              *)
(***************************************************************************)
EXTENDS Proposals, TLC

CONSTANTS a, b, s, o1, o2, doc

MCParties == {a, b, s}
MCObligations == {o1, o2}
MCPairs == [o \in Obligations |-> <<a, b>>]
MCDocumentOf == [o \in Obligations |-> doc]
MCSymmetry == Permutations(Calls)
=============================================================================
