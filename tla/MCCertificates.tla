---------------------------- MODULE MCCertificates ---------------------------
(***************************************************************************)
(* Two parties and three obligations for TLC: one debt that could be       *)
(* netted against either of two others, so that certificates over it       *)
(* compete and follow one another.                                         *)
(***************************************************************************)
EXTENDS Certificates

CONSTANTS a, b, ab, ba, ba2

MCParties == {a, b}
MCObligations == {ab, ba, ba2}
MCTerms ==
    [o \in MCObligations |->
       CASE o = ab -> [debtor |-> a, creditor |-> b, amount |-> 2]
         [] o = ba -> [debtor |-> b, creditor |-> a, amount |-> 1]
         [] o = ba2 -> [debtor |-> b, creditor |-> a, amount |-> 2]]
MCIds == {1, 2}
MCOneId == {1}
=============================================================================
