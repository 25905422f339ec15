----------------------------- MODULE MCSettlement ----------------------------
(***************************************************************************)
(* Invoices for TLC: a triangle of debts and a four-party ring that share  *)
(* one, a mutual pair, two attestations competing for the first nonce of a *)
(* pair, one that needs its maturity, and two the registry must refuse.    *)
(***************************************************************************)
EXTENDS Settlement

CONSTANTS a, b, c, d
CONSTANTS ab1, ab1alt, ab2, bc, ca, ba, cd, da, zero, foreign

Attestation(debtor, creditor, amount, nonce) ==
    [debtor |-> debtor, creditor |-> creditor, amount |-> amount,
     maturity |-> 1, earlyNetConsent |-> TRUE, nonce |-> nonce,
     domain |-> Here]

MCParties == {a, b, c, d}
MCIds == {ab1, ab1alt, ab2, bc, ca, ba, cd, da, zero, foreign}
MCTerms ==
    [id \in MCIds |->
       CASE id = ab1 -> Attestation(a, b, 2, 1)
         [] id = ab1alt -> Attestation(a, b, 1, 1)
         [] id = ab2 -> Attestation(a, b, 1, 2)
         [] id = bc -> [Attestation(b, c, 3, 1) EXCEPT !.earlyNetConsent = FALSE]
         [] id = ca -> Attestation(c, a, 2, 1)
         [] id = ba -> Attestation(b, a, 1, 1)
         [] id = cd -> Attestation(c, d, 2, 1)
         [] id = da -> Attestation(d, a, 1, 1)
         [] id = zero -> Attestation(c, b, 0, 1)
         [] id = foreign -> [Attestation(b, c, 1, 2) EXCEPT !.domain = "elsewhere"]]
=============================================================================
