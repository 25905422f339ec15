------------------------------- MODULE MCSystem ------------------------------
(***************************************************************************)
(* The parts that stand side by side, for TLC: the contracts, the services *)
(* and the pages, over the invoices, certificates, rows and debts below.   *)
(***************************************************************************)
EXTENDS Contracts, Services, Pages, Sequences, TLC

CONSTANTS a, b, c, d
CONSTANTS ab1, ab1alt, ab2, bc, ca, ba, cd, da, zero, foreign   \* invoices
CONSTANTS k1, k2        \* requests, runs or actions that race

\* A triangle of debts and a four-party ring that share one, a mutual pair, two
\* attestations competing for the first nonce of a pair, one that needs its
\* maturity, and two the registry must refuse.
Attestation(debtor, creditor, amount, number) ==
    [debtor |-> debtor, creditor |-> creditor, amount |-> amount,
     maturity |-> 1, earlyNetConsent |-> TRUE, nonce |-> number,
     domain |-> Here]

MCIds == {ab1, ab1alt, ab2, bc, ca, ba, cd, da, zero, foreign}
MCTerms ==
    [id \in MCIds |->
       CASE id = ab1 -> Attestation(a, b, 2, 1)
         [] id = ab1alt -> Attestation(a, b, 1, 1)
         [] id = ab2 -> Attestation(a, b, 1, 2)
         [] id = bc -> [Attestation(b, c, 3, 1) EXCEPT !.earlyNetConsent = FALSE]
         [] id = ca -> Attestation(c, a, 2, 1)
         [] id = ba -> Attestation(b, a, 1, 1)
         [] id = cd -> Attestation(c, d, 2, 1)
         [] id = da -> Attestation(d, a, 1, 1)
         [] id = zero -> Attestation(c, b, 0, 1)
         [] id = foreign -> [Attestation(b, c, 1, 2) EXCEPT !.domain = "elsewhere"]]

\* Certificates over four obligations of three parties: built on each other, in
\* conflict with each other, sharing an id, and malformed.
E(obligation, debtor, creditor, prior, next) ==
    [obligation |-> obligation, debtor |-> debtor, creditor |-> creditor,
     prior |-> prior, next |-> next]
C(id, deadline, entries) == [id |-> id, deadline |-> deadline, entries |-> entries]

MCCertificates ==
    { C(1, 2, <<E("ab", a, b, 0, 1), E("ba", b, a, 0, 1)>>),
      \* in conflict with the first at its last entry only
      C(2, 1, <<E("bc", b, c, 0, 1), E("ca", c, a, 0, 1), E("ab", a, b, 0, 2)>>),
      \* built on the first, and another content under the same id
      C(3, 2, <<E("ab", a, b, 1, 2), E("bc", b, c, 0, 2), E("ca", c, a, 0, 2)>>),
      C(3, 2, <<E("ab", a, b, 1, 3), E("ba", b, a, 1, 2)>>),
      \* back to a commitment the obligations had before
      C(4, 1, <<E("ba", b, a, 2, 1), E("ab", a, b, 3, 1)>>),
      \* the same two obligations walked twice
      C(5, 1, <<E("ab", a, b, 0, 1), E("ba", b, a, 0, 1),
                E("ab", a, b, 1, 3), E("ba", b, a, 1, 3)>>),
      \* not a loop, not a change, back to zero, no id, and the wrong parties
      C(5, 1, <<E("ab", a, b, 0, 1), E("ca", c, a, 0, 1)>>),
      C(5, 1, <<E("ab", a, b, 0, 0), E("ba", b, a, 0, 3)>>),
      C(5, 1, <<E("ab", a, b, 1, 0), E("ba", b, a, 1, 3)>>),
      C(0, 1, <<E("ab", a, b, 0, 1), E("ba", b, a, 0, 1)>>),
      C(5, 1, <<E("ab", b, a, 0, 1), E("ba", a, b, 0, 1)>>) }

\* Rows in two currencies: a mutual pair, three-party loops that share edges and
\* amounts, one row that is not mature, and a party beyond.
Row(id, debtor, creditor, currency, remaining, ripe) ==
    [id |-> id, debtor |-> debtor, creditor |-> creditor, currency |-> currency,
     remaining |-> remaining, ripe |-> ripe]
Owed == { Row(1, "c", "p", "EUR", 2, TRUE), Row(2, "p", "c", "EUR", 1, FALSE),
          Row(3, "p", "q", "EUR", 3, TRUE), Row(4, "q", "c", "EUR", 2, TRUE),
          Row(5, "q", "r", "EUR", 3, TRUE), Row(6, "r", "c", "EUR", 3, TRUE),
          Row(7, "p", "q", "EUR", 1, TRUE), Row(8, "q", "c", "EUR", 3, TRUE),
          Row(9, "c", "r", "EUR", 1, TRUE), Row(10, "s", "c", "EUR", 1, TRUE),
          Row(11, "c", "q", "USD", 1, TRUE), Row(12, "q", "c", "USD", 1, TRUE) }
InCodeOrder == <<"EUR", "USD">>
Allowlists == {[party |-> "q", allowed |-> {"c"}]}

\* Three debts round: one netted before, one early with consent; r's party is a
\* smart account.
Debt(debtor, creditor, amount, maturity, early, left, blinding) ==
    [obligation |-> [debtor |-> debtor, creditor |-> creditor, currency |-> "EUR", amount |-> amount,
                     maturity |-> maturity, earlyNetConsent |-> early],
     remaining |-> left, blinding |-> blinding]
Debts == << Debt("p", "q", 3, 0, FALSE, 2, 5), Debt("q", "r", 2, 1, TRUE, 2, 0),
            Debt("r", "p", 4, 0, FALSE, 4, 0) >>

-----------------------------------------------------------------------------
\* No part tells the first two requests apart.
Alike == Permutations({k1, k2})

-----------------------------------------------------------------------------
Init ==
    /\ part \in {"settlement", "ledger", "grants", "demo", "index", "stats", "pipeline", "sessions",
                "signing in", "wallet", "views", "gateway", "loops", "checks"}
    /\ ContractsInit /\ ServicesInit /\ PagesInit

Next ==
    \/ ContractsNext /\ UNCHANGED <<servicesVars, pagesVars>>
    \/ ServicesNext /\ UNCHANGED <<contractsVars, pagesVars>>
    \/ PagesNext /\ UNCHANGED <<contractsVars, servicesVars>>
=============================================================================
