-------------------------- MODULE MCCertificateCases -------------------------
(***************************************************************************)
(* The certificate service of MCCertificates in three cases that TLC       *)
(* explores one beside the other, told apart by the time at which the      *)
(* clock starts, or stands: calls that view and sign two certificates      *)
(* while time passes; a party that closes or disputes an obligation of     *)
(* theirs; and two loop searches over the same obligations.                *)
(***************************************************************************)
EXTENDS MCCertificates, TLC

CONSTANTS r1, r2, s1, s2, u1

MCUnseen == {u1}
MCRequests == {r1, r2}
MCSearches == {s1, s2}
MCKinds == {"view", "sign"}
MCDisputable == {ab}
Alike == Permutations(MCRequests) \cup Permutations(MCSearches)

Disputing == MaxTime + 1
Competing == MaxTime + 2
CasesInit == \E clock \in {0, Disputing, Competing} : InitAt(clock)

Calling == {r \in Requests : req[r] # Idle}
Searching == {s \in Searches : search[s] # Idle}
CallOf(r) == IF req[r].pc = "dispute" THEN "dispute" ELSE req[r].kind
OfKind(kind) == {r \in Calling : CallOf(r) = kind}

\* What a case leaves out.  Whoever views a certificate, the call is the same.
Within ==
    /\ \A r \in OfKind("view") : now <= MaxTime /\ req[r].party = a
    /\ \A r \in OfKind("dispute") : now = Disputing /\ req[r].party = a
    /\ Cardinality(OfKind("sign")) <= 1
    /\ Cardinality(Calling) <= IF now <= MaxTime THEN 2 ELSE 1
    /\ Cardinality(Searching) <= IF now = Competing THEN 2 ELSE 1
    /\ \A s \in Searching : search[s].at \in {0, Disputing, Competing}
    /\ now # Disputing => \A o \in Obligations : rows[o].status # "closed"
    /\ now > MaxTime => ~ Applied(u1)
=============================================================================
