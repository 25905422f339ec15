------------------------------ MODULE Agreements ------------------------------
(***************************************************************************)
(* What proposing an obligation promises, without calls and statements: a  *)
(* party of the obligation proposes it once, with a time to answer by; it  *)
(* is then closed at most once, by the other party in time, which records  *)
(* the obligation with it, or by either of the two, which does not.        *)
(***************************************************************************)
EXTENDS Integers

CONSTANTS Obligations, Pairs, DocumentOf, Parties, Nobody, Lifetime, MaxTime

VARIABLES
    proposals,      \* netting_proposals, by obligation id
    recorded        \* netting_obligations

vars == <<proposals, recorded>>

NoProposal == [status |-> "none", proposer |-> Nobody, closedBy |-> Nobody,
               closedAt |-> 0, expiresAt |-> 0]

Init ==
    /\ proposals = [o \in Obligations |-> NoProposal]
    /\ recorded = {}

Propose(o, p, t) ==
    /\ proposals[o].status = "none"
    /\ p \in {Pairs[o][1], Pairs[o][2]}
    /\ proposals' = [proposals EXCEPT ![o] =
                        [NoProposal EXCEPT !.status = "open", !.proposer = p, !.expiresAt = t + Lifetime]]
    /\ UNCHANGED recorded

Accept(o, p, t) ==
    /\ proposals[o].status = "open" /\ t < proposals[o].expiresAt
    /\ p \in {Pairs[o][1], Pairs[o][2]} \ {proposals[o].proposer}
    /\ \A other \in recorded : DocumentOf[other] # DocumentOf[o]
    /\ proposals' = [proposals EXCEPT ![o].status = "accepted", ![o].closedBy = p,
                                      ![o].closedAt = t]
    /\ recorded' = recorded \cup {o}

TakeBack(o, p, t) ==
    /\ proposals[o].status = "open"
    /\ p \in {Pairs[o][1], Pairs[o][2]}
    /\ proposals' = [proposals EXCEPT ![o].status = "withdrawn", ![o].closedBy = p,
                                      ![o].closedAt = t]
    /\ UNCHANGED recorded

Next == \E o \in Obligations, p \in Parties, t \in 0 .. MaxTime :
            Propose(o, p, t) \/ Accept(o, p, t) \/ TakeBack(o, p, t)

Spec == Init /\ [][Next]_vars
=============================================================================
