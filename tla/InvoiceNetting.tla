--------------------------- MODULE InvoiceNetting ----------------------------
(***************************************************************************)
(* What the registry and the settler promise together, with no transaction *)
(* inside: an invoice both parties attested appears once with its whole    *)
(* amount, under the next nonce of its pair, and from then on only shrinks *)
(* when a balanced set of distinct, nettable invoices shrinks with it, all *)
(* of them at once and by the same amount.                                 *)
(***************************************************************************)
EXTENDS Integers

CONSTANTS
    Ids,           \* attestations that may be presented, one id for each
    Terms,         \* what each attestation says
    Unregistered   \* the balance of an attestation nobody registered

VARIABLES
    remaining,     \* what is still owed on each invoice
    lastNonce,     \* the last nonce used by each <<debtor, creditor>> pair
    now            \* block.timestamp

vars == <<remaining, lastNonce, now>>

Pair(id) == <<Terms[id].debtor, Terms[id].creditor>>
Pairs == {Pair(id) : id \in Ids}

Mature(id) == now >= Terms[id].maturity \/ Terms[id].earlyNetConsent

\* Every party of the set owes one invoice in it and is owed one: taking the
\* same amount off all of them leaves everybody's net position where it was.
Balanced(S) ==
    /\ \A x \in S : \E y \in S : Terms[y].debtor = Terms[x].creditor
    /\ \A x, y \in S : Terms[x].debtor = Terms[y].debtor => x = y
    /\ \A x, y \in S : Terms[x].creditor = Terms[y].creditor => x = y

Init ==
    /\ remaining = [id \in Ids |-> Unregistered]
    /\ lastNonce = [p \in Pairs |-> 0]
    /\ now = 0

Register(id) ==
    /\ remaining[id] = Unregistered
    /\ Terms[id].amount > 0
    /\ Terms[id].debtor # Terms[id].creditor
    /\ Terms[id].nonce = lastNonce[Pair(id)] + 1
    /\ remaining' = [remaining EXCEPT ![id] = Terms[id].amount]
    /\ lastNonce' = [lastNonce EXCEPT ![Pair(id)] = @ + 1]
    /\ UNCHANGED now

Net(S, wNet) ==
    /\ S # {}
    /\ wNet > 0
    /\ \A id \in S : /\ remaining[id] >= wNet
                     /\ Mature(id)
    /\ Balanced(S)
    /\ remaining' = [id \in Ids |-> IF id \in S THEN remaining[id] - wNet
                                                ELSE remaining[id]]
    /\ UNCHANGED <<lastNonce, now>>

Tick ==
    /\ now' = now + 1
    /\ UNCHANGED <<remaining, lastNonce>>

Amounts == 1 .. CHOOSE m \in {Terms[id].amount : id \in Ids} :
                    \A id \in Ids : Terms[id].amount <= m

Next ==
    \/ \E id \in Ids : Register(id)
    \/ \E S \in SUBSET {id \in Ids : remaining[id] # Unregistered}, wNet \in Amounts : Net(S, wNet)
    \/ Tick

Spec == Init /\ [][Next]_vars

=============================================================================
