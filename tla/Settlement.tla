------------------------------ MODULE Settlement -----------------------------
(***************************************************************************)
(* ContraflowRegistry and ContraflowSettler, one storage write at a time.  *)
(* A settle call checks the loop it is given, then calls the registry once *)
(* for each invoice; the calls write to the transaction's own view of the  *)
(* storage, which the chain keeps when the transaction returns and throws  *)
(* away when any call reverts.  Calls that fail before their first write   *)
(* change nothing and are not steps.                                       *)
(***************************************************************************)
EXTENDS Integers, Sequences, Functions, LoopShape

CONSTANTS
    Ids,           \* attestations that may be presented, one id for each
    Terms,         \* what each attestation says
    Parties,       \* addresses other than zero
    ZeroAddress,
    Here,          \* this deployment: its token, registry address and chain
    NotFound,      \* an unused slot of _invoices
    NoTx,          \* no settle call is executing
    MaxTime,       \* bound on the clock
    MaxLoop        \* bound on the length of the loops settle is called with

VARIABLES
    invoices,      \* _invoices, as the chain holds it
    lastNonce,     \* _lastNonce
    now,           \* block.timestamp
    tx             \* the settle call being executed

vars == <<invoices, lastNonce, now, tx>>

MinCycleLength == 3
MaxCycleLength == 5

Pair(id) == <<Terms[id].debtor, Terms[id].creditor>>
Pairs == {Pair(id) : id \in Ids}

Invoice == [status : {"Active", "Extinguished"}, remaining : Nat]
Storage == [Ids -> Invoice \cup {NotFound}]
Loops == UNION {[1 .. n -> Ids] : n \in 1 .. MaxCycleLength}
Call == [loop : Loops, wNet : Nat, pos : 1 .. MaxCycleLength + 1,
         work : Storage]

\* What the constants are taken to be; the module that gives them values
\* assumes it.
ConstantsAssumption ==
    /\ Terms \in [Ids -> [debtor : Parties \cup {ZeroAddress},
                          creditor : Parties \cup {ZeroAddress},
                          amount : Nat, maturity : Nat, earlyNetConsent : BOOLEAN,
                          nonce : Nat, domain : {Here} \cup {"elsewhere"}]]
    /\ ZeroAddress \notin Parties
    /\ NotFound \notin Invoice \cup Nat
    /\ NoTx \notin Call
    /\ MaxTime \in Nat /\ MaxLoop \in Nat

Init ==
    /\ invoices = [id \in Ids |-> NotFound]
    /\ lastNonce = [p \in Pairs |-> 0]
    /\ now = 0
    /\ tx = NoTx
-----------------------------------------------------------------------------
WellFormed(id) ==
    /\ Terms[id].domain = Here
    /\ Terms[id].amount # 0
    /\ ZeroAddress \notin {Terms[id].debtor, Terms[id].creditor}
    /\ Terms[id].debtor # Terms[id].creditor

NextNonce(id) == Terms[id].nonce = lastNonce[Pair(id)] + 1

\* register: the two signers are the addresses recovered from the signatures.
Register(id, debtorSigner, creditorSigner) ==
    /\ tx = NoTx
    /\ WellFormed(id)
    /\ invoices[id] = NotFound
    /\ debtorSigner = Terms[id].debtor
    /\ creditorSigner = Terms[id].creditor
    /\ NextNonce(id)
    /\ lastNonce' = [lastNonce EXCEPT ![Pair(id)] = Terms[id].nonce]
    /\ invoices' = [invoices EXCEPT ![id] =
                       [status |-> "Active", remaining |-> Terms[id].amount]]
    /\ UNCHANGED <<now, tx>>
-----------------------------------------------------------------------------
\* getInvoice reverts on an id nobody registered, so a call that names one
\* ends while settle is still reading.
Registered == {id \in Ids : invoices[id] # NotFound}
ReadableLoops == UNION {[1 .. n -> Registered] : n \in 1 .. MaxLoop}

\* Mutant of LoopAccepted: the last edge need not close the loop.
PathAccepted(loop) ==
    /\ \A i, j \in DOMAIN loop : loop[i] = loop[j] => i = j
    /\ DebtorsDistinct([i \in DOMAIN loop |-> Terms[loop[i]]])
    /\ \A i \in 1 .. Len(loop) - 1 : Terms[loop[i]].creditor = Terms[loop[i + 1]].debtor

\* Passes 1 and 2 of settle, which only read.
LoopAccepted(loop) ==
    /\ \A i, j \in DOMAIN loop : loop[i] = loop[j] => i = j
    /\ SimpleLoop([i \in DOMAIN loop |-> Terms[loop[i]]])

SettleBegin(loop, wNet) ==
    /\ tx = NoTx
    /\ Len(loop) \in MinCycleLength .. MaxCycleLength
    /\ wNet # 0
    /\ LoopAccepted(loop)
    /\ tx' = [loop |-> loop, wNet |-> wNet, pos |-> 1, work |-> invoices]
    /\ UNCHANGED <<invoices, lastNonce, now>>

\* What the registry demands of one invoice before it subtracts.
Nettable(invoice, id, wNet) ==
    /\ invoice # NotFound
    /\ invoice.status = "Active"
    /\ now >= Terms[id].maturity \/ Terms[id].earlyNetConsent
    /\ wNet <= invoice.remaining

Netted(invoice, wNet) ==
    [status |-> IF invoice.remaining - wNet = 0 THEN "Extinguished"
                                                ELSE invoice.status,
     remaining |-> invoice.remaining - wNet]

\* The call that pass 3 makes for the invoice at its position in the loop.
NetInvoice ==
    /\ tx # NoTx
    /\ tx.pos <= Len(tx.loop)
    /\ LET id == tx.loop[tx.pos] IN
         /\ Nettable(tx.work[id], id, tx.wNet)
         /\ tx' = [tx EXCEPT !.pos = @ + 1,
                             !.work[id] = Netted(@, tx.wNet)]
    /\ UNCHANGED <<invoices, lastNonce, now>>

\* Mutant of SettleRevert: the invoices written so far stay written.
SettleStop ==
    /\ tx # NoTx
    /\ tx.pos <= Len(tx.loop)
    /\ LET id == tx.loop[tx.pos] IN ~ Nettable(tx.work[id], id, tx.wNet)
    /\ invoices' = tx.work
    /\ tx' = NoTx
    /\ UNCHANGED <<lastNonce, now>>

\* netInvoice reverts, and settle with it: every write so far is discarded.
SettleRevert ==
    /\ tx # NoTx
    /\ tx.pos <= Len(tx.loop)
    /\ LET id == tx.loop[tx.pos] IN ~ Nettable(tx.work[id], id, tx.wNet)
    /\ tx' = NoTx
    /\ UNCHANGED <<invoices, lastNonce, now>>

SettleCommit ==
    /\ tx # NoTx
    /\ tx.pos > Len(tx.loop)
    /\ invoices' = tx.work
    /\ tx' = NoTx
    /\ UNCHANGED <<lastNonce, now>>

\* A transaction sees one timestamp throughout.
Tick ==
    /\ tx = NoTx
    /\ now < MaxTime
    /\ now' = now + 1
    /\ UNCHANGED <<invoices, lastNonce, tx>>
-----------------------------------------------------------------------------
Amounts == 0 .. CHOOSE m \in {Terms[id].amount : id \in Ids} :
                    \A id \in Ids : Terms[id].amount <= m

Next ==
    \/ \E id \in Ids, d, c \in Parties \cup {ZeroAddress} : Register(id, d, c)
    \/ \E loop \in ReadableLoops, wNet \in Amounts : SettleBegin(loop, wNet)
    \/ NetInvoice
    \/ SettleRevert
    \/ SettleCommit
    \/ Tick

Spec == Init /\ [][Next]_vars
-----------------------------------------------------------------------------
\* A party's claims less its debts, over every registered invoice.
Owed == [id \in Ids |-> IF invoices[id] = NotFound THEN 0 ELSE invoices[id].remaining]
Position(p) ==
    LET owed(side) == SumFunctionOnSet(Owed, {id \in Registered : Terms[id][side] = p})
    IN owed("creditor") - owed("debtor")

\* settle: whatever loop and amount it is called with, and wherever it may
\* fail, changing what is owed on a registered invoice leaves the net position
\* of every party where it was.
KeepsPositions ==
    (\E id \in Registered : invoices'[id] # invoices[id])
        => \A p \in Parties : Position(p)' = Position(p)
PositionsUnchanged == [][KeepsPositions]_vars

\* The two contracts, writing one invoice at a time and undoing what they
\* wrote when one fails, net a whole loop or nothing, as InvoiceNetting says.
Netting == INSTANCE InvoiceNetting WITH
    Unregistered <- NotFound,
    remaining <- [id \in Ids |-> IF invoices[id] = NotFound THEN NotFound
                                 ELSE invoices[id].remaining]
ImplementsInvoiceNetting == Netting!Spec

-----------------------------------------------------------------------------
(* What a comment says and the contracts do not do.                        *)

\* runSettlementPipeline: "settle() always fully extinguishes whatever cycle
\* it's given", "never a partial leftover" on an invoice of the loop.
NoPartialLeftover ==
    tx = NoTx => \A id \in Registered : invoices[id].remaining \in {0, Terms[id].amount}
=============================================================================
