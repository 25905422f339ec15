------------------------------ MODULE Contracts ------------------------------
(***************************************************************************)
(* The contracts, side by side: the registry with its settler, and the     *)
(* netting ledger.                                                         *)
(***************************************************************************)
EXTENDS Parts

CONSTANTS
    ZeroAddress,
    NoTx,           \* no call is executing
    \* the registry and the settler (see Settlement)
    Ids, Terms, Parties, Here, NotFound, SettlementTime, MaxLoop,
    \* the netting ledger (see LedgerTransaction)
    Addresses, Obligations, Commitments, Zero, CertificateIds, ZeroId,
    Certificates, LedgerTime

VARIABLES invoices, lastNonce, chainTime, settling
settlementVars == <<invoices, lastNonce, chainTime, settling>>
Settlements == INSTANCE Settlement WITH
    MaxTime <- SettlementTime, now <- chainTime, tx <- settling

VARIABLES state, applied, log, ledgerTime, call
ledgersVars == <<state, applied, log, ledgerTime, call>>
Ledgers == INSTANCE LedgerTransaction WITH
    MaxTime <- LedgerTime, now <- ledgerTime, tx <- call

ASSUME SettlementAssumption == Settlements!ConstantsAssumption
ASSUME LedgerAssumption == Ledgers!ConstantsAssumption

contractsVars == <<settlementVars, ledgersVars>>

ContractsInit ==
    /\ \/ part = "settlement" /\ Settlements!Init
       \/ part # "settlement" /\ Unused(invoices) /\ Unused(lastNonce) /\ Unused(chainTime)
          /\ Unused(settling)
    /\ \/ part = "ledger" /\ Ledgers!Init
       \/ part # "ledger" /\ Unused(state) /\ Unused(applied) /\ Unused(log) /\ Unused(ledgerTime)
          /\ Unused(call)

ContractsNext ==
    /\ UNCHANGED part
    /\ \/ part = "settlement" /\ Settlements!Next /\ UNCHANGED ledgersVars
       \/ part = "ledger" /\ Ledgers!Next /\ UNCHANGED settlementVars

ContractsSpec == ContractsInit /\ [][ContractsNext]_<<part, contractsVars>>

-----------------------------------------------------------------------------
\* Each property is stated, and its code behaviour described, in the module of
\* the part.

\* A loop leaves every net position where it was (see Settlement).
PositionsUnchanged ==
    [][part = "settlement" => Settlements!KeepsPositions]_settlementVars

\* A whole loop is netted or nothing, as InvoiceNetting says (see Settlement).
ImplementsInvoiceNetting ==
    /\ part = "settlement" => Settlements!Netting!Init
    /\ [][part = "settlement" => [Settlements!Netting!Next]_(Settlements!Netting!vars)]_settlementVars

\* applyCertificate does what NettingLedger says (see LedgerTransaction).
ImplementsNettingLedger ==
    /\ part = "ledger" => Ledgers!Ledger!Init
    /\ [][part = "ledger" => [Ledgers!Ledger!Next]_(Ledgers!Ledger!vars)]_ledgersVars
=============================================================================
