-------------------------- MODULE LedgerTransaction --------------------------
(***************************************************************************)
(* ContraflowNettingLedger.applyCertificate, one storage write at a time.  *)
(* The two checking passes only read, so a call that fails one of them     *)
(* leaves no trace and is not a step.  The effects pass compares and swaps *)
(* one commitment after another in the transaction's own view of storage,  *)
(* which is kept when the call returns and discarded when it reverts.      *)
(***************************************************************************)
EXTENDS Naturals, Sequences, LoopShape, LedgerEntries

CONSTANTS
    Addresses,      \* whoever may owe, be owed or sign, the zero address too
    ZeroAddress,
    Obligations,    \* obligation ids
    Commitments,
    Zero,           \* bytes32(0) as a commitment: an unused slot
    CertificateIds,
    ZeroId,         \* bytes32(0) as a certificate id
    Certificates,   \* every certificate anyone may present
    NoTx,           \* no call is executing
    MaxTime         \* bound on the clock

VARIABLES
    state,          \* _state, as the chain holds it
    applied,        \* the ids for which _applied is true
    log,            \* the CertificateApplied events, in order, and who had signed
    now,            \* block.timestamp
    tx              \* the call being executed

vars == <<state, applied, log, now, tx>>

MinCycleLength == 2
MaxCycleLength == 5

Keys == UNION {KeysOf(cert) : cert \in Certificates}
Entry == [obligation : Obligations, debtor : Addresses, creditor : Addresses,
          prior : Commitments, next : Commitments]
Certificate == [id : CertificateIds \cup {ZeroId}, deadline : Nat,
                entries : Seq(Entry)]
Call == [cert : Certificates, signers : SUBSET Addresses, pos : Nat,
         work : [Keys -> Commitments]]

\* What the constants are taken to be; the module that gives them values
\* assumes it.
ConstantsAssumption ==
    /\ Certificates \subseteq Certificate
    /\ Zero \in Commitments
    /\ NoTx \notin Call
    /\ MaxTime \in Nat

Init ==
    /\ state = [k \in Keys |-> Zero]
    /\ applied = {}
    /\ log = <<>>
    /\ now = 0
    /\ tx = NoTx
-----------------------------------------------------------------------------
\* Pass 1.
LoopAccepted(cert) ==
    /\ SimpleLoop(cert.entries)
    /\ \A e \in Entries(cert) : /\ ZeroAddress \notin {e.debtor, e.creditor}
                                /\ e.next \notin {Zero, e.prior}

\* Mutant of SignaturesAccepted: one signature of the debtors is enough.
OneSignatureAccepted(cert, signers) == DebtorsOf(cert) \cap signers # {}

\* Pass 2 asks only for the debtors' signatures over this very certificate.
SignaturesAccepted(cert, signers) == DebtorsOf(cert) \subseteq signers

ApplyBegin(cert, signers) ==
    /\ tx = NoTx
    /\ cert.id # ZeroId
    /\ now <= cert.deadline
    /\ cert.id \notin applied
    /\ Len(cert.entries) \in MinCycleLength .. MaxCycleLength
    /\ LoopAccepted(cert)
    /\ SignaturesAccepted(cert, signers)
    /\ tx' = [cert |-> cert, signers |-> signers, pos |-> 1, work |-> state]
    /\ UNCHANGED <<state, applied, log, now>>

\* Pass 3, one obligation.
Current == tx.cert.entries[tx.pos]
Fresh == tx.work[KeyOf(Current)] = Current.prior

CompareAndSwap ==
    /\ tx # NoTx
    /\ tx.pos <= Len(tx.cert.entries)
    /\ Fresh
    /\ tx' = [tx EXCEPT !.pos = @ + 1, !.work[KeyOf(Current)] = Current.next]
    /\ UNCHANGED <<state, applied, log, now>>

\* StaleCommitment: the writes so far are discarded, _applied among them.
ApplyRevert ==
    /\ tx # NoTx
    /\ tx.pos <= Len(tx.cert.entries)
    /\ ~ Fresh
    /\ tx' = NoTx
    /\ UNCHANGED <<state, applied, log, now>>

ApplyCommit ==
    /\ tx # NoTx
    /\ tx.pos > Len(tx.cert.entries)
    /\ state' = tx.work
    /\ applied' = applied \cup {tx.cert.id}
    /\ log' = Append(log, [cert |-> tx.cert, signers |-> tx.signers])
    /\ tx' = NoTx
    /\ UNCHANGED now

\* A transaction sees one timestamp throughout.
Tick ==
    /\ tx = NoTx
    /\ now < MaxTime
    /\ now' = now + 1
    /\ UNCHANGED <<state, applied, log, tx>>

Next ==
    \/ \E cert \in Certificates, signers \in SUBSET (Addresses \ {ZeroAddress}) :
          ApplyBegin(cert, signers)
    \/ CompareAndSwap
    \/ ApplyRevert
    \/ ApplyCommit
    \/ Tick

Spec == Init /\ [][Next]_vars
-----------------------------------------------------------------------------
\* applyCertificate: writing one commitment at a time, with the signatures of
\* the debtors alone, still does what NettingLedger says: all or nothing, every
\* obligation from the state the parties saw, both parties of each having
\* signed, each certificate id once and in time.
Ledger == INSTANCE NettingLedger
ImplementsNettingLedger == Ledger!Spec

=============================================================================
