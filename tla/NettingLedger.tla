---------------------------- MODULE NettingLedger ----------------------------
(***************************************************************************)
(* What the netting ledger promises: a certificate every party has signed  *)
(* moves all its obligations at once, each from the commitment the parties *)
(* saw to the one they signed, at most once and not after its deadline.    *)
(* The log is the sequence of CertificateApplied events, each with those   *)
(* who had signed.                                                         *)
(***************************************************************************)
EXTENDS Naturals, Sequences, LedgerEntries

CONSTANTS
    Addresses,      \* whoever may owe, be owed or sign
    Zero,           \* the commitment of an obligation never netted
    Certificates    \* every certificate anyone may present

Keys == UNION {KeysOf(cert) : cert \in Certificates}

\* What a certificate does to one of its obligations.
EntryFor(cert, k) == CHOOSE e \in Entries(cert) : KeyOf(e) = k

VARIABLES
    state,          \* the current commitment of every obligation
    applied,        \* the ids of the certificates applied so far
    log,            \* those certificates, in order, and who had signed each
    now             \* block.timestamp

vars == <<state, applied, log, now>>

Init ==
    /\ state = [k \in Keys |-> Zero]
    /\ applied = {}
    /\ log = <<>>
    /\ now = 0

Apply(cert, signers) ==
    /\ cert.id \notin applied
    /\ now <= cert.deadline
    /\ PartiesOf(cert) \subseteq signers
    /\ \A e \in Entries(cert) : /\ e.prior = state[KeyOf(e)]
                                /\ e.next \notin {Zero, e.prior}
    /\ \A e, f \in Entries(cert) : KeyOf(e) = KeyOf(f) => e = f
    /\ state' = [k \in Keys |-> IF k \in KeysOf(cert) THEN EntryFor(cert, k).next
                                                     ELSE state[k]]
    /\ applied' = applied \cup {cert.id}
    /\ log' = Append(log, [cert |-> cert, signers |-> signers])
    /\ UNCHANGED now

Tick ==
    /\ now' = now + 1
    /\ UNCHANGED <<state, applied, log>>

Next ==
    \/ \E cert \in Certificates, signers \in SUBSET Addresses : Apply(cert, signers)
    \/ Tick

Spec == Init /\ [][Next]_vars
=============================================================================
