---------------------------- MODULE LedgerEntries ----------------------------
(***************************************************************************)
(* How a certificate addresses the netting ledger.  Its entries name an    *)
(* obligation, the two parties, the commitment they saw and the one they   *)
(* agreed on.                                                              *)
(***************************************************************************)
EXTENDS Naturals, Sequences

\* An obligation's slot is bound to its two parties: a certificate that names
\* others addresses a different slot.
KeyOf(e) == <<e.obligation, e.debtor, e.creditor>>

Entries(cert) == {cert.entries[i] : i \in DOMAIN cert.entries}
KeysOf(cert) == {KeyOf(e) : e \in Entries(cert)}
DebtorsOf(cert) == {e.debtor : e \in Entries(cert)}
PartiesOf(cert) == DebtorsOf(cert) \cup {e.creditor : e \in Entries(cert)}

=============================================================================
