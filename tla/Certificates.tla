----------------------------- MODULE Certificates ----------------------------
(***************************************************************************)
(* Offchain netting: the certificate service and its database, the ledger  *)
(* it follows, and the parties, who may apply what they signed whenever    *)
(* the ledger lets them.                                                   *)
(*                                                                         *)
(* A service call is a process: it reads a row, awaits the ledger, writes, *)
(* and anything may happen in between.  A database transaction is one      *)
(* step, as the row locks it takes make it, and so is an applied           *)
(* certificate (LedgerTransaction shows that).  Blindings are fresh, so    *)
(* the commitment of an obligation is named by the certificate that made   *)
(* it, and Genesis stands for the zero commitment of an obligation never   *)
(* netted.                                                                 *)
(***************************************************************************)
EXTENDS Naturals, Sequences, FiniteSets, FiniteSetsExt, LoopShape

CONSTANTS
    Obligations,     \* obligations both parties signed
    Terms,           \* who owes whom how much on each
    Parties,
    CertificateIds,  \* ids the service may draw, in the order it draws them
    Unseen,          \* certificates parties make and apply without the service
    Genesis,
    Requests,        \* calls about a certificate that may run at once
    Kinds,           \* what those calls may be, among CallKinds
    Searches,        \* loop searches that may run at once
    Closable,        \* obligations a party may close
    Disputable,      \* obligations a party may dispute
    Lifetime,        \* CERTIFICATE_LIFETIME_SECONDS
    Grace,           \* EXPIRY_GRACE_SECONDS
    MaxLag,          \* how far chain time may trail the server clock
    MaxAttempts,     \* MAX_SEARCH_ATTEMPTS
    LastSearch,      \* bound: no search starts later
    MaxTime          \* bound on the clock

CallKinds == {"view", "sign", "decline"}
ClosedStatuses == {"applied", "expired", "abandoned"}
Versions == {Genesis} \cup CertificateIds \cup Unseen

ASSUME ConstantsAssumption ==
    /\ Terms \in [Obligations -> [debtor : Parties, creditor : Parties, amount : Nat \ {0}]]
    /\ CertificateIds \subseteq Nat
    /\ Kinds \subseteq CallKinds
    /\ Closable \subseteq Obligations /\ Disputable \subseteq Obligations
    /\ Genesis \notin CertificateIds \cup Unseen
    /\ CertificateIds \cap Unseen = {}
    /\ {Lifetime, Grace, MaxLag, MaxAttempts, LastSearch, MaxTime} \subseteq Nat

\* The ledger must be unable to apply what the service gives up on.
ASSUME GraceAssumption == MaxLag <= Grace

\* The obligations that make a loop of two to five parties.
IsLoop(S) ==
    /\ Cardinality(S) \in 2 .. 5
    /\ \E order \in [1 .. Cardinality(S) -> S] :
          /\ S = {order[i] : i \in DOMAIN order}
          /\ SimpleLoop([i \in DOMAIN order |-> Terms[order[i]]])
Loops == {S \in SUBSET Obligations : IsLoop(S)}

VARIABLES
    rows,            \* netting_obligations
    certs,           \* netting_certificates, their entries and signatures
    signed,          \* who holds a signature of each certificate over
    chain,           \* every commitment each obligation has had on the ledger
    now,             \* the server's clock
    chainNow,        \* block.timestamp
    req,             \* the calls about a certificate
    search           \* the loop searches

vars == <<rows, certs, signed, chain, now, chainNow, req, search>>

Last(s) == s[Len(s)]
Commitment(o) == Last(chain[o])
PartiesIn(loop) == {Terms[o].debtor : o \in loop}

OpenStatuses == {"collecting", "ready"}
Open(c) == certs[c].status \in OpenStatuses
Applied(c) == \E o \in Obligations : \E i \in DOMAIN chain[o] : chain[o][i] = c

Idle == [pc |-> "idle"]

\* The state of an obligation as a call or a certificate holds it, and the one
\* that stands for an obligation they do not hold.
Nothing == [by |-> Genesis, remaining |-> 0]
NoCertificate == [status |-> "none", loop |-> {}, before |-> [o \in Obligations |-> Nothing],
                  wNet |-> 0, deadline |-> 0, sigs |-> {}, locked |-> {}]

\* The clocks may show any time as the program starts.
InitAt(clock) ==
    /\ rows = [o \in Obligations |->
                  [status |-> "active", by |-> Genesis,
                   remaining |-> Terms[o].amount, disputedBy |-> {}]]
    /\ certs = [c \in CertificateIds |-> NoCertificate]
    /\ signed = [c \in CertificateIds |-> {}]
    /\ chain = [o \in Obligations |-> <<Genesis>>]
    /\ now = clock /\ chainNow = clock
    /\ req = [r \in Requests |-> Idle]
    /\ search = [s \in Searches |-> Idle]

Init == InitAt(0)
-----------------------------------------------------------------------------
(* The parties and the ledger.                                             *)

\* A party shown a certificate that is collecting signs it in its wallet; what
\* becomes of the signature is another matter.
Sign(c, p) ==
    /\ certs[c].status = "collecting"
    /\ p \in PartiesIn(certs[c].loop) \ signed[c]
    /\ signed' = [signed EXCEPT ![c] = @ \cup {p}]
    /\ UNCHANGED <<rows, certs, chain, now, chainNow, req, search>>

Advance(loop, v) ==
    chain' = [o \in Obligations |-> IF o \in loop THEN Append(chain[o], v)
                                                  ELSE chain[o]]

\* applyCertificate, by whoever holds the signatures.  The ledger knows nothing
\* of the status the certificate has in the database.
ApplyOnLedger(c) ==
    /\ certs[c].status # "none"
    /\ PartiesIn(certs[c].loop) \subseteq signed[c]
    /\ chainNow <= certs[c].deadline
    /\ ~ Applied(c)
    /\ \A o \in certs[c].loop : Commitment(o) = certs[c].before[o].by
    /\ Advance(certs[c].loop, c)
    /\ UNCHANGED <<rows, certs, signed, now, chainNow, req, search>>

\* Parties may go on netting from an exported certificate without the service.
ApplyUnseen(u, loop) ==
    /\ ~ Applied(u)
    /\ Advance(loop, u)
    /\ UNCHANGED <<rows, certs, signed, now, chainNow, req, search>>

Tick ==
    /\ now < MaxTime
    /\ now + 1 - chainNow <= MaxLag
    /\ now' = now + 1
    /\ UNCHANGED <<rows, certs, signed, chain, chainNow, req, search>>

ChainTick ==
    /\ chainNow < now
    /\ chainNow' = chainNow + 1
    /\ UNCHANGED <<rows, certs, signed, chain, now, req, search>>
-----------------------------------------------------------------------------
(* Calls about one certificate.  Each first brings the certificate up to   *)
(* date with the ledger (syncRow), then does what it was called for.       *)

Goto(r, pc) == req' = [req EXCEPT ![r].pc = pc]
Done(r) == req' = [req EXCEPT ![r] = Idle]

\* getCertificateByToken.  A closed certificate ends the call at once.
Start(r, kind, c, p) ==
    /\ req[r].pc = "idle"
    /\ kind \in Kinds
    /\ Open(c)
    /\ p \in PartiesIn(certs[c].loop)
    /\ kind = "sign" => p \in signed[c]
    /\ req' = [req EXCEPT ![r] = [pc |-> "query", kind |-> kind, cert |-> c, party |-> p,
                                  seen |-> certs[c].status, left |-> {}, moved |-> {}]]
    /\ UNCHANGED <<rows, certs, signed, chain, now, chainNow, search>>

\* Mutant of Late: no grace period.
LateWithoutGrace(c) == now > certs[c].deadline

\* Past its deadline on the ledger too, whose clock may trail.
Late(c) == now > certs[c].deadline + Grace

\* isApplied, and what follows from the answer before the next await.
QueryApplied(r) ==
    /\ req[r].pc = "query"
    /\ LET c == req[r].cert
           acts == \/ req[r].kind = "decline" /\ req[r].seen = "collecting"
                   \/ /\ req[r].kind = "sign" /\ req[r].seen = "collecting"
                      /\ now < certs[c].deadline
       IN \/ /\ Applied(c)
             /\ req' = [req EXCEPT ![r].pc = "entries", ![r].left = certs[c].loop]
          \/ /\ ~ Applied(c) /\ Late(c)
             /\ Goto(r, "expire")
          \/ /\ ~ Applied(c) /\ ~ Late(c)
             /\ IF acts THEN Goto(r, "act") ELSE Done(r)
    /\ UNCHANGED <<rows, certs, signed, chain, now, chainNow, search>>

\* stateOf, for one entry of an applied certificate.
ReadEntry(r, o) ==
    /\ req[r].pc = "entries"
    /\ o \in req[r].left
    /\ req' = [req EXCEPT ![r].left = @ \ {o},
                          ![r].moved = IF Commitment(o) # req[r].cert THEN @ \cup {o}
                                                                      ELSE @]
    /\ UNCHANGED <<rows, certs, signed, chain, now, chainNow, search>>

\* Mutants of Finalized: subtracting again each time the certificate is
\* finalized, and advancing an obligation whatever state its row is in.
FinalizedAgain(c, moved) ==
    [o \in Obligations |->
        IF o \notin certs[c].loop \/ rows[o].status = "out_of_sync" THEN rows[o]
        ELSE IF o \in moved THEN [rows[o] EXCEPT !.status = "out_of_sync"]
        ELSE [rows[o] EXCEPT !.by = c, !.remaining = @ - certs[c].wNet]]
FinalizedOnAnyBasis(c, moved) ==
    [o \in Obligations |->
        IF o \notin certs[c].loop \/ rows[o].status = "out_of_sync" THEN rows[o]
        ELSE IF o \in moved THEN [rows[o] EXCEPT !.status = "out_of_sync"]
        ELSE [rows[o] EXCEPT !.by = c, !.remaining = certs[c].before[o].remaining
                                                      - certs[c].wNet]]

\* Each obligation is advanced only from the state the certificate was built on.
Finalized(c, moved) ==
    [o \in Obligations |->
        IF \/ o \notin certs[c].loop
           \/ rows[o].status = "out_of_sync"
           \/ rows[o].by # certs[c].before[o].by
          THEN rows[o]
        ELSE IF o \in moved THEN [rows[o] EXCEPT !.status = "out_of_sync"]
        ELSE [rows[o] EXCEPT !.by = c, !.remaining = certs[c].before[o].remaining
                                                      - certs[c].wNet]]

\* Mutant of CloseCertificate: the locks are forgotten.
CloseKeepingLocks(c, from, status) ==
    certs' = IF certs[c].status \in from
               THEN [certs EXCEPT ![c].status = status] ELSE certs

\* A certificate that leaves the open statuses releases its locks.
CloseCertificate(c, from, status) ==
    certs' = IF certs[c].status \in from
               THEN [certs EXCEPT ![c].status = status, ![c].locked = {}]
               ELSE certs

\* Mutant of FinalizeApplied: only a certificate with all its signatures.
FinalizeReadyAlone(r) ==
    /\ req[r].pc = "entries" /\ req[r].left = {}
    /\ rows' = Finalized(req[r].cert, req[r].moved)
    /\ CloseCertificate(req[r].cert, {"ready"}, "applied")
    /\ Done(r)
    /\ UNCHANGED <<signed, chain, now, chainNow, search>>

FinalizeApplied(r) ==
    /\ req[r].pc = "entries" /\ req[r].left = {}
    /\ rows' = Finalized(req[r].cert, req[r].moved)
    /\ CloseCertificate(req[r].cert, OpenStatuses, "applied")
    /\ Done(r)
    /\ UNCHANGED <<signed, chain, now, chainNow, search>>

Expire(r) ==
    /\ req[r].pc = "expire"
    /\ CloseCertificate(req[r].cert, OpenStatuses, "expired")
    /\ Done(r)
    /\ UNCHANGED <<rows, signed, chain, now, chainNow, search>>

WithSignature(cert, p) ==
    [cert EXCEPT !.sigs = @ \cup {p},
                 !.status = IF cert.sigs \cup {p} = PartiesIn(cert.loop)
                              THEN "ready" ELSE @]

\* Mutant of AddSignature: the status as it was when the call began.
AddSignatureUnchecked(r) ==
    /\ req[r].pc = "act" /\ req[r].kind = "sign"
    /\ certs' = [certs EXCEPT ![req[r].cert] = WithSignature(@, req[r].party)]
    /\ Done(r)
    /\ UNCHANGED <<rows, signed, chain, now, chainNow, search>>

AddSignature(r) ==
    /\ req[r].pc = "act" /\ req[r].kind = "sign"
    /\ LET c == req[r].cert IN
         certs' = IF certs[c].status = "collecting" /\ certs[c].deadline >= now
                    THEN [certs EXCEPT ![c] = WithSignature(@, req[r].party)]
                    ELSE certs
    /\ Done(r)
    /\ UNCHANGED <<rows, signed, chain, now, chainNow, search>>

Decline(r) ==
    /\ req[r].pc = "act" /\ req[r].kind = "decline"
    /\ CloseCertificate(req[r].cert, {"collecting"}, "abandoned")
    /\ Done(r)
    /\ UNCHANGED <<rows, signed, chain, now, chainNow, search>>
-----------------------------------------------------------------------------
(* Calls about one obligation.  Each ends in one transaction that checks   *)
(* again what it needs of the row.                                         *)

Locked(o) == \E c \in CertificateIds : o \in certs[c].locked
\* Mutant of HeldByReady: a fully signed certificate holds nothing.
HeldByNone(o) == FALSE
HeldByReady(o) ==
    \E c \in CertificateIds : certs[c].status = "ready" /\ o \in certs[c].locked

\* The collecting certificates that hold the obligation are abandoned first.
AbandonCollecting(o) ==
    certs' = [c \in CertificateIds |->
                 IF certs[c].status = "collecting" /\ o \in certs[c].locked
                   THEN [certs[c] EXCEPT !.status = "abandoned", !.locked = {}]
                   ELSE certs[c]]

CloseObligation(o) ==
    /\ AbandonCollecting(o)
    /\ rows' = IF rows[o].status \in {"active", "out_of_sync", "disputed"} /\ ~ HeldByReady(o)
                 THEN [rows EXCEPT ![o].status = "closed"] ELSE rows
    /\ UNCHANGED <<signed, chain, now, chainNow, req, search>>

\* getObligationById: the call refuses to dispute what it reads as fully netted.
StartDispute(r, o, p) ==
    /\ req[r].pc = "idle"
    /\ p \in {Terms[o].debtor, Terms[o].creditor}
    /\ rows[o].remaining # 0
    /\ req' = [req EXCEPT ![r] = [pc |-> "dispute", obligation |-> o, party |-> p]]
    /\ UNCHANGED <<rows, certs, signed, chain, now, chainNow, search>>

DisputeObligation(r) ==
    /\ req[r].pc = "dispute"
    /\ LET o == req[r].obligation IN
         /\ AbandonCollecting(o)
         /\ rows' = IF rows[o].status = "active" /\ ~ HeldByReady(o)
                      THEN [rows EXCEPT ![o].status = "disputed",
                                        ![o].disputedBy = {req[r].party}]
                      ELSE rows
    /\ Done(r)
    /\ UNCHANGED <<signed, chain, now, chainNow, search>>

WithdrawDispute(o, p) ==
    /\ rows[o].status = "disputed" /\ p \in rows[o].disputedBy
    /\ rows' = [rows EXCEPT ![o].status = "active", ![o].disputedBy = {}]
    /\ UNCHANGED <<certs, signed, chain, now, chainNow, req, search>>
-----------------------------------------------------------------------------
(* findAndProposeLoop.  What it read of the rows is kept from one attempt  *)
(* to the next unless the insert finds it out of date.                     *)

Nettable(o) ==
    rows[o].status = "active" /\ rows[o].remaining # 0 /\ ~ Locked(o)

Snapshot == [o \in Obligations |->
                IF Nettable(o) THEN [by |-> rows[o].by, remaining |-> rows[o].remaining]
                               ELSE Nothing]

\* The loop an attempt settles on, among the rows it may use; which one is
\* the best is findBestLoop's business.
Candidates(seen, excluded) ==
    {L \in Loops : \A o \in L : seen[o].remaining # 0 /\ o \notin excluded}

Attempt(s, seen, excluded, at, count) ==
    IF count > MaxAttempts \/ Candidates(seen, excluded) = {}
      THEN search' = [search EXCEPT ![s] = Idle]
      ELSE \E loop \in Candidates(seen, excluded) :
             search' = [search EXCEPT ![s] =
                 [pc |-> "check", seen |-> seen, excluded |-> excluded, at |-> at,
                  count |-> count, loop |-> loop, left |-> loop, marking |-> {},
                  stale |-> FALSE]]

StartSearch(s) ==
    /\ search[s].pc = "idle"
    /\ now <= LastSearch
    /\ Candidates(Snapshot, {}) # {}
    /\ Attempt(s, Snapshot, {}, now, 1)
    /\ UNCHANGED <<rows, certs, signed, chain, now, chainNow, req>>


\* stateOf, compared with the commitment of the row as it was read.
CheckMember(s, o) ==
    /\ search[s].pc = "check"
    /\ o \in search[s].left
    /\ search' = IF Commitment(o) = search[s].seen[o].by
                   THEN [search EXCEPT ![s].left = @ \ {o}]
                   ELSE [search EXCEPT ![s].pc = "mark", ![s].marking = {o}]
    /\ UNCHANGED <<rows, certs, signed, chain, now, chainNow, req>>

\* Mutant of Marked: the row may have moved on since it was read.
MarkedUnchecked(o, seen) ==
    IF rows[o].status = "active" THEN [rows EXCEPT ![o].status = "out_of_sync"] ELSE rows

\* markObligationOutOfSync: only while the row is still as it was read.
Marked(o, seen) ==
    IF rows[o].status = "active" /\ rows[o].by = seen.by
      THEN [rows EXCEPT ![o].status = "out_of_sync"] ELSE rows

MarkOutOfSync(s) ==
    /\ search[s].pc = "mark"
    /\ \E o \in search[s].marking :
         /\ rows' = Marked(o, search[s].seen[o])
         /\ search' = [search EXCEPT ![s].pc = "check", ![s].marking = {},
                                     ![s].left = @ \ {o}, ![s].excluded = @ \cup {o},
                                     ![s].stale = TRUE]
    /\ UNCHANGED <<certs, signed, chain, now, chainNow, req>>

\* An attempt that found an obligation out of sync: look again without it.
SearchAgain(s) ==
    /\ search[s].pc = "check" /\ search[s].left = {} /\ search[s].stale
    /\ Attempt(s, search[s].seen, search[s].excluded, search[s].at, search[s].count + 1)
    /\ UNCHANGED <<rows, certs, signed, chain, now, chainNow, req>>

Unused == {c \in CertificateIds : certs[c].status = "none"}

\* Mutant of Insertable: the locks of other certificates are not looked at.
InsertableUnlocked(s) ==
    \A o \in search[s].loop : /\ rows[o].status = "active"
                              /\ rows[o].by = search[s].seen[o].by

\* insertCertificate: every obligation still active, in the state the
\* certificate was built from, and in no other open certificate.
Insertable(s) ==
    \A o \in search[s].loop : /\ rows[o].status = "active"
                              /\ rows[o].by = search[s].seen[o].by
                              /\ ~ Locked(o)

\* Mutant of Proposed: the greatest of the remaining amounts.
ProposedGreatest(s) ==
    LET loop == search[s].loop
        seen == search[s].seen
    IN [status |-> "collecting", loop |-> loop,
        before |-> [o \in Obligations |-> IF o \in loop THEN seen[o] ELSE Nothing],
        wNet |-> Max({seen[o].remaining : o \in loop}),
        deadline |-> search[s].at + Lifetime, sigs |-> {}, locked |-> loop]

Proposed(s) ==
    LET loop == search[s].loop
        seen == search[s].seen
    IN [status |-> "collecting", loop |-> loop,
        before |-> [o \in Obligations |-> IF o \in loop THEN seen[o] ELSE Nothing],
        wNet |-> Min({seen[o].remaining : o \in loop}),
        deadline |-> search[s].at + Lifetime, sigs |-> {}, locked |-> loop]

Drawn(s) == search[s].pc = "check" /\ search[s].left = {} /\ ~ search[s].stale

InsertCertificate(s, c) ==
    /\ Drawn(s)
    /\ c \in Unused /\ \A d \in Unused : c <= d
    /\ Insertable(s)
    /\ certs' = [certs EXCEPT ![c] = Proposed(s)]
    /\ search' = [search EXCEPT ![s] = Idle]
    /\ UNCHANGED <<rows, signed, chain, now, chainNow, req>>

\* "changed" or "locked".
InsertRefused(s) ==
    /\ Drawn(s)
    /\ ~ Insertable(s)
    /\ search' = [search EXCEPT ![s].pc = "reload"]
    /\ UNCHANGED <<rows, certs, signed, chain, now, chainNow, req>>

\* Another search got there first: read the rows again and forget what was
\* excluded.
Reload(s) ==
    /\ search[s].pc = "reload"
    /\ Attempt(s, Snapshot, {}, search[s].at, search[s].count + 1)
    /\ UNCHANGED <<rows, certs, signed, chain, now, chainNow, req>>
-----------------------------------------------------------------------------
RequestStep(r) ==
    \/ QueryApplied(r)
    \/ \E o \in Obligations : ReadEntry(r, o)
    \/ FinalizeApplied(r)
    \/ Expire(r)
    \/ AddSignature(r)
    \/ Decline(r)
    \/ DisputeObligation(r)

SearchStep(s) ==
    \/ \E o \in Obligations : CheckMember(s, o)
    \/ MarkOutOfSync(s)
    \/ SearchAgain(s)
    \/ \E c \in CertificateIds : InsertCertificate(s, c)
    \/ InsertRefused(s)
    \/ Reload(s)

Next ==
    \/ \E c \in CertificateIds, p \in Parties : Sign(c, p)
    \/ \E c \in CertificateIds : ApplyOnLedger(c)
    \/ \E u \in Unseen, loop \in Loops : ApplyUnseen(u, loop)
    \/ \E r \in Requests, kind \in Kinds, c \in CertificateIds, p \in Parties :
          Start(r, kind, c, p)
    \/ \E r \in Requests : RequestStep(r)
    \/ \E o \in Closable : CloseObligation(o)
    \/ \E r \in Requests, o \in Disputable, p \in Parties : StartDispute(r, o, p)
    \/ \E o \in Disputable, p \in Parties : WithdrawDispute(o, p)
    \/ \E s \in Searches : StartSearch(s) \/ SearchStep(s)
    \/ Tick
    \/ ChainTick

Spec == Init /\ [][Next]_vars
-----------------------------------------------------------------------------
Row == [status : {"active", "out_of_sync", "disputed", "closed"}, by : Versions,
        remaining : Nat, disputedBy : SUBSET Parties]
Basis == [Obligations -> [by : Versions, remaining : Nat]]
Certificate ==
    [status : OpenStatuses \cup ClosedStatuses \cup {"none"}, loop : SUBSET Obligations,
     before : Basis, wNet : Nat, deadline : Nat, sigs : SUBSET Parties,
     locked : SUBSET Obligations]
Call == [pc : {"query", "entries", "expire", "act"}, kind : CallKinds,
         cert : CertificateIds, party : Parties, seen : OpenStatuses,
         left : SUBSET Obligations, moved : SUBSET Obligations]
DisputeCall == [pc : {"dispute"}, obligation : Obligations, party : Parties]
Search == [pc : {"check", "mark", "reload"}, seen : Basis, excluded : SUBSET Obligations,
           at : Nat, count : Nat, loop : Loops, left : SUBSET Obligations,
           marking : SUBSET Obligations, stale : BOOLEAN]

\* What a certificate subtracts is what its obligations can bear.
Built(cert) ==
    /\ cert.loop \in Loops
    /\ \A o \in cert.loop : cert.wNet <= cert.before[o].remaining

TypeOK ==
    /\ rows \in [Obligations -> Row]
    /\ certs \in [CertificateIds -> Certificate]
    /\ \A c \in CertificateIds : certs[c].status # "none" => Built(certs[c])
    /\ signed \in [CertificateIds -> SUBSET Parties]
    /\ chain \in [Obligations -> Seq(Versions)]
    /\ now \in Nat /\ chainNow \in Nat
    /\ chainNow <= now /\ now <= chainNow + MaxLag
    /\ req \in [Requests -> Call \cup DisputeCall \cup {Idle}]
    /\ \A r \in Requests : req[r] \in Call => certs[req[r].cert].status # "none"
    /\ search \in [Searches -> Search \cup {Idle}]

\* insertCertificate and every transaction that closes a certificate: an
\* obligation is locked by at most one certificate, by the open ones alone, and
\* by an open one throughout, so no debt is promised to two loops at once and
\* none stays locked by a certificate that is over.
LocksFollowCertificates ==
    /\ \A c \in CertificateIds :
          certs[c].locked = IF Open(c) THEN certs[c].loop ELSE {}
    /\ \A c, d \in CertificateIds :
          certs[c].locked \cap certs[d].locked # {} => c = d

\* closeObligation, disputeObligation, finalizeApplied: nobody takes an
\* obligation back under a certificate that is still open, and as long as the
\* ledger could still apply it the rows show the states it was built on.
OpenCertificatesHold ==
    \A c \in CertificateIds : Open(c) =>
        \A o \in certs[c].loop :
            /\ rows[o].status \in {"active", "out_of_sync"}
            /\ \/ Commitment(o) # certs[c].before[o].by
               \/ /\ rows[o].by = certs[c].before[o].by
                  /\ rows[o].remaining = certs[c].before[o].remaining

\* The versions of an obligation on the ledger, up to the one its row shows.
Known(o) == CHOOSE i \in DOMAIN chain[o] : chain[o][i] = rows[o].by
NettedSoFar(o) == {chain[o][i] : i \in 2 .. Known(o)}
WNets == [c \in CertificateIds |-> certs[c].wNet]

\* syncRow: the database follows the ledger and never leads it.  What a row
\* says remains is the obligation's amount less every certificate the ledger
\* applied to it up to the state the row shows, each counted once.
RowsFollowLedger ==
    \A o \in Obligations :
        /\ \E i \in DOMAIN chain[o] : chain[o][i] = rows[o].by
        /\ NettedSoFar(o) \subseteq CertificateIds
        /\ rows[o].remaining + SumFunctionOnSet(WNets, NettedSoFar(o)) = Terms[o].amount

\* syncRow and its grace period: a certificate given up as expired was never
\* applied, and never will be, although chain time trails the server's clock.
ExpiredNeverApplied ==
    \A c \in CertificateIds : certs[c].status = "expired" =>
        ~ Applied(c) /\ chainNow > certs[c].deadline

\* finalizeApplied: once a certificate is recorded as applied, each of its
\* obligations has been brought at least that far, or is marked out of sync (and
\* perhaps closed since), so that no part of a loop the ledger netted is lost
\* when answers come late, twice or in the wrong order.
AppliedIsRecorded ==
    \A c \in CertificateIds : certs[c].status = "applied" =>
        /\ Applied(c)
        /\ \A o \in certs[c].loop :
              rows[o].status \in {"out_of_sync", "closed"} \/ c \in NettedSoFar(o)

\* markObligationOutOfSync, finalizeApplied: an obligation is only excluded
\* from netting when the ledger really has left the state its row shows.
OutOfSyncIsReal ==
    \A o \in Obligations : rows[o].status = "out_of_sync" => Commitment(o) # rows[o].by

\* The transactions that close a certificate: whatever calls are still running
\* on it, a closed certificate stays as it was closed, and one that every party
\* has signed is closed by the ledger or the clock alone.
ClosedStaysClosed ==
    [][\A c \in CertificateIds :
          /\ certs[c].status \in ClosedStatuses => certs'[c].status = certs[c].status
          /\ certs[c].status = "ready" => certs'[c].status \in {"ready", "applied", "expired"}
      ]_vars
-----------------------------------------------------------------------------
(* What the documentation says and the program does not do.                *)

\* "a certificate was applied that the database didn't record": an obligation
\* out of sync has been moved by a certificate not recorded as applied.
OutOfSyncIsUnrecorded ==
    \A o \in Obligations : rows[o].status = "out_of_sync" =>
        \E i \in DOMAIN chain[o] :
            /\ i > Known(o)
            /\ \/ chain[o][i] \notin CertificateIds
               \/ certs[chain[o][i]].status # "applied"

-----------------------------------------------------------------------------
(* Every call ends, time passes, and for every open certificate one of its *)
(* parties comes back to look at it: nothing else in the program closes a  *)
(* certificate that nobody calls about.                                    *)
Fairness ==
    /\ \A r \in Requests : WF_vars(RequestStep(r))
    /\ \A s \in Searches : WF_vars(SearchStep(s))
    /\ WF_vars(Tick) /\ WF_vars(ChainTick)
    /\ \A c \in CertificateIds :
          SF_vars(\E r \in Requests, p \in Parties : Start(r, "view", c, p))

FairSpec == Spec /\ Fairness

\* syncRow: no obligation stays locked for ever by a certificate nobody signs,
\* applies or declines.
LocksAreReleased == \A o \in Obligations : Locked(o) ~> ~ Locked(o)

\* syncRow: what the ledger applied, the database comes to record, unless the
\* certificate was abandoned first.
ApplicationsAreRecorded ==
    \A c \in CertificateIds :
        Applied(c) ~> certs[c].status \in {"applied", "abandoned"}

=============================================================================
