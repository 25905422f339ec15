--------------------------- MODULE CertificateCheck ---------------------------
(***************************************************************************)
(* What is checked of a certificate without trusting the server, by a      *)
(* party's browser before it signs or applies, by the public verifier, by  *)
(* its sample, and by the service of what it built: the contents, the      *)
(* signatures, and what the ledger says, read while the ledger moves on    *)
(* and by a node that may fail at any read.  A hash is what it hashes; a   *)
(* signature names its signer and what was signed.                         *)
(***************************************************************************)
EXTENDS LoopShape, Integers, FiniteSets

CONSTANTS
    Loop,           \* what is netted: obligation, remaining, blinding of each
    Net,            \* wNet
    Contracts,      \* parties that are smart accounts
    Me,             \* the party whose browser checks
    MaxHeight,      \* bound on blocks
    FloorBlock,     \* registryDeployBlock
    FloorChunk, MaxChunks,      \* FLOOR_SEARCH_CHUNK, FLOOR_SEARCH_MAX_CHUNKS
    Lookback, Chunk             \* APPLICATION_LOG_LOOKBACK, APPLICATION_LOG_CHUNK

VARIABLES
    height,         \* the newest block
    applied,        \* what the ledger applied under the certificate's id: by, at
    superseded,     \* another certificate moved one of Me's obligations
    late,           \* the deadline has passed
    status,         \* of the database's row
    allSigned,      \* it holds every party's signature
    page,           \* who checks
    file,           \* what is checked
    check           \* how far it is, and what it has found

vars == <<height, applied, superseded, late, status, allSigned, page, file, check>>

-----------------------------------------------------------------------------
\* Documents.
ThisLedger == "here"
ZeroHash == <<>>
ZeroBlinding == 0
obligationId(obligation, domain) == <<obligation, domain>>
commitment(id, remaining, blinding) == <<id, remaining, blinding>>
priorCommitmentOf(id, remaining, blinding) ==
    IF blinding = ZeroBlinding THEN ZeroHash ELSE commitment(id, remaining, blinding)
Signature(by, of) == [by |-> by, of |-> of]
NoSignature == Signature("nobody", <<>>)

entryHash(doc, domain) ==
    <<obligationId(doc.obligation, domain), doc.remainingBefore, doc.blindingBefore,
      doc.remainingAfter, doc.blindingAfter, doc.debtorSignature, doc.creditorSignature>>
viewEntryHash(entry, domain) ==
    IF entry.kind = "full" THEN entryHash(entry.document, domain) ELSE entry.entryHash
contentHash(currency, wNet, hashes) == <<currency, wNet, hashes>>
certificateDigest(view) == <<view.certificate, view.domain>>

loopShapeProblem(entries) == Len(entries) \notin 2..5 \/ ~ SimpleLoop(entries)

\* Why buildCertificate throws.
BuildProblem(loop, wNet, currency) ==
    \/ loopShapeProblem([i \in DOMAIN loop |-> loop[i].obligation])
    \/ wNet <= 0
    \/ \E i \in DOMAIN loop :
          LET item == loop[i] IN
          \/ item.obligation.currency # currency
          \/ item.remaining > item.obligation.amount
          \/ item.blinding = ZeroBlinding /\ item.remaining # item.obligation.amount
          \/ wNet > item.remaining

\* The new blindings are drawn at random; any two differ.
Document(item, wNet, fresh) ==
    LET id == obligationId(item.obligation, ThisLedger) IN
    [obligation |-> item.obligation,
     debtorSignature |-> Signature(item.obligation.debtor, id),
     creditorSignature |-> Signature(item.obligation.creditor, id),
     remainingBefore |-> item.remaining, blindingBefore |-> item.blinding,
     remainingAfter |-> item.remaining - wNet, blindingAfter |-> fresh]

EntryOf(doc) ==
    LET id == obligationId(doc.obligation, ThisLedger) IN
    [obligationId |-> id, debtor |-> doc.obligation.debtor, creditor |-> doc.obligation.creditor,
     priorCommitment |-> priorCommitmentOf(id, doc.remainingBefore, doc.blindingBefore),
     nextCommitment |-> commitment(id, doc.remainingAfter, doc.blindingAfter)]

buildCertificate(loop, wNet, currency) ==
    LET docs == [i \in DOMAIN loop |-> Document(loop[i], wNet, 10 + i)] IN
    [domain |-> ThisLedger, currency |-> currency, wNet |-> wNet,
     certificate |-> [certificateId |-> 1, deadline |-> 1, entries |-> [i \in DOMAIN docs |-> EntryOf(docs[i])],
                      contentHash |-> contentHash(currency, wNet, [i \in DOMAIN docs |-> entryHash(docs[i], ThisLedger)])],
     signatures |-> [i \in DOMAIN docs |-> NoSignature],
     entries |-> [i \in DOMAIN docs |-> [kind |-> "full", document |-> docs[i]]]]

withSignatures(view) ==
    [view EXCEPT !.signatures = [i \in DOMAIN view.signatures |->
        Signature(view.certificate.entries[i].debtor, certificateDigest(view))]]

Involves(entry, party) == party \in {entry.debtor, entry.creditor}
viewForParty(view, party) ==
    [view EXCEPT !.entries = [i \in DOMAIN view.entries |->
        IF Involves(view.certificate.entries[i], party) THEN view.entries[i]
        ELSE [kind |-> "hash", entryHash |-> viewEntryHash(view.entries[i], view.domain)]]]

-----------------------------------------------------------------------------
\* The files there are: the certificate as built, each party's copy, and ones
\* that differ, in one field or because another certificate was built.
Currency == Loop[1].obligation.currency
Built == buildCertificate(Loop, Net, Currency)
Mine == viewForParty(Built, Me)
OwnIn(view) == {i \in DOMAIN view.certificate.entries : Involves(view.certificate.entries[i], Me)}
Other == CHOOSE i \in DOMAIN Loop : i \notin OwnIn(Built)

\* A loop that can be netted by Net, of three or more parties, with Me on the
\* first edge of it.
PartiesOf(loop) == UNION {{loop[i].obligation.debtor, loop[i].obligation.creditor} : i \in DOMAIN loop}
Obligation == [debtor : PartiesOf(Loop), creditor : PartiesOf(Loop),
               currency : {Loop[i].obligation.currency : i \in DOMAIN Loop},
               amount : Nat, maturity : Nat, earlyNetConsent : BOOLEAN]
Item == [obligation : Obligation, remaining : Nat, blinding : Nat]
\* A mature obligation has maturity 0.
Due(obligation) == obligation.maturity = 0 \/ obligation.earlyNetConsent
ConstantsAssumption ==
    /\ Loop \in Seq(Item) /\ Net \in Nat /\ Len(Loop) > 2
    /\ ~ BuildProblem(Loop, Net, Currency)
    /\ \A i \in DOMAIN Loop : Due(Loop[i].obligation)
    /\ Involves(Loop[1].obligation, Me)
    /\ {FloorBlock, MaxChunks, Lookback} \subseteq Nat /\ {FloorChunk, Chunk} \subseteq Nat \ {0}

Alterations(v) ==
    LET id == obligationId(Loop[1].obligation, ThisLedger) IN
    {[v EXCEPT !.wNet = @ + 1], [v EXCEPT !.currency = "other"], [v EXCEPT !.domain = "elsewhere"],
     [v EXCEPT !.certificate.certificateId = 0], [v EXCEPT !.certificate.certificateId = 2],
     [v EXCEPT !.certificate.deadline = 2],
     [v EXCEPT !.certificate.entries[1].nextCommitment = commitment(id, 0, 1)],
     [v EXCEPT !.certificate.entries[1].creditor = Me], [v EXCEPT !.certificate.entries[1].obligationId = ZeroHash],
     [v EXCEPT !.certificate.entries[Other].priorCommitment = commitment(id, 0, 1)],
     [v EXCEPT !.signatures = Tail(@)], [v EXCEPT !.signatures[1] = NoSignature],
     [v EXCEPT !.entries[Other] = [kind |-> "hash", entryHash |-> <<>>]],
     [v EXCEPT !.entries[1] = [kind |-> "hash", entryHash |-> viewEntryHash(@, ThisLedger)]]}
    \cup {[v EXCEPT !.entries[1].document = d] :
            d \in LET doc == v.entries[1].document IN
                  {[doc EXCEPT !.remainingBefore = @ + 1], [doc EXCEPT !.remainingAfter = @ + 1],
                   [doc EXCEPT !.blindingAfter = ZeroBlinding], [doc EXCEPT !.blindingBefore = 9],
                   [doc EXCEPT !.obligation.amount = @ + 1], [doc EXCEPT !.obligation.maturity = 1],
                   [doc EXCEPT !.creditorSignature = NoSignature]}}

\* Certificates of other amounts under the same id, with the signatures over
\* this one.
Rebuilt ==
    {[viewForParty(another, Me) EXCEPT !.signatures = withSignatures(Built).signatures] :
        another \in {buildCertificate(Loop, Net - 1, Currency),
                     buildCertificate([Loop EXCEPT ![1].blinding = 9], Net, Currency)}}
Genuine == {withSignatures(Mine), withSignatures(Built)}
Files == Genuine \cup Alterations(withSignatures(Mine)) \cup Rebuilt
Unsigned(view) == [view EXCEPT !.signatures = [i \in DOMAIN view.signatures |-> NoSignature]]

-----------------------------------------------------------------------------
\* What each check comes to: the statuses other than "pass".
Unless(good) == IF good THEN {} ELSE {"fail"}

viewShapeProblem(view) ==
    \/ Len(view.signatures) # Len(view.certificate.entries)
    \/ Len(view.entries) # Len(view.certificate.entries)

\* How the node answers the reads of one step: every one, none, or all but the
\* call of a smart account, which counts as a rejection.
Answers == {"answers", "rejects", "fails"}
NoClient == "no client"

checkSignature(signer, digest, signature, node) ==
    LET right == signature = Signature(signer, digest) IN
    CASE right /\ signer \notin Contracts -> {}
      [] ~ (right /\ signer \notin Contracts) /\ node = NoClient -> {"unverifiable"}
      [] OTHER -> Unless(right /\ node = "answers")
combineStatuses(statuses) == IF "fail" \in statuses THEN {"fail"} ELSE statuses

CertificateSignatures(view, node) ==
    UNION {IF view.signatures[i] = NoSignature THEN {"fail"}
           ELSE checkSignature(view.certificate.entries[i].debtor, certificateDigest(view), view.signatures[i], node) :
           i \in DOMAIN view.signatures}

checkFullEntry(view, entry, doc, node) ==
    LET id == obligationId(doc.obligation, view.domain) IN
    Unless(id = entry.obligationId)
    \cup Unless(doc.obligation.debtor = entry.debtor /\ doc.obligation.creditor = entry.creditor)
    \cup combineStatuses(checkSignature(doc.obligation.debtor, id, doc.debtorSignature, node)
                         \cup checkSignature(doc.obligation.creditor, id, doc.creditorSignature, node))
    \cup Unless(doc.obligation.currency = view.currency)
    \cup Unless(/\ doc.remainingBefore <= doc.obligation.amount
                /\ doc.blindingBefore = ZeroBlinding => doc.remainingBefore = doc.obligation.amount
                /\ priorCommitmentOf(id, doc.remainingBefore, doc.blindingBefore) = entry.priorCommitment)
    \cup Unless(/\ doc.blindingAfter # ZeroBlinding
                /\ commitment(id, doc.remainingAfter, doc.blindingAfter) = entry.nextCommitment)
    \cup Unless(Due(doc.obligation))
    \cup Unless(/\ view.wNet \in 1..doc.remainingBefore
                /\ doc.remainingAfter = doc.remainingBefore - view.wNet)

FullIn(view) == {i \in DOMAIN view.entries : view.entries[i].kind = "full"}

\* runChecks, to where it reads the ledger's application.
Contents(view, stage, node) ==
    Unless(view.certificate.certificateId # 0)
    \cup Unless(stage = "applied" \/ ~ late)
    \cup Unless(~ loopShapeProblem(view.certificate.entries))
    \cup (IF stage = "proposed" THEN {} ELSE CertificateSignatures(view, node))
    \cup Unless(FullIn(view) # {})
    \cup (UNION {checkFullEntry(view, view.certificate.entries[i], view.entries[i].document, node) : i \in FullIn(view)})
    \cup Unless(view.certificate.contentHash =
                contentHash(view.currency, view.wNet,
                            [i \in DOMAIN view.entries |-> viewEntryHash(view.entries[i], view.domain)]))

-----------------------------------------------------------------------------
\* The world: the ledger, its chain and the database's row.
NotApplied == [by |-> "nothing", at |-> 0]
NoCheck == [pc |-> "idle", stage |-> "proposed", signed |-> FALSE, hint |-> 0, statuses |-> {}, own |-> {},
            troubled |-> FALSE, head |-> 0]

Init ==
    /\ height = FloorBlock /\ applied = NotApplied /\ superseded = FALSE /\ late = FALSE
    /\ status = "collecting" /\ allSigned = FALSE
    /\ page \in {"party", "verifier", "sample", "service"}
    /\ file \in (IF page \in {"party", "verifier"} THEN Files ELSE {withSignatures(Built)})
    /\ check = NoCheck

\* What a check no longer reads, or its page never does, stands still.
Going == check.pc \notin {"done", "thrown"}
Opening == check.pc \in {"idle", "stage", "contents"}
Chain(a, s) ==
    /\ Going /\ height < MaxHeight /\ height' = height + 1
    /\ applied' = a /\ superseded' = s
    /\ UNCHANGED <<late, status, allSigned, page, file, check>>
Row(db, signed) ==
    /\ check.pc = "idle" /\ page = "party"
    /\ status' = db /\ allSigned' = signed
    /\ UNCHANGED <<height, applied, superseded, late, page, file, check>>

NewBlock == (Opening \/ check.pc = "event") /\ Chain(applied, superseded)
\* Whoever holds its signatures applies it, or another under its id.
ApplyThis == applied = NotApplied /\ ~ superseded /\ ~ late /\ Chain([by |-> "this", at |-> height + 1], FALSE)
ApplyOther == applied = NotApplied /\ Chain([by |-> "another", at |-> height + 1], superseded)
Supersede == page = "party" /\ check.stage # "applied" /\ applied.by # "this" /\ ~ superseded /\ Chain(applied, TRUE)
Expire == Opening /\ ~ late /\ late' = TRUE /\ UNCHANGED <<height, applied, superseded, status, allSigned, page, file, check>>
LastSignature == status = "collecting" /\ ~ late /\ Row("ready", TRUE)
RecordApplied == status \in {"collecting", "ready"} /\ applied # NotApplied /\ Row("applied", allSigned)
CloseRow == (status = "collecting" \/ (status = "ready" /\ late)) /\ Row("closed", allSigned)

Alter == NewBlock \/ ApplyThis \/ ApplyOther \/ Supersede \/ Expire \/ LastSignature \/ RecordApplied \/ CloseRow

-----------------------------------------------------------------------------
\* The steps of a check.
view == IF check.signed THEN file ELSE Unsigned(file)
Step(c) == check' = c /\ UNCHANGED <<height, applied, superseded, late, status, allSigned, page, file>>
Found(c, statuses) == [c EXCEPT !.statuses = @ \cup statuses]
Verified(c) == [c EXCEPT !.pc = IF page = "party" THEN "own entries" ELSE "done"]
Threw(c) == Verified([Found(c, {"fail"}) EXCEPT !.troubled = TRUE])

\* load: getCertificate brings the row, and a copy with the signatures there
\* are.  The others begin with the file that they were given.
Read ==
    /\ check.pc = "idle"
    /\ CASE page = "party" ->
              Step([check EXCEPT !.pc = IF status = "closed" THEN "contents" ELSE "stage",
                                 !.signed = allSigned,
                                 !.stage = IF status = "applied" THEN "applied"
                                           ELSE IF status = "ready" THEN "signed" ELSE "proposed"])
         [] page = "verifier" ->
              \E signed \in BOOLEAN, hint \in 0..height :
                  Step([check EXCEPT !.pc = "contents", !.signed = signed, !.stage = "applied", !.hint = hint])
         [] page = "sample" -> Step([check EXCEPT !.pc = "contents", !.signed = TRUE, !.stage = "signed"])
         [] page = "service" -> Step([check EXCEPT !.pc = "contents"])

\* resolveCertificateCheckStage; a read that fails says no.  The block of the
\* transaction that the row records, if it can be read, is a hint.
ResolveStage ==
    /\ check.pc = "stage"
    /\ \E answered \in BOOLEAN, hint \in {0, applied.at} :
         LET stage == IF answered /\ applied # NotApplied THEN "applied" ELSE check.stage IN
         /\ stage = "applied" \/ hint = 0
         /\ Step([check EXCEPT !.pc = "contents", !.troubled = ~ answered, !.stage = stage, !.hint = hint])

Client == page # "sample"
CheckContents ==
    /\ check.pc = "contents"
    /\ \E node \in IF Client THEN Answers ELSE {NoClient} :
         LET seen == Found(check, Contents(view, check.stage, node))
             next == IF check.stage = "applied" THEN [seen EXCEPT !.pc = "event"] ELSE Verified(seen)
         IN
         CASE viewShapeProblem(view) -> Step(Verified(Found(check, {"fail"})))
           [] ~ viewShapeProblem(view) /\ node = "fails" -> Step(Threw(check))
           [] ~ viewShapeProblem(view) /\ node # "fails" /\ view.domain # ThisLedger /\ Client ->
                Step(Verified(Found(check, {"fail"})))
           [] OTHER -> Step([next EXCEPT !.troubled = @ \/ node = "rejects"])

\* The event that binds this id to these contents, in the blocks given.
isExactApplication(blocks) ==
    /\ applied.by = "this" /\ applied.at \in blocks
    /\ view.certificate.certificateId = Built.certificate.certificateId
    /\ view.certificate.contentHash = Built.certificate.contentHash

\* Newest first from the head to the floor, as many ranges as are read.
FloorRanges(head) ==
    LET ends == {head - k * FloorChunk : k \in 0..(MaxChunks - 1)} IN
    {(IF to - FloorChunk + 1 > FloorBlock THEN to - FloorChunk + 1 ELSE FloorBlock)..to :
        to \in {e \in ends : e >= FloorBlock}}
LookbackFirst(head) == IF head > Lookback THEN head - Lookback ELSE 0
LookbackRanges(head) ==
    LET starts == {LookbackFirst(head) + k * Chunk : k \in 0..head} IN
    {from..(IF from + Chunk - 1 < head THEN from + Chunk - 1 ELSE head) : from \in {s \in starts : s <= head}}
Ranges(head) == IF page = "verifier" THEN FloorRanges(head) ELSE LookbackRanges(head)
\* Mutant of CompleteHistory: whatever was searched is taken for all there is.
AnyHistory(head) == Ranges(head) # {}
CompleteHistory(head) ==
    IF page = "verifier" THEN \E r \in FloorRanges(head) : FloorBlock \in r ELSE LookbackFirst(head) = 0

\* checkOnchain, to the judgement of the event: the hint, the head, and the
\* ranges below it, where nothing changes any more.
Judge(found, head) ==
    LET judged == [check EXCEPT !.pc = "ledger", !.hint = 0, !.head = head] IN
    CASE found -> Step(judged)
      [] ~ found /\ CompleteHistory(head) -> Step(Verified(Found(judged, {"fail"})))
      [] OTHER -> Step(Found(judged, {"unverifiable"}))
CheckEvent ==
    /\ check.pc = "event"
    /\ \/ check.hint > 0 /\ isExactApplication({check.hint}) /\ Judge(TRUE, check.hint)
       \/ /\ ~ (check.hint > 0 /\ isExactApplication({check.hint}))
          /\ Judge(isExactApplication(UNION Ranges(height)), height)
       \/ Step([Found(check, {"unverifiable"}) EXCEPT !.pc = "ledger", !.hint = 0, !.troubled = TRUE])

\* checkLedgerState; the slots, once it is applied, may hold anything.
IsApplied == applied # NotApplied /\ view.certificate.certificateId = Built.certificate.certificateId
CheckLedger ==
    /\ check.pc = "ledger"
    /\ \/ Step(Verified(Found(check, Unless(IsApplied))))
       \/ Step(Verified([Found(check, {"unverifiable"}) EXCEPT !.troubled = TRUE]))
       \/ IsApplied /\ Step(Threw(check))

\* checkAsParty: my two obligations are held, and the ledger has them where
\* the certificate starts; a read that fails here ends the load.
stateOf(i) ==
    LET entry == view.certificate.entries[i]
        built == Built.certificate.entries[i]
    IN
    IF entry.obligationId # built.obligationId \/ entry.creditor # built.creditor THEN ZeroHash
    ELSE IF applied.by = "this" THEN built.nextCommitment
    ELSE IF superseded THEN commitment(built.obligationId, 0, 8)
    ELSE built.priorCommitment
OwnHeld == Cardinality(OwnIn(view)) = 2 /\ OwnIn(view) \subseteq FullIn(view)
CheckOwnEntries ==
    /\ check.pc = "own entries"
    /\ Step([Found(check, Unless(OwnHeld)) EXCEPT
                !.pc = IF check.stage = "applied" THEN "done" ELSE "current", !.own = OwnIn(view)])
CheckCurrent ==
    /\ check.pc = "current"
    /\ \/ check.own = {} /\ Step([check EXCEPT !.pc = "done"])
       \/ LET i == CHOOSE i \in check.own : \A j \in check.own : i <= j IN
          /\ check.own # {}
          /\ \/ Step([Found(check, Unless(stateOf(i) = view.certificate.entries[i].priorCommitment))
                        EXCEPT !.own = @ \ {i}])
             \/ Step([check EXCEPT !.pc = "thrown", !.troubled = TRUE])

Next == Alter \/ Read \/ ResolveStage \/ CheckContents \/ CheckEvent \/ CheckLedger \/ CheckOwnEntries \/ CheckCurrent

-----------------------------------------------------------------------------
\* The terms and states the parties know of what they hold; and once it is
\* signed, everything.
AsAgreed ==
    /\ \A i \in FullIn(view) :
          LET doc == view.entries[i].document IN
          /\ <<doc.obligation, doc.remainingBefore, doc.blindingBefore>>
                = <<Loop[i].obligation, Loop[i].remaining, Loop[i].blinding>>
          /\ doc.remainingAfter = Loop[i].remaining - view.wNet
          /\ view.certificate.entries[i] = EntryOf(doc)
    /\ check.stage # "proposed" =>
          /\ check.signed /\ view.certificate = Built.certificate
          /\ <<view.domain, view.currency, view.wNet>> = <<ThisLedger, Currency, Net>>

\* A certificate nothing is wrong with, all along the check.
Sound ==
    /\ file \in Genuine
    /\ check.stage # "proposed" => check.signed
    /\ IF check.stage = "applied" THEN applied.by = "this" /\ applied.at <= check.head
       ELSE ~ late /\ (page = "party" => applied.by # "this" /\ ~ superseded)

\* What buildCertificate may be given.
Inputs ==
    ({Loop} \cup {[Loop EXCEPT ![1].remaining = @ - 1], [Loop EXCEPT ![1].remaining = @ + 9],
                  [Loop EXCEPT ![1].blinding = ZeroBlinding], [Loop EXCEPT ![2].obligation.currency = "other"],
                  [Loop EXCEPT ![1].obligation.creditor = Me], SubSeq(Loop, 1, 1)})
        \X (0..(Net + 1))
BuildProved ==
    \A input \in Inputs :
        ~ BuildProblem(input[1], input[2], Currency)
            <=> Contents(buildCertificate(input[1], input[2], Currency), "proposed", "answers") = {}

\* verifyCertificateView, checkAsParty: what passes is what was agreed, signed as
\* far as the stage asks, and applied if it is said to be; what fails has
\* something wrong with it, unless a read failed; what has nothing wrong with it
\* passes, unless no node was asked or its event lies outside what was searched.
\* And buildCertificate refuses what the verifier would, and nothing else.
VerdictRight ==
    check.pc = "done" =>
        /\ check.statuses = {} => AsAgreed /\ (check.stage = "applied" => applied.by = "this")
        /\ Sound /\ ~ check.troubled => "fail" \notin check.statuses
        /\ Sound /\ "unverifiable" \in check.statuses =>
              ~ Client \/ check.troubled \/ applied.at \notin UNION Ranges(check.head)
        /\ page = "service" /\ ~ late => BuildProved

=============================================================================
