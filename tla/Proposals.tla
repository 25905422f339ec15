------------------------------- MODULE Proposals ------------------------------
(***************************************************************************)
(* Obligation proposals: one party proposes an obligation, the other       *)
(* accepts or declines it, or the first takes it back.  A call of the      *)
(* service is a process: what it reads of the database, and the one        *)
(* statement it then changes it with, are steps, and calls interleave      *)
(* between them.  The statement of an acceptance is two steps, since what  *)
(* it answers comes from the snapshot it was started with and what it      *)
(* changes from the rows as they are once their locks are its own.         *)
(***************************************************************************)
EXTENDS Integers

CONSTANTS
    Obligations,    \* obligation ids: what is proposed, with its salt
    Pairs,          \* [Obligations -> the debtor and the creditor]
    DocumentOf,     \* [Obligations -> the document and the pair it is for]
    Parties,        \* whoever may call
    Nobody,         \* NULL, where a row or a call names a party
    Calls,          \* calls of the service
    Lifetime,       \* PROPOSAL_LIFETIME
    MaxTime         \* bound on the clock

ASSUME ProposalsAssumption ==
    /\ Nobody \notin Parties
    /\ Pairs \in [Obligations -> Parties \X Parties]
    /\ \A o \in Obligations : Pairs[o][1] # Pairs[o][2]
    /\ {Lifetime, MaxTime} \subseteq Nat

VARIABLES
    now,
    proposals,      \* netting_proposals, by obligation id
    recorded,       \* netting_obligations
    calls

vars == <<now, proposals, recorded, calls>>

NoProposal == [status |-> "none", proposer |-> Nobody, closedBy |-> Nobody,
               closedAt |-> 0, expiresAt |-> 0]
NoCall == [pc |-> "idle", kind |-> "none", by |-> Nobody, of |-> Nobody,
           seen |-> NoProposal, exists |-> FALSE, at |-> 0, answer |-> "none"]

Rows == [status : {"none", "open", "accepted", "withdrawn"},
         proposer : Parties \cup {Nobody}, closedBy : Parties \cup {Nobody},
         closedAt : 0 .. MaxTime, expiresAt : 0 .. MaxTime + Lifetime]

PartiesOf(o) == {Pairs[o][1], Pairs[o][2]}
Counterparty(o, p) == IF p = Pairs[o][1] THEN Pairs[o][2] ELSE Pairs[o][1]

\* What a proposal is to whoever reads it at time t.
StateOf(row, t) == IF row.status = "open" /\ row.expiresAt <= t THEN "expired" ELSE row.status

\* The database has no unique constraint on the document.
NoDocumentConstraint(o) == FALSE

\* Another obligation for the same document and pair: the unique constraint
\* of netting_obligations, and what obligationExistsForDocument looks for.
DocumentTaken(o) == \E other \in recorded : DocumentOf[other] = DocumentOf[o]

Init ==
    /\ now = 0
    /\ proposals = [o \in Obligations |-> NoProposal]
    /\ recorded = {}
    /\ calls = [c \in Calls |-> NoCall]

-----------------------------------------------------------------------------

Goto(c, pc) == calls' = [calls EXCEPT ![c].pc = pc]
Answer(c, answer) ==
    calls' = [calls EXCEPT ![c] = [NoCall EXCEPT !.pc = "done", !.kind = calls[c].kind,
                                                 !.of = calls[c].of, !.answer = answer]]

\* What the statement changed, it changed even if its answer is lost.
AnswerOrLose(c, answer) == \E a \in {answer, "failed"} : Answer(c, a)

Call(c) ==
    /\ calls[c].pc \in {"idle", "done"}
    /\ \E kind \in {"create", "accept", "withdraw"}, p \in Parties, o \in Obligations :
         calls' = [calls EXCEPT ![c] = [NoCall EXCEPT !.pc = kind, !.kind = kind, !.by = p, !.of = o]]
    /\ UNCHANGED <<now, proposals, recorded>>

\* The party's budget is used up, the input cannot be read, or the database
\* cannot be reached: the call ends before it changes anything.
Refuse(c) ==
    /\ calls[c].pc \in {"create", "accept", "withdraw"}
    /\ Answer(c, "refused")
    /\ UNCHANGED <<now, proposals, recorded>>

\* createProposal, once validateProposal has passed: whoever proposes is one
\* of the two, has signed, and both are clear.
CheckRecorded(c) ==
    LET call == calls[c] IN
    /\ call.pc = "create"
    /\ IF call.by \notin PartiesOf(call.of) THEN Answer(c, "refused")
       ELSE IF DocumentTaken(call.of) THEN Answer(c, "duplicate")
       ELSE Goto(c, "prior")
    /\ UNCHANGED <<now, proposals, recorded>>

CheckPrior(c) ==
    /\ calls[c].pc = "prior"
    /\ IF proposals[calls[c].of].status # "none" THEN Answer(c, "existing") ELSE Goto(c, "insert")
    /\ UNCHANGED <<now, proposals, recorded>>

\* The insert does nothing when another has come first, and the call then
\* answers with what that one stored.
InsertProposal(c) ==
    LET call == calls[c] IN
    /\ call.pc = "insert"
    /\ proposals' = IF proposals[call.of].status # "none" THEN proposals
                    ELSE [proposals EXCEPT ![call.of] =
                            [NoProposal EXCEPT !.status = "open", !.proposer = call.by,
                                               !.expiresAt = now + Lifetime]]
    /\ AnswerOrLose(c, "created")
    /\ UNCHANGED <<now, recorded>>

\* acceptProposal reads the proposal; validateAcceptance then lets only the
\* counterparty on.
ReadToAccept(c) ==
    LET call == calls[c]
        row == proposals[call.of]
    IN
    /\ call.pc = "accept"
    /\ IF row.status = "none" \/ call.by \notin PartiesOf(call.of) THEN Answer(c, "notfound")
       ELSE CASE StateOf(row, now) = "accepted" -> Answer(c, IF call.of \in recorded THEN "ok" ELSE "closed")
              [] StateOf(row, now) \in {"withdrawn", "expired"} -> Answer(c, StateOf(row, now))
              [] OTHER -> IF call.by = row.proposer THEN Answer(c, "refused")
                          ELSE Goto(c, "validated")
    /\ UNCHANGED <<now, proposals, recorded>>

\* A signature that does not check, or a party the screening blocks.
RefuseAcceptance(c) ==
    /\ calls[c].pc = "validated"
    /\ Answer(c, "refused")
    /\ UNCHANGED <<now, proposals, recorded>>

BeginAcceptance(c) ==
    LET o == calls[c].of IN
    /\ calls[c].pc = "validated"
    /\ calls' = [calls EXCEPT ![c].pc = "claim", ![c].seen = proposals[o],
                              ![c].exists = o \in recorded, ![c].at = now]
    /\ UNCHANGED <<now, proposals, recorded>>

\* The statement relies on the expiry acceptProposal has read.
UntimedAcceptance(c) ==
    LET call == calls[c]
        o == call.of
    IN
    /\ call.pc = "claim"
    /\ proposals[o].status = "open" /\ ~DocumentTaken(o)
    /\ proposals' = [proposals EXCEPT ![o].status = "accepted", ![o].closedBy = call.by,
                                      ![o].closedAt = call.at]
    /\ recorded' = recorded \cup {o}
    /\ AnswerOrLose(c, "ok")
    /\ UNCHANGED now

\* The claim: the proposal is accepted and its obligation recorded, or, when
\* the document is taken, neither.
AcceptProposal(c) ==
    LET call == calls[c]
        o == call.of
        claimed == proposals[o].status = "open" /\ proposals[o].expiresAt > call.at
    IN
    /\ call.pc = "claim"
    /\ claimed /\ ~DocumentTaken(o)
    /\ proposals' = [proposals EXCEPT ![o].status = "accepted", ![o].closedBy = call.by,
                                      ![o].closedAt = call.at]
    /\ recorded' = recorded \cup {o}
    /\ AnswerOrLose(c, "ok")
    /\ UNCHANGED now

\* The conflict on the document is skipped, not raised, so the claim stands.
UnraisedConflict(c) ==
    LET call == calls[c]
        o == call.of
    IN
    /\ call.pc = "claim"
    /\ proposals[o].status = "open" /\ proposals[o].expiresAt > call.at
    /\ DocumentTaken(o)
    /\ proposals' = [proposals EXCEPT ![o].status = "accepted", ![o].closedBy = call.by,
                                      ![o].closedAt = call.at]
    /\ AnswerOrLose(c, "ok")
    /\ UNCHANGED <<now, recorded>>

ConflictingDocument(c) ==
    LET call == calls[c]
        o == call.of
    IN
    /\ call.pc = "claim"
    /\ proposals[o].status = "open" /\ proposals[o].expiresAt > call.at
    /\ DocumentTaken(o)
    /\ AnswerOrLose(c, "duplicate")
    /\ UNCHANGED <<now, proposals, recorded>>

\* The statement that claimed nothing is taken for an acceptance before.
NothingClaimedIsFine(c) ==
    LET call == calls[c] IN
    /\ call.pc = "claim"
    /\ proposals[call.of].status # "open" \/ proposals[call.of].expiresAt <= call.at
    /\ Answer(c, "ok")
    /\ UNCHANGED <<now, proposals, recorded>>

NothingClaimed(c) ==
    LET call == calls[c]
        row == proposals[call.of]
    IN
    /\ call.pc = "claim"
    /\ row.status # "open" \/ row.expiresAt <= call.at
    /\ Answer(c, IF call.seen.status = "accepted" /\ call.exists THEN "ok"
                 ELSE IF row.expiresAt <= now THEN "expired" ELSE "closed")
    /\ UNCHANGED <<now, proposals, recorded>>

\* withdrawProposal: the proposer withdraws, the counterparty declines.
ReadToWithdraw(c) ==
    LET call == calls[c]
        row == proposals[call.of]
    IN
    /\ call.pc = "withdraw"
    /\ IF row.status = "none" \/ call.by \notin PartiesOf(call.of) THEN Answer(c, "notfound")
       ELSE CASE row.status = "accepted" -> Answer(c, "accepted")
              [] row.status = "withdrawn" -> Answer(c, "ok")
              [] OTHER -> Goto(c, "mark")
    /\ UNCHANGED <<now, proposals, recorded>>

\* The withdrawal trusts the status it has read.
UncheckedWithdrawal(c) ==
    LET call == calls[c] IN
    /\ call.pc = "mark"
    /\ proposals' = [proposals EXCEPT ![call.of].status = "withdrawn", ![call.of].closedBy = call.by,
                                      ![call.of].closedAt = now]
    /\ AnswerOrLose(c, "ok")
    /\ UNCHANGED <<now, recorded>>

\* A decline is given a status of its own, which the table does not allow.
MarkProposalDeclined(c) ==
    LET call == calls[c] IN
    /\ call.pc = "mark"
    /\ proposals[call.of].status = "open"
    /\ proposals' = [proposals EXCEPT ![call.of].status = "declined", ![call.of].closedBy = call.by]
    /\ AnswerOrLose(c, "ok")
    /\ UNCHANGED <<now, recorded>>

MarkProposalWithdrawn(c) ==
    LET call == calls[c]
        o == call.of
    IN
    /\ call.pc = "mark"
    /\ IF proposals[o].status = "open"
       THEN /\ proposals' = [proposals EXCEPT ![o].status = "withdrawn", ![o].closedBy = call.by,
                                              ![o].closedAt = now]
            /\ AnswerOrLose(c, "ok")
       ELSE /\ Answer(c, "changed")
            /\ UNCHANGED proposals
    /\ UNCHANGED <<now, recorded>>

Tick ==
    /\ now < MaxTime
    /\ now' = now + 1
    /\ UNCHANGED <<proposals, recorded, calls>>

Step(c) ==
    \/ Call(c) \/ Refuse(c)
    \/ CheckRecorded(c) \/ CheckPrior(c) \/ InsertProposal(c)
    \/ ReadToAccept(c) \/ RefuseAcceptance(c) \/ BeginAcceptance(c)
    \/ AcceptProposal(c) \/ ConflictingDocument(c) \/ NothingClaimed(c)
    \/ ReadToWithdraw(c) \/ MarkProposalWithdrawn(c)

Next == Tick \/ \E c \in Calls : Step(c)

Spec == Init /\ [][Next]_vars

-----------------------------------------------------------------------------
\* What a party's lists show: listOpenProposalsForParty, the proposals closed
\* lately, and, in the words of listMine, how each was closed.
Open(me) == {o \in Obligations : me \in PartiesOf(o) /\ StateOf(proposals[o], now) = "open"}
Closed(me) == {o \in Obligations : /\ me \in PartiesOf(o)
                                   /\ proposals[o].status = "withdrawn"
                                   /\ proposals[o].closedAt > now - Lifetime}
WaitingOn(me, o) == IF proposals[o].proposer = me THEN "them" ELSE "you"

ClosedBy(row) ==
    IF row.status # "withdrawn" \/ row.closedBy = Nobody THEN "nobody"
    ELSE IF row.closedBy = row.proposer THEN "proposer" ELSE "counterparty"
Outcome(me, o) ==
    LET row == proposals[o] IN
    IF ClosedBy(row) = "counterparty"
    THEN IF row.proposer = me THEN "declined-by-them" ELSE "you-declined"
    ELSE IF row.proposer = me THEN "you-withdrew" ELSE "withdrawn-by-them"

-----------------------------------------------------------------------------
TypeOK ==
    /\ now \in 0 .. MaxTime
    /\ proposals \in [Obligations -> Rows]
    /\ recorded \subseteq Obligations
    /\ calls \in [Calls ->
          [pc : {"idle", "create", "prior", "insert", "accept", "validated", "claim",
                 "withdraw", "mark", "done"},
           kind : {"none", "create", "accept", "withdraw"},
           by : Parties \cup {Nobody}, of : Obligations \cup {Nobody},
           seen : Rows, exists : BOOLEAN, at : 0 .. MaxTime,
           answer : {"none", "refused", "duplicate", "existing", "created", "notfound", "ok",
                     "closed", "withdrawn", "expired", "accepted", "changed", "failed"}]]

\* However many acceptances, withdrawals and lost answers race, a proposal is
\* accepted exactly when its obligation is recorded: the one statement of
\* acceptProposalWithObligation does both or neither, the case that the
\* document is already recorded between the two included.
AcceptedIsRecorded ==
    \A o \in Obligations : proposals[o].status = "accepted" <=> o \in recorded

\* A document is recorded once between its two parties, although proposals
\* that differ only in their salt can be open, and accepted, side by side.
OneObligationPerDocument ==
    \A o, other \in recorded : DocumentOf[o] = DocumentOf[other] => o = other

\* An accepted proposal was accepted by the party that did not propose it,
\* while it was open: that it had not expired was read before the signatures
\* were checked, and time has passed since.
AcceptedInTime ==
    \A o \in Obligations :
        LET row == proposals[o] IN
        row.status = "accepted" =>
            /\ row.closedBy = Counterparty(o, row.proposer)
            /\ row.closedAt < row.expiresAt

\* The two parties read the same story in their lists: an open proposal waits
\* on exactly one of them, and a closed one is told to have been closed by
\* "you" to exactly the party that closed it (listMine words it from who
\* closed it and who proposed it, which a statement has stored).
ListsAgree ==
    \A o \in Obligations :
        LET p == Pairs[o][1]
            q == Pairs[o][2]
        IN
        /\ o \in Open(p) => o \in Open(q) /\ o \notin Closed(p) /\ WaitingOn(p, o) # WaitingOn(q, o)
        /\ o \in Closed(p) =>
             \A me \in {p, q} : (Outcome(me, o) \in {"you-declined", "you-withdrew"})
                                   <=> me = proposals[o].closedBy

\* What a call has answered holds: a token leads to a proposal, an acceptance
\* answered with success is recorded, a proposal said to be withdrawn is not
\* in force, and a document said to be recorded is, although each answer
\* comes from reads made before other calls changed the rows; and the lists of
\* the parties tell what happened.
AnswersHold ==
    /\ ListsAgree
    /\ \A c \in Calls :
           LET call == calls[c]
               row == proposals[call.of]
           IN
           /\ call.answer \in {"created", "existing"} => row.status # "none"
           /\ call.answer = "duplicate" => DocumentTaken(call.of) \/ call.of \in recorded
           /\ call.kind = "accept" /\ call.answer = "ok" => call.of \in recorded
           /\ call.kind = "withdraw" /\ call.answer = "ok" => row.status = "withdrawn"
           /\ call.answer = "accepted" => row.status = "accepted"
           /\ call.answer = "withdrawn" => row.status = "withdrawn"

\* A proposal is closed once: who closed it, how and when never change, and
\* neither does what it proposes.
ClosedOnce ==
    [][\A o \in Obligations :
          proposals[o].status \in {"accepted", "withdrawn"} => proposals'[o] = proposals[o]]_vars

\* The calls, with all the reads they rely on and the answers they lose, do
\* nothing but what Agreements allows.
Agreement == INSTANCE Agreements
ImplementsAgreements == Agreement!Spec

\* What a call under way has made sure of.
Underway ==
    \A c \in Calls :
        LET call == calls[c] IN
        /\ call.pc \notin {"idle", "done"} => call.by \in Parties /\ call.of \in Obligations
        /\ call.pc \in {"prior", "insert", "validated", "claim", "mark"} => call.by \in PartiesOf(call.of)
        /\ call.pc \in {"validated", "claim"} => proposals[call.of].status # "none"
                                                /\ call.by # proposals[call.of].proposer

\* Withdrawing or declining a proposal twice is the same as once: only a
\* proposal the other party has accepted answers otherwise.
RepeatedWithdrawalIsTheSame ==
    \A c \in Calls :
        calls[c].answer = "changed" => proposals[calls[c].of].status = "accepted"

=============================================================================
