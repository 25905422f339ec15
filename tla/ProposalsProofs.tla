---------------------------- MODULE ProposalsProofs ---------------------------
(***************************************************************************)
(* Theorems about Proposals, for every set of obligations, parties and     *)
(* calls and any clock.                                                    *)
(***************************************************************************)
EXTENDS Proposals, TLAPS

Safe == TypeOK /\ Underway

\* It holds at the start: there is no proposal and no call.
LEMMA InitSafe == Init => Safe
BY ProposalsAssumption DEF Init, Safe, TypeOK, Underway, Rows, NoProposal, NoCall

\* Every step leaves the rows alone, or is one of the three things Agreements
\* allows.
Rests == UNCHANGED <<proposals, recorded>>
Agrees == \E o \in Obligations, p \in Parties, t \in 0 .. MaxTime :
             \/ Agreement!Propose(o, p, t)
             \/ Agreement!Accept(o, p, t)
             \/ Agreement!TakeBack(o, p, t)

\* insertProposal proposes, or leaves the rows alone where one came first.
LEMMA InsertAgrees ==
    ASSUME Safe, NEW c \in Calls, InsertProposal(c)
    PROVE  Rests \/ Agrees
<1>. DEFINE call == calls[c]
<1>1. call.of \in Obligations /\ call.by \in Parties /\ call.by \in PartiesOf(call.of) /\ now \in 0 .. MaxTime
  BY DEF Safe, TypeOK, Underway, InsertProposal
<1>2. CASE proposals[call.of].status # "none"
  BY <1>2 DEF InsertProposal, Rests
<1>3. CASE proposals[call.of].status = "none"
  <2>1. Agreement!Propose(call.of, call.by, now)
    BY <1>1, <1>3 DEF InsertProposal, Agreement!Propose, PartiesOf, NoProposal, Agreement!NoProposal
  <2>. QED
    BY <1>1, <2>1 DEF Agrees
<1>. QED
  BY <1>2, <1>3

\* acceptProposalWithObligation accepts, at the time its statement began.
LEMMA AcceptAgrees ==
    ASSUME Safe, NEW c \in Calls, AcceptProposal(c)
    PROVE  Agrees
<1>. DEFINE call == calls[c]
<1>1. /\ call.of \in Obligations /\ call.by \in Parties /\ call.at \in 0 .. MaxTime
      /\ call.by \in PartiesOf(call.of) /\ call.by # proposals[call.of].proposer
  BY DEF Safe, TypeOK, Underway, AcceptProposal
<1>2. call.at < proposals[call.of].expiresAt
  <2>1. proposals[call.of] \in Rows
    BY <1>1 DEF Safe, TypeOK
  <2>. QED
    BY <1>1, <2>1, ProposalsAssumption DEF AcceptProposal, Rows
<1>3. Agreement!Accept(call.of, call.by, call.at)
  BY <1>1, <1>2 DEF AcceptProposal, Agreement!Accept, PartiesOf, DocumentTaken
<1>. QED
  BY <1>1, <1>3 DEF Agrees

\* markProposalWithdrawn takes an open proposal back, and no other.
LEMMA WithdrawAgrees ==
    ASSUME Safe, NEW c \in Calls, MarkProposalWithdrawn(c)
    PROVE  Rests \/ Agrees
<1>. DEFINE call == calls[c]
<1>1. call.of \in Obligations /\ call.by \in Parties /\ call.by \in PartiesOf(call.of) /\ now \in 0 .. MaxTime
  BY DEF Safe, TypeOK, Underway, MarkProposalWithdrawn
<1>2. CASE proposals[call.of].status # "open"
  BY <1>2 DEF MarkProposalWithdrawn, Rests
<1>3. CASE proposals[call.of].status = "open"
  <2>1. Agreement!TakeBack(call.of, call.by, now)
    BY <1>1, <1>3 DEF MarkProposalWithdrawn, Agreement!TakeBack, PartiesOf
  <2>. QED
    BY <1>1, <2>1 DEF Agrees
<1>. QED
  BY <1>2, <1>3

\* No step of a call does more to the rows than that.
LEMMA StepAgrees ==
    ASSUME Safe, [Next]_vars
    PROVE  Rests \/ Agrees
<1>1. CASE UNCHANGED vars
  BY <1>1 DEF vars, Rests
<1>2. CASE Tick
  BY <1>2 DEF Tick, Rests
<1>3. ASSUME NEW c \in Calls, Step(c)
      PROVE  Rests \/ Agrees
  <2>1. \/ Rests
        \/ InsertProposal(c) \/ AcceptProposal(c) \/ MarkProposalWithdrawn(c)
    BY <1>3 DEF Step, Rests, Call, Refuse, CheckRecorded, CheckPrior, ReadToAccept,
                RefuseAcceptance, BeginAcceptance, ConflictingDocument, NothingClaimed,
                ReadToWithdraw
  <2>. QED
    BY <2>1, InsertAgrees, AcceptAgrees, WithdrawAgrees
<1>. QED
  BY <1>1, <1>2, <1>3 DEF Next

\* What an agreed step does to a row: it stays well formed, a proposal once
\* made stays and keeps its proposer, and a closed one does not change.
LEMMA RowStep ==
    ASSUME Safe, Rests \/ Agrees
    PROVE  /\ proposals' \in [Obligations -> Rows]
           /\ recorded' \subseteq Obligations
           /\ \A o \in Obligations :
                /\ proposals[o].status # "none" => /\ proposals'[o].status # "none"
                                                   /\ proposals'[o].proposer = proposals[o].proposer
                /\ proposals[o].status \in {"accepted", "withdrawn"} => proposals'[o] = proposals[o]
<1>1. CASE Rests
  BY <1>1 DEF Rests, Safe, TypeOK
<1>2. ASSUME NEW o \in Obligations, NEW p \in Parties, NEW t \in 0 .. MaxTime,
             Agreement!Propose(o, p, t)
      PROVE  /\ proposals' \in [Obligations -> Rows] /\ recorded' = recorded
             /\ \A x \in Obligations : proposals[x].status # "none" => proposals'[x] = proposals[x]
  <2>. DEFINE row == [Agreement!NoProposal EXCEPT !.status = "open", !.proposer = p,
                                                  !.expiresAt = t + Lifetime]
  <2>1. t + Lifetime \in 0 .. MaxTime + Lifetime /\ 0 \in 0 .. MaxTime
    BY ProposalsAssumption
  <2>2. row \in Rows
    BY <2>1 DEF Agreement!NoProposal, Rows
  <2>. HIDE DEF row
  <2>3. proposals' = [proposals EXCEPT ![o] = row] /\ proposals[o].status = "none" /\ recorded' = recorded
    BY <1>2 DEF Agreement!Propose, row
  <2>. QED
    BY <2>2, <2>3 DEF Safe, TypeOK
<1>3. ASSUME NEW o \in Obligations, NEW p \in Parties, NEW t \in 0 .. MaxTime,
             Agreement!Accept(o, p, t) \/ Agreement!TakeBack(o, p, t)
      PROVE  /\ proposals' \in [Obligations -> Rows]
             /\ recorded' \subseteq Obligations
             /\ proposals[o].status = "open" /\ proposals'[o].status # "none"
             /\ proposals'[o].proposer = proposals[o].proposer
             /\ \A x \in Obligations \ {o} : proposals'[x] = proposals[x]
  <2>1. PICK status \in {"accepted", "withdrawn"} :
           proposals' = [proposals EXCEPT ![o].status = status, ![o].closedBy = p, ![o].closedAt = t]
    BY <1>3 DEF Agreement!Accept, Agreement!TakeBack
  <2>. DEFINE old == proposals[o]
              row == [old EXCEPT !.status = status, !.closedBy = p, !.closedAt = t]
  <2>2. old \in Rows /\ old.status = "open" /\ recorded' \subseteq Obligations
    BY <1>3 DEF Safe, TypeOK, Agreement!Accept, Agreement!TakeBack
  <2>3. proposals' = [proposals EXCEPT ![o] = row]
    BY <2>1
  <2>. HIDE DEF old
  <2>4. row \in Rows /\ row.status = status /\ row.proposer = old.proposer
    BY <2>2 DEF Rows
  <2>. HIDE DEF row
  <2>5. /\ proposals' \in [Obligations -> Rows] /\ proposals'[o] = row
        /\ \A x \in Obligations \ {o} : proposals'[x] = proposals[x]
    BY <2>3, <2>4 DEF Safe, TypeOK
  <2>. QED
    BY <2>2, <2>4, <2>5 DEF old
<1>. QED
  BY <1>1, <1>2, <1>3 DEF Agrees, Safe, TypeOK

\* Safe is inductive: the rows by RowStep, the calls action by action.
LEMMA SafeStep ==
    ASSUME Safe, [Next]_vars
    PROVE  Safe'
<1>1. /\ proposals' \in [Obligations -> Rows]
      /\ recorded' \subseteq Obligations
      /\ \A o \in Obligations :
           proposals[o].status # "none" => /\ proposals'[o].status # "none"
                                           /\ proposals'[o].proposer = proposals[o].proposer
  BY StepAgrees, RowStep
<1>. DEFINE Sound(call, rows) ==
       /\ call.pc \notin {"idle", "done"} => call.by \in Parties /\ call.of \in Obligations
       /\ call.pc \in {"prior", "insert", "validated", "claim", "mark"} => call.by \in PartiesOf(call.of)
       /\ call.pc \in {"validated", "claim"} => rows[call.of].status # "none"
                                               /\ call.by # rows[call.of].proposer
<1>2. \A c \in Calls : Sound(calls[c], proposals) => Sound(calls[c], proposals')
  BY <1>1
<1>3. CASE calls' = calls
  <2>1. now' \in 0 .. MaxTime
    <3>1. CASE UNCHANGED vars
      BY <3>1 DEF vars, Safe, TypeOK
    <3>2. CASE Tick
      BY <3>2, ProposalsAssumption DEF Tick, Safe, TypeOK
    <3>3. ASSUME NEW c \in Calls, Step(c) PROVE now' = now
      BY <3>3 DEF Step, Call, Refuse, CheckRecorded, CheckPrior, InsertProposal, ReadToAccept,
                  RefuseAcceptance, BeginAcceptance, AcceptProposal, ConflictingDocument,
                  NothingClaimed, ReadToWithdraw, MarkProposalWithdrawn
    <3>. QED
      BY <3>1, <3>2, <3>3 DEF Next, Safe, TypeOK
  <2>. QED
    BY <1>1, <1>2, <1>3, <2>1 DEF Safe, TypeOK, Underway
<1>4. ASSUME NEW c \in Calls, Step(c)
      PROVE  Safe'
  <2>. DEFINE Records ==
          [pc : {"idle", "create", "prior", "insert", "accept", "validated", "claim",
                 "withdraw", "mark", "done"},
           kind : {"none", "create", "accept", "withdraw"},
           by : Parties \cup {Nobody}, of : Obligations \cup {Nobody},
           seen : Rows, exists : BOOLEAN, at : 0 .. MaxTime,
           answer : {"none", "refused", "duplicate", "existing", "created", "notfound", "ok",
                     "closed", "withdrawn", "expired", "accepted", "changed", "failed"}]
  <2>0. calls[c] \in Records /\ NoCall \in Records /\ now \in 0 .. MaxTime
    <3>1. NoProposal \in Rows
      BY ProposalsAssumption DEF NoProposal, Rows
    <3>. QED
      BY <3>1, ProposalsAssumption DEF NoCall, Safe, TypeOK
  <2>1. ASSUME NEW rec \in Records, calls' = [calls EXCEPT ![c] = rec],
               Sound(rec, proposals'), now' = now
        PROVE  Safe'
    BY <1>1, <1>2, <2>1 DEF Safe, TypeOK, Underway
  <2>. DEFINE Answers == {"refused", "duplicate", "existing", "created", "notfound", "ok",
                          "closed", "withdrawn", "expired", "accepted", "changed", "failed"}
  <2>2. ASSUME NEW answer \in Answers, Answer(c, answer), now' = now
        PROVE  Safe'
    <3>. DEFINE old == calls[c]
                rec == [NoCall EXCEPT !.pc = "done", !.kind = old.kind, !.of = old.of, !.answer = answer]
    <3>2. calls' = [calls EXCEPT ![c] = rec]
      BY <2>2 DEF Answer
    <3>3. old.kind \in {"none", "create", "accept", "withdraw"} /\ old.of \in Obligations \cup {Nobody}
      BY <2>0
    <3>. HIDE DEF old
    <3>4. PICK kind \in {"none", "create", "accept", "withdraw"}, o \in Obligations \cup {Nobody} :
             rec = [NoCall EXCEPT !.pc = "done", !.kind = kind, !.of = o, !.answer = answer]
      BY <3>3
    <3>5. NoCall \in Records
      BY <2>0
    <3>. HIDE DEF rec
    <3>1. rec \in Records /\ rec.pc = "done"
      BY <2>2, <3>4, <3>5
    <3>. QED
      BY <2>1, <2>2, <3>1, <3>2
  <2>3. ASSUME NEW pc \in {"prior", "insert", "validated", "mark"}, Goto(c, pc), now' = now,
               calls[c].of \in Obligations, calls[c].by \in PartiesOf(calls[c].of), calls[c].by \in Parties,
               pc = "validated" => proposals'[calls[c].of].status # "none"
                                   /\ calls[c].by # proposals'[calls[c].of].proposer
        PROVE  Safe'
    <3>. DEFINE old == calls[c]
                rec == [old EXCEPT !.pc = pc]
    <3>2. calls' = [calls EXCEPT ![c] = rec]
      BY <2>3 DEF Goto
    <3>. HIDE DEF old
    <3>1. rec \in Records /\ rec.pc = pc /\ rec.of = old.of /\ rec.by = old.by
      BY <2>0 DEF old
    <3>. HIDE DEF rec
    <3>3. Sound(rec, proposals')
      BY <2>3, <3>1 DEF old
    <3>. QED
      BY <2>1, <2>3, <3>1, <3>2, <3>3
  <2>4. CASE Call(c)
    <3>1. PICK kind \in {"create", "accept", "withdraw"}, p \in Parties, o \in Obligations :
             calls' = [calls EXCEPT ![c] = [NoCall EXCEPT !.pc = kind, !.kind = kind, !.by = p, !.of = o]]
      BY <2>4 DEF Call
    <3>. DEFINE rec == [NoCall EXCEPT !.pc = kind, !.kind = kind, !.by = p, !.of = o]
    <3>2. rec \in Records /\ rec.pc = kind /\ rec.by = p /\ rec.of = o
      BY <2>0, ZenonT(40)
    <3>. HIDE DEF rec
    <3>3. Sound(rec, proposals')
      BY <3>2
    <3>. QED
      BY <2>1, <2>4, <3>1, <3>2, <3>3 DEF Call, rec
  <2>5. CASE BeginAcceptance(c)
    <3>. DEFINE old == calls[c]
                row == proposals[old.of]
                exists == old.of \in recorded
                rec == [old EXCEPT !.pc = "claim", !.seen = row, !.exists = exists, !.at = now]
    <3>0. /\ calls' = [calls EXCEPT ![c] = rec] /\ proposals' = proposals /\ now' = now
          /\ old.pc = "validated"
      BY <2>5 DEF BeginAcceptance
    <3>7. /\ old.of \in Obligations /\ old.by \in Parties /\ old.by \in PartiesOf(old.of)
          /\ row.status # "none" /\ old.by # row.proposer
      BY <3>0 DEF Safe, Underway
    <3>8. row \in Rows /\ exists \in BOOLEAN
      BY <3>7 DEF Safe, TypeOK
    <3>1. /\ calls' = [calls EXCEPT ![c] = rec] /\ proposals' = proposals /\ now' = now
          /\ old.of \in Obligations /\ old.by \in Parties /\ old.by \in PartiesOf(old.of)
          /\ row.status # "none" /\ old.by # row.proposer /\ row \in Rows /\ exists \in BOOLEAN
      BY <3>0, <3>7, <3>8
    <3>2. old \in Records
      BY <2>0
    <3>. HIDE DEF old, exists
    <3>3. rec.pc = "claim" /\ rec.of = old.of /\ rec.by = old.by
      BY <3>2
    <3>. DEFINE stored == row
    <3>4. stored \in Rows /\ rec = [old EXCEPT !.pc = "claim", !.seen = stored, !.exists = exists, !.at = now]
      BY <3>1
    <3>. HIDE DEF row, stored
    <3>5. rec \in Records
      BY <2>0, <3>1, <3>2, <3>4
    <3>. HIDE DEF rec
    <3>6. Sound(rec, proposals')
      BY <3>1, <3>3 DEF row
    <3>. QED
      BY <2>1, <3>1, <3>5, <3>6
  <2>6. CASE \E answer \in Answers : Answer(c, answer) /\ now' = now
    BY <2>2, <2>6
  <2>7. calls[c].pc \notin {"idle", "done"} => calls[c].by \in Parties /\ calls[c].of \in Obligations
    BY DEF Safe, Underway
  <2>8. CASE CheckRecorded(c) \/ CheckPrior(c) \/ ReadToWithdraw(c) \/ ReadToAccept(c)
    <3>1. /\ now' = now /\ proposals' = proposals
          /\ calls[c].by \in Parties /\ calls[c].of \in Obligations
      BY <2>7, <2>8 DEF CheckRecorded, CheckPrior, ReadToWithdraw, ReadToAccept
    <3>2. CASE CheckRecorded(c)
      BY <2>2, <2>3, <3>1, <3>2 DEF CheckRecorded
    <3>3. CASE CheckPrior(c)
      <4>1. calls[c].by \in PartiesOf(calls[c].of)
        BY <3>3 DEF CheckPrior, Safe, Underway
      <4>. QED
        BY <2>2, <2>3, <3>1, <3>3, <4>1 DEF CheckPrior
    <3>4. CASE ReadToWithdraw(c)
      BY <2>2, <2>3, <3>1, <3>4 DEF ReadToWithdraw
    <3>5. CASE ReadToAccept(c)
      <4>. DEFINE state == StateOf(proposals[calls[c].of], now)
      <4>1. state \in {"none", "open", "expired", "accepted", "withdrawn"}
        BY <3>1 DEF StateOf, Safe, TypeOK, Rows
      <4>2. state \in {"accepted", "withdrawn", "expired"} =>
               \/ \E answer \in Answers : Answer(c, answer)
        BY <3>5 DEF ReadToAccept
      <4>3. state \notin {"accepted", "withdrawn", "expired"} =>
               \/ \E answer \in Answers : Answer(c, answer)
               \/ /\ Goto(c, "validated") /\ proposals[calls[c].of].status # "none"
                  /\ calls[c].by \in PartiesOf(calls[c].of) /\ calls[c].by # proposals[calls[c].of].proposer
        BY <3>5 DEF ReadToAccept
      <4>. QED
        BY <2>2, <2>3, <3>1, <4>2, <4>3
    <3>. QED
      BY <2>8, <3>2, <3>3, <3>4, <3>5
  <2>9. CASE \/ Refuse(c) \/ InsertProposal(c) \/ RefuseAcceptance(c) \/ AcceptProposal(c)
             \/ ConflictingDocument(c) \/ NothingClaimed(c) \/ MarkProposalWithdrawn(c)
    BY <2>6, <2>9 DEF Refuse, InsertProposal, RefuseAcceptance, AcceptProposal,
                      ConflictingDocument, NothingClaimed, MarkProposalWithdrawn, AnswerOrLose
  <2>. QED
    BY <1>4, <2>4, <2>5, <2>8, <2>9 DEF Step
<1>. QED
  BY <1>3, <1>4 DEF Next, vars, Tick

-----------------------------------------------------------------------------
\* The clock, the rows and the calls keep their types, and a call under way
\* still holds what it has made sure of.
THEOREM TypeCorrect == Spec => []TypeOK
<1>1. Safe /\ [Next]_vars => Safe'
  BY SafeStep
<1>2. Safe => TypeOK
  BY DEF Safe
<1>. QED
  BY <1>1, <1>2, InitSafe, PTL DEF Spec

\* What a call has made sure of holds until its statement has run.
LEMMA AlwaysSafe == Spec => []Safe
<1>1. Safe /\ [Next]_vars => Safe'
  BY SafeStep
<1>. QED
  BY <1>1, InitSafe, PTL DEF Spec

\* The service does only what Agreements allows, whatever interleaves.
THEOREM AgreementsImplemented == Spec => ImplementsAgreements
<1>1. Init => Agreement!Init
  BY DEF Init, Agreement!Init, NoProposal, Agreement!NoProposal
<1>2. Safe /\ [Next]_vars => [Agreement!Next]_(Agreement!vars)
  BY StepAgrees DEF Rests, Agrees, Agreement!Next, Agreement!vars
<1>. QED
  BY <1>1, <1>2, AlwaysSafe, PTL DEF Spec, ImplementsAgreements, Agreement!Spec

\* A closed proposal is never touched again.
THEOREM ClosedForGood == Spec => ClosedOnce
<1>1. Safe /\ [Next]_vars =>
        [\A o \in Obligations :
          proposals[o].status \in {"accepted", "withdrawn"} => proposals'[o] = proposals[o]]_vars
  BY StepAgrees, RowStep
<1>. QED
  BY <1>1, AlwaysSafe, PTL DEF Spec, ClosedOnce

-----------------------------------------------------------------------------
\* What is accepted, recorded and by whom, with whose a proposal is.
Recorded ==
    /\ AcceptedIsRecorded
    /\ OneObligationPerDocument
    /\ AcceptedInTime
    /\ \A o \in Obligations : proposals[o].status # "none" => proposals[o].proposer \in PartiesOf(o)

\* A proposal is recorded by the step that accepts it, and no other step adds
\* to what is recorded.
LEMMA RecordedStep ==
    ASSUME Safe, Recorded, [Next]_vars
    PROVE  Recorded'
<1>1. CASE Rests
  BY <1>1 DEF Rests, Recorded, AcceptedIsRecorded, OneObligationPerDocument, AcceptedInTime
<1>2. ASSUME NEW o \in Obligations, NEW p \in Parties, NEW t \in 0 .. MaxTime,
             Agreement!Propose(o, p, t)
      PROVE  Recorded'
  <2>1. /\ proposals'[o].status = "open" /\ proposals'[o].proposer = p /\ p \in PartiesOf(o)
        /\ proposals[o].status = "none" /\ recorded' = recorded
        /\ \A x \in Obligations \ {o} : proposals'[x] = proposals[x]
    <3>. DEFINE row == [Agreement!NoProposal EXCEPT !.status = "open", !.proposer = p,
                                                    !.expiresAt = t + Lifetime]
    <3>1. row.status = "open" /\ row.proposer = p
      BY DEF Agreement!NoProposal
    <3>. HIDE DEF row
    <3>2. proposals' = [proposals EXCEPT ![o] = row] /\ proposals \in [Obligations -> Rows]
      BY <1>2 DEF Agreement!Propose, row, Safe, TypeOK
    <3>. QED
      BY <1>2, <3>1, <3>2 DEF Agreement!Propose, PartiesOf
  <2>. QED
    BY <2>1 DEF Recorded, AcceptedIsRecorded, OneObligationPerDocument, AcceptedInTime
<1>3. ASSUME NEW o \in Obligations, NEW p \in Parties, NEW t \in 0 .. MaxTime,
             NEW status \in {"accepted", "withdrawn"},
             proposals[o].status = "open",
             proposals' = [proposals EXCEPT ![o].status = status, ![o].closedBy = p, ![o].closedAt = t]
      PROVE  /\ proposals'[o].status = status /\ proposals'[o].closedBy = p /\ proposals'[o].closedAt = t
             /\ proposals'[o].proposer = proposals[o].proposer
             /\ proposals'[o].expiresAt = proposals[o].expiresAt
             /\ \A x \in Obligations \ {o} : proposals'[x] = proposals[x]
  <2>. DEFINE old == proposals[o]
              row == [old EXCEPT !.status = status, !.closedBy = p, !.closedAt = t]
  <2>1. proposals' = [proposals EXCEPT ![o] = row] /\ proposals \in [Obligations -> Rows] /\ old \in Rows
    BY <1>3 DEF Safe, TypeOK
  <2>. HIDE DEF old
  <2>2. /\ row.status = status /\ row.closedBy = p /\ row.closedAt = t
        /\ row.proposer = old.proposer /\ row.expiresAt = old.expiresAt
    BY <2>1 DEF Rows
  <2>. HIDE DEF row
  <2>. QED
    BY <2>1, <2>2 DEF old
<1>4. ASSUME NEW o \in Obligations, NEW p \in Parties, NEW t \in 0 .. MaxTime,
             Agreement!Accept(o, p, t)
      PROVE  Recorded'
  <2>1. /\ proposals'[o].status = "accepted" /\ proposals'[o].closedBy = p /\ proposals'[o].closedAt = t
        /\ proposals'[o].proposer = proposals[o].proposer
        /\ proposals'[o].expiresAt = proposals[o].expiresAt
        /\ \A x \in Obligations \ {o} : proposals'[x] = proposals[x]
    BY <1>3, <1>4 DEF Agreement!Accept
  <2>2. /\ t < proposals[o].expiresAt /\ p \in PartiesOf(o) \ {proposals[o].proposer}
        /\ ~DocumentTaken(o) /\ recorded' = recorded \cup {o} /\ proposals[o].status = "open"
    BY <1>4 DEF Agreement!Accept, PartiesOf, DocumentTaken
  <2>3. p = Counterparty(o, proposals[o].proposer)
    BY <2>2 DEF Recorded, PartiesOf, Counterparty
  <2>4. AcceptedIsRecorded'
    BY <2>1, <2>2 DEF Recorded, AcceptedIsRecorded
  <2>5. OneObligationPerDocument'
    BY <2>2 DEF Recorded, OneObligationPerDocument, DocumentTaken
  <2>6. AcceptedInTime'
    BY <2>1, <2>2, <2>3 DEF Recorded, AcceptedInTime
  <2>. QED
    BY <2>1, <2>2, <2>4, <2>5, <2>6 DEF Recorded
<1>5. ASSUME NEW o \in Obligations, NEW p \in Parties, NEW t \in 0 .. MaxTime,
             Agreement!TakeBack(o, p, t)
      PROVE  Recorded'
  <2>1. /\ proposals'[o].status = "withdrawn"
        /\ proposals'[o].proposer = proposals[o].proposer
        /\ \A x \in Obligations \ {o} : proposals'[x] = proposals[x]
    BY <1>3, <1>5 DEF Agreement!TakeBack
  <2>2. recorded' = recorded /\ proposals[o].status = "open"
    BY <1>5 DEF Agreement!TakeBack
  <2>. QED
    BY <2>1, <2>2 DEF Recorded, AcceptedIsRecorded, OneObligationPerDocument, AcceptedInTime
<1>. QED
  BY <1>1, <1>2, <1>4, <1>5, StepAgrees DEF Agrees

\* What is recorded, and which proposals are accepted, stay in step.
LEMMA AlwaysRecorded == Spec => []Recorded
<1>1. Init => Recorded
  BY DEF Init, Recorded, AcceptedIsRecorded, OneObligationPerDocument, AcceptedInTime, NoProposal
<1>2. Safe /\ Recorded /\ [Next]_vars => Recorded'
  BY RecordedStep
<1>. QED
  BY <1>1, <1>2, AlwaysSafe, PTL DEF Spec

\* Accepted and recorded are the same thing.
THEOREM RecordedCorrect == Spec => []AcceptedIsRecorded
<1>1. Recorded => AcceptedIsRecorded
  BY DEF Recorded
<1>. QED
  BY <1>1, AlwaysRecorded, PTL

\* A document is recorded once between its two parties.
THEOREM DocumentsCorrect == Spec => []OneObligationPerDocument
<1>1. Recorded => OneObligationPerDocument
  BY DEF Recorded
<1>. QED
  BY <1>1, AlwaysRecorded, PTL

\* Only the counterparty accepts, and only in time.
THEOREM AcceptanceCorrect == Spec => []AcceptedInTime
<1>1. Recorded => AcceptedInTime
  BY DEF Recorded
<1>. QED
  BY <1>1, AlwaysRecorded, PTL

-----------------------------------------------------------------------------
\* What an answer says of the proposal it is about.
Fits(kind, o, answer) ==
    /\ answer \in {"created", "existing"} => proposals[o].status # "none"
    /\ answer = "duplicate" => DocumentTaken(o)
    /\ kind = "accept" /\ answer = "ok" => o \in recorded
    /\ kind = "withdraw" /\ answer = "ok" => proposals[o].status = "withdrawn"
    /\ answer = "accepted" => proposals[o].status = "accepted"
    /\ answer = "withdrawn" => proposals[o].status = "withdrawn"

\* A call that has answered told the truth, and one that will answer has not yet;
\* what an acceptance has read as recorded is.
Told(call) ==
    /\ call.pc = "done" => call.of \in Obligations
    /\ call.pc # "done" => call.answer = "none"
    /\ call.pc \in {"create", "prior", "insert"} => call.kind = "create"
    /\ call.pc \in {"accept", "validated", "claim"} => call.kind = "accept"
    /\ call.pc \in {"withdraw", "mark"} => call.kind = "withdraw"
    /\ call.pc = "claim" /\ call.exists => call.of \in recorded
    /\ Fits(call.kind, call.of, call.answer)

Truthful ==
    /\ \A c \in Calls : Told(calls[c])
    /\ \A o \in Obligations :
          proposals[o].status = "withdrawn" => proposals[o].closedBy \in PartiesOf(o)

\* Nothing recorded is ever taken back.
LEMMA RecordedGrows ==
    ASSUME Safe, [Next]_vars
    PROVE  recorded \subseteq recorded'
BY StepAgrees DEF Rests, Agrees, Agreement!Propose, Agreement!Accept, Agreement!TakeBack

LEMMA FitsKept ==
    ASSUME Safe, [Next]_vars, NEW kind, NEW o \in Obligations, NEW answer, Fits(kind, o, answer)
    PROVE  Fits(kind, o, answer)'
<1>1. recorded \subseteq recorded'
  BY RecordedGrows
<1>2. /\ proposals[o].status # "none" => proposals'[o].status # "none"
      /\ proposals[o].status \in {"accepted", "withdrawn"} => proposals'[o] = proposals[o]
  BY StepAgrees, RowStep
<1>3. DocumentTaken(o) => DocumentTaken(o)'
  BY <1>1 DEF DocumentTaken
<1>. QED
  BY <1>1, <1>2, <1>3 DEF Fits

LEMMA ToldKept ==
    ASSUME Safe, [Next]_vars, NEW call, Told(call)
    PROVE  Told(call)'
<1>1. recorded \subseteq recorded'
  BY RecordedGrows
<1>2. CASE call.pc = "done"
  BY <1>2, FitsKept DEF Told
<1>3. CASE call.pc # "done"
  <2>1. Fits(call.kind, call.of, call.answer)'
    BY <1>3 DEF Told, Fits
  <2>. QED
    BY <1>1, <1>3, <2>1 DEF Told
<1>. QED
  BY <1>2, <1>3

\* An answer that fits the rows after the step.
LEMMA AnswerTold ==
    ASSUME Safe, NEW c \in Calls, NEW answer, Answer(c, answer),
           NEW kind, kind = calls[c].kind, NEW o \in Obligations, o = calls[c].of,
           Fits(kind, o, answer)'
    PROVE  \E x : x = calls'[c] /\ Told(x)'
<1>. DEFINE x == [NoCall EXCEPT !.pc = "done", !.kind = kind, !.of = o, !.answer = answer]
<1>1. calls'[c] = x
  BY DEF Answer, Safe, TypeOK
<1>2. x.pc = "done" /\ x.kind = kind /\ x.of = o /\ x.answer = answer
  BY DEF NoCall
<1>. HIDE DEF x
<1>3. Told(x)'
  BY <1>2 DEF Told
<1>. QED
  BY <1>1, <1>3

\* A call that goes on to a statement or a further read.
LEMMA GotoTold ==
    ASSUME Safe, NEW c \in Calls, Told(calls[c]), UNCHANGED <<proposals, recorded>>,
           NEW pc, Goto(c, pc),
           \/ calls[c].pc \in {"create", "prior"} /\ pc \in {"prior", "insert"}
           \/ calls[c].pc = "accept" /\ pc = "validated"
           \/ calls[c].pc = "withdraw" /\ pc = "mark"
    PROVE  \E x : x = calls'[c] /\ Told(x)'
<1>1. PICK call : call = calls[c]
  OBVIOUS
<1>. DEFINE x == [call EXCEPT !.pc = pc]
<1>2. calls'[c] = x
  BY <1>1 DEF Goto, Safe, TypeOK
<1>3. /\ x.pc = pc /\ x.kind = call.kind /\ x.of = call.of /\ x.answer = call.answer
  BY <1>1 DEF Safe, TypeOK
<1>. HIDE DEF x
<1>4. Told(call)
  BY <1>1
<1>5. call.pc # "done" /\ call.answer = "none"
  BY <1>1, <1>4 DEF Told
<1>6. Fits(call.kind, call.of, "none")'
  BY DEF Fits
<1>7. Told(x)'
  BY <1>1, <1>3, <1>4, <1>5, <1>6 DEF Told
<1>. QED
  BY <1>2, <1>7

\* What each action answers, or goes on with.
LEMMA CallTold ==
    ASSUME Safe, Truthful, NEW c \in Calls, Step(c)
    PROVE  \E x : x = calls'[c] /\ Told(x)'
<1>0. Told(calls[c])
  BY DEF Truthful
<1>1. PICK kind : kind = calls[c].kind
  OBVIOUS
<1>2. PICK o : o = calls[c].of
  OBVIOUS
<1>3. calls[c].pc \notin {"idle", "done"} => o \in Obligations
  BY <1>2 DEF Safe, Underway
<1>4. \A a \in {"refused", "failed", "closed", "notfound", "changed", "expired"} :
          Fits(kind, o, a)'
  BY DEF Fits
<1>5. CASE Call(c)
  <2>1. PICK k \in {"create", "accept", "withdraw"}, p \in Parties, of \in Obligations :
           calls' = [calls EXCEPT ![c] = [NoCall EXCEPT !.pc = k, !.kind = k, !.by = p, !.of = of]]
    BY <1>5 DEF Call
  <2>. DEFINE x == [NoCall EXCEPT !.pc = k, !.kind = k, !.by = p, !.of = of]
  <2>2. calls'[c] = x
    BY <2>1 DEF Safe, TypeOK
  <2>3. x.pc = k /\ x.kind = k /\ x.answer = "none"
    BY DEF NoCall
  <2>. HIDE DEF x
  <2>4. Told(x)'
    BY <2>3 DEF Told, Fits
  <2>. QED
    BY <2>2, <2>4
<1>6. CASE Refuse(c) \/ RefuseAcceptance(c)
  BY <1>1, <1>2, <1>3, <1>4, <1>6, AnswerTold DEF Refuse, RefuseAcceptance
<1>7. CASE CheckRecorded(c)
  <2>1. o \in Obligations /\ calls[c].pc = "create" /\ UNCHANGED <<proposals, recorded>>
    BY <1>3, <1>7 DEF CheckRecorded
  <2>2. DocumentTaken(o) => Fits(kind, o, "duplicate")'
    BY <2>1 DEF DocumentTaken, Fits
  <2>3. \/ Answer(c, "refused")
        \/ DocumentTaken(o) /\ Answer(c, "duplicate")
        \/ Goto(c, "prior")
    BY <1>2, <1>7 DEF CheckRecorded
  <2>. QED
    BY <1>0, <1>1, <1>2, <1>4, <2>1, <2>2, <2>3, AnswerTold, GotoTold
<1>8. CASE CheckPrior(c)
  <2>1. o \in Obligations /\ calls[c].pc = "prior" /\ UNCHANGED <<proposals, recorded>>
    BY <1>3, <1>8 DEF CheckPrior
  <2>2. proposals[o].status # "none" => Fits(kind, o, "existing")'
    BY <2>1 DEF Fits
  <2>3. \/ proposals[o].status # "none" /\ Answer(c, "existing")
        \/ Goto(c, "insert")
    BY <1>2, <1>8 DEF CheckPrior
  <2>. QED
    BY <1>0, <1>1, <1>2, <2>1, <2>2, <2>3, AnswerTold, GotoTold
<1>9. CASE InsertProposal(c)
  <2>1. o \in Obligations
    BY <1>3, <1>9 DEF InsertProposal
  <2>2. proposals'[o].status # "none"
    <3>1. proposals[o].status # "none" => proposals' = proposals
      BY <1>2, <1>9 DEF InsertProposal
    <3>2. proposals[o].status = "none" =>
            proposals'[o] = [NoProposal EXCEPT !.status = "open", !.proposer = calls[c].by,
                                               !.expiresAt = now + Lifetime]
      BY <1>2, <1>9, <2>1 DEF InsertProposal, Safe, TypeOK
    <3>. QED
      BY <3>1, <3>2 DEF NoProposal
  <2>3. Fits(kind, o, "created")'
    BY <2>2 DEF Fits
  <2>4. Answer(c, "created") \/ Answer(c, "failed")
    BY <1>9 DEF InsertProposal, AnswerOrLose
  <2>. QED
    BY <1>1, <1>2, <1>4, <2>1, <2>3, <2>4, AnswerTold
<1>10. CASE ReadToAccept(c)
  <2>1. /\ o \in Obligations /\ calls[c].pc = "accept" /\ kind = "accept"
        /\ UNCHANGED <<proposals, recorded>>
    BY <1>0, <1>1, <1>3, <1>10 DEF ReadToAccept, Told
  <2>2. o \in recorded => Fits(kind, o, "ok")'
    BY <2>1 DEF Fits
  <2>3. proposals[o].status = "withdrawn" => Fits(kind, o, "withdrawn")'
    BY <2>1 DEF Fits
  <2>4. \/ Answer(c, "notfound") \/ Answer(c, "closed") \/ Answer(c, "expired")
        \/ Answer(c, "refused")
        \/ o \in recorded /\ Answer(c, "ok")
        \/ proposals[o].status = "withdrawn" /\ Answer(c, "withdrawn")
        \/ Goto(c, "validated")
    <3>. DEFINE state == StateOf(proposals[o], now)
    <3>1. state = "withdrawn" => proposals[o].status = "withdrawn"
      BY DEF StateOf
    <3>2. CASE proposals[o].status = "none" \/ calls[c].by \notin PartiesOf(o)
      BY <1>2, <1>10, <3>2 DEF ReadToAccept
    <3>3. CASE ~ (proposals[o].status = "none" \/ calls[c].by \notin PartiesOf(o))
      <4>1. state = "accepted" => Answer(c, IF o \in recorded THEN "ok" ELSE "closed")
        BY <1>2, <1>10, <3>3 DEF ReadToAccept
      <4>2. state \in {"withdrawn", "expired"} => Answer(c, state)
        BY <1>2, <1>10, <3>3 DEF ReadToAccept
      <4>3. state \notin {"accepted", "withdrawn", "expired"} =>
               Answer(c, "refused") \/ Goto(c, "validated")
        BY <1>2, <1>10, <3>3 DEF ReadToAccept
      <4>. HIDE DEF state
      <4>4. state \in {"withdrawn", "expired"} =>
               \/ state = "withdrawn" /\ Answer(c, "withdrawn")
               \/ Answer(c, "expired")
        BY <4>2
      <4>. QED
        BY <3>1, <4>1, <4>3, <4>4
    <3>. QED
      BY <3>2, <3>3
  <2>. QED
    BY <1>0, <1>1, <1>2, <1>4, <2>1, <2>2, <2>3, <2>4, AnswerTold, GotoTold
<1>11. CASE BeginAcceptance(c)
  <2>1. PICK call : call = calls[c]
    OBVIOUS
  <2>2. PICK seen : seen = proposals[o]
    OBVIOUS
  <2>3. PICK exists : exists = (o \in recorded)
    OBVIOUS
  <2>4. PICK at : at = now
    OBVIOUS
  <2>. DEFINE x == [call EXCEPT !.pc = "claim", !.seen = seen, !.exists = exists, !.at = at]
  <2>5. calls'[c] = x /\ UNCHANGED <<proposals, recorded>> /\ call.pc = "validated"
    BY <1>2, <1>11, <2>1, <2>2, <2>3, <2>4 DEF BeginAcceptance, Safe, TypeOK
  <2>6. /\ x.pc = "claim" /\ x.kind = call.kind /\ x.of = o /\ x.answer = call.answer
        /\ x.exists = exists
    BY <1>2, <2>1 DEF Safe, TypeOK
  <2>. HIDE DEF x
  <2>7. Told(call)
    BY <1>0, <2>1
  <2>8. call.kind = "accept" /\ call.answer = "none"
    BY <2>5, <2>7 DEF Told
  <2>9. exists => o \in recorded'
    BY <2>3, <2>5
  <2>10. Told(x)'
    BY <2>6, <2>8, <2>9 DEF Told, Fits
  <2>. QED
    BY <2>5, <2>10
<1>12. CASE AcceptProposal(c)
  <2>1. o \in Obligations /\ calls[c].pc = "claim" /\ o \in recorded' /\ kind = "accept"
    BY <1>0, <1>1, <1>2, <1>3, <1>12 DEF AcceptProposal, Told
  <2>2. Fits(kind, o, "ok")'
    BY <2>1 DEF Fits
  <2>3. Answer(c, "ok") \/ Answer(c, "failed")
    BY <1>12 DEF AcceptProposal, AnswerOrLose
  <2>. QED
    BY <1>1, <1>2, <1>4, <2>1, <2>2, <2>3, AnswerTold
<1>13. CASE ConflictingDocument(c)
  <2>1. o \in Obligations /\ DocumentTaken(o) /\ UNCHANGED <<proposals, recorded>>
    BY <1>2, <1>3, <1>13 DEF ConflictingDocument
  <2>2. Fits(kind, o, "duplicate")'
    BY <2>1 DEF Fits, DocumentTaken
  <2>3. Answer(c, "duplicate") \/ Answer(c, "failed")
    BY <1>13 DEF ConflictingDocument, AnswerOrLose
  <2>. QED
    BY <1>1, <1>2, <1>4, <2>1, <2>2, <2>3, AnswerTold
<1>14. CASE NothingClaimed(c)
  <2>1. /\ o \in Obligations /\ calls[c].pc = "claim" /\ kind = "accept"
        /\ UNCHANGED <<proposals, recorded>>
    BY <1>0, <1>1, <1>3, <1>14 DEF NothingClaimed, Told
  <2>2. calls[c].exists => Fits(kind, o, "ok")'
    BY <1>0, <1>2, <2>1 DEF Told, Fits
  <2>3. \/ calls[c].exists /\ Answer(c, "ok")
        \/ Answer(c, "expired") \/ Answer(c, "closed")
    BY <1>14 DEF NothingClaimed
  <2>. QED
    BY <1>1, <1>2, <1>4, <2>1, <2>2, <2>3, AnswerTold
<1>15. CASE ReadToWithdraw(c)
  <2>1. /\ o \in Obligations /\ calls[c].pc = "withdraw" /\ kind = "withdraw"
        /\ UNCHANGED <<proposals, recorded>>
    BY <1>0, <1>1, <1>3, <1>15 DEF ReadToWithdraw, Told
  <2>2. /\ proposals[o].status = "accepted" => Fits(kind, o, "accepted")'
        /\ proposals[o].status = "withdrawn" => Fits(kind, o, "ok")'
    BY <2>1 DEF Fits
  <2>3. \/ Answer(c, "notfound")
        \/ proposals[o].status = "accepted" /\ Answer(c, "accepted")
        \/ proposals[o].status = "withdrawn" /\ Answer(c, "ok")
        \/ Goto(c, "mark")
    BY <1>2, <1>15 DEF ReadToWithdraw
  <2>. QED
    BY <1>0, <1>1, <1>2, <1>4, <2>1, <2>2, <2>3, AnswerTold, GotoTold
<1>16. CASE MarkProposalWithdrawn(c)
  <2>1. o \in Obligations /\ calls[c].pc = "mark" /\ kind = "withdraw"
    BY <1>0, <1>1, <1>3, <1>16 DEF MarkProposalWithdrawn, Told
  <2>2. CASE proposals[o].status = "open"
    <3>1. /\ proposals' = [proposals EXCEPT ![o].status = "withdrawn",
                                             ![o].closedBy = calls[c].by, ![o].closedAt = now]
          /\ Answer(c, "ok") \/ Answer(c, "failed")
      BY <1>2, <1>16, <2>2 DEF MarkProposalWithdrawn, AnswerOrLose
    <3>2. proposals'[o].status = "withdrawn"
      BY <2>1, <3>1 DEF Safe, TypeOK, Rows
    <3>3. Fits(kind, o, "ok")'
      BY <2>1, <3>2 DEF Fits
    <3>. QED
      BY <1>1, <1>2, <1>4, <2>1, <3>1, <3>3, AnswerTold
  <2>3. CASE proposals[o].status # "open"
    <3>1. Answer(c, "changed")
      BY <1>2, <1>16, <2>3 DEF MarkProposalWithdrawn
    <3>. QED
      BY <1>1, <1>2, <1>4, <2>1, <3>1, AnswerTold
  <2>. QED
    BY <2>2, <2>3
<1>. QED
  BY <1>5, <1>6, <1>7, <1>8, <1>9, <1>10, <1>11, <1>12, <1>13, <1>14, <1>15, <1>16 DEF Step

\* It stays so: the call that steps answers as the rows then are, what the others
\* have answered still fits, and only a party of a proposal takes it back.
LEMMA TruthfulStep ==
    ASSUME Safe, Truthful, [Next]_vars
    PROVE  Truthful'
<1>1. ASSUME NEW d \in Calls, calls'[d] = calls[d]
      PROVE  Told(calls[d])'
  <2>1. PICK call : call = calls[d]
    OBVIOUS
  <2>2. Told(call)'
    BY <2>1, ToldKept DEF Truthful
  <2>. QED
    BY <1>1, <2>1, <2>2
<1>2. ASSUME NEW c \in Calls, Step(c)
      PROVE  \A d \in Calls : Told(calls[d])'
  <2>1. PICK x : x = calls'[c] /\ Told(x)'
    BY <1>2, CallTold
  <2>2. Told(calls[c])'
    BY <2>1
  <2>3. \A d \in Calls \ {c} : calls'[d] = calls[d]
    BY <1>2 DEF Step, Call, Refuse, CheckRecorded, CheckPrior, InsertProposal, ReadToAccept,
                RefuseAcceptance, BeginAcceptance, AcceptProposal, ConflictingDocument,
                NothingClaimed, ReadToWithdraw, MarkProposalWithdrawn, Goto, Answer, AnswerOrLose,
                Safe, TypeOK
  <2>. QED
    BY <1>1, <2>2, <2>3
<1>3. \A d \in Calls : Told(calls[d])'
  <2>1. UNCHANGED vars \/ Tick => \A d \in Calls : Told(calls[d])'
    BY <1>1 DEF vars, Tick
  <2>. QED
    BY <1>2, <2>1 DEF Next
<1>4. ASSUME NEW o \in Obligations, proposals'[o].status = "withdrawn"
      PROVE  proposals'[o].closedBy \in PartiesOf(o)
  <2>1. CASE proposals'[o] = proposals[o]
    BY <1>4, <2>1 DEF Truthful
  <2>2. CASE proposals'[o] # proposals[o]
    <3>1. PICK p \in Parties, t \in 0 .. MaxTime :
             \/ Agreement!Propose(o, p, t) \/ Agreement!Accept(o, p, t) \/ Agreement!TakeBack(o, p, t)
      <4>1. PICK x \in Obligations, p \in Parties, t \in 0 .. MaxTime :
               \/ Agreement!Propose(x, p, t) \/ Agreement!Accept(x, p, t) \/ Agreement!TakeBack(x, p, t)
        BY <2>2, StepAgrees DEF Rests, Agrees
      <4>2. x # o => proposals'[o] = proposals[o]
        BY <4>1 DEF Agreement!Propose, Agreement!Accept, Agreement!TakeBack, Safe, TypeOK
      <4>. QED
        BY <2>2, <4>1, <4>2
    <3>2. PICK old : old = proposals[o] /\ old \in Rows
      BY DEF Safe, TypeOK
    <3>3. CASE Agreement!Propose(o, p, t)
      <4>1. proposals'[o] = [Agreement!NoProposal EXCEPT !.status = "open", !.proposer = p,
                                                         !.expiresAt = t + Lifetime]
        BY <3>3 DEF Agreement!Propose, Safe, TypeOK
      <4>. QED
        BY <1>4, <4>1 DEF Agreement!NoProposal
    <3>4. CASE Agreement!Accept(o, p, t)
      <4>1. proposals'[o] = [old EXCEPT !.status = "accepted", !.closedBy = p, !.closedAt = t]
        BY <3>2, <3>4 DEF Agreement!Accept, Safe, TypeOK
      <4>. QED
        BY <1>4, <3>2, <4>1 DEF Rows
    <3>5. CASE Agreement!TakeBack(o, p, t)
      <4>1. proposals'[o] = [old EXCEPT !.status = "withdrawn", !.closedBy = p, !.closedAt = t]
        BY <3>2, <3>5 DEF Agreement!TakeBack, Safe, TypeOK
      <4>2. p \in PartiesOf(o)
        BY <3>5 DEF Agreement!TakeBack, PartiesOf
      <4>. QED
        BY <3>2, <4>1, <4>2 DEF Rows
    <3>. QED
      BY <3>1, <3>3, <3>4, <3>5
  <2>. QED
    BY <2>1, <2>2
<1>. QED
  BY <1>3, <1>4 DEF Truthful

LEMMA AlwaysTruthful == Spec => []Truthful
<1>1. Init => Truthful
  BY DEF Init, Truthful, Told, Fits, NoCall, NoProposal
<1>2. Safe /\ Truthful /\ [Next]_vars => Truthful'
  BY TruthfulStep
<1>. QED
  BY <1>1, <1>2, AlwaysSafe, PTL DEF Spec

\* The lists of the two parties read their words from who proposed and who
\* closed, and each of these is one of the two.
LEMMA ListsAgreeAlways ==
    ASSUME Safe, Recorded, Truthful
    PROVE  ListsAgree
<1>. SUFFICES ASSUME NEW o \in Obligations
              PROVE  LET p == Pairs[o][1]
                         q == Pairs[o][2]
                     IN
                     /\ o \in Open(p) => o \in Open(q) /\ o \notin Closed(p)
                                          /\ WaitingOn(p, o) # WaitingOn(q, o)
                     /\ o \in Closed(p) =>
                          \A me \in {p, q} : (Outcome(me, o) \in {"you-declined", "you-withdrew"})
                                                <=> me = proposals[o].closedBy
  BY DEF ListsAgree
<1>. DEFINE p == Pairs[o][1]
            q == Pairs[o][2]
<1>1. p # q /\ p \in Parties /\ q \in Parties /\ p # Nobody /\ q # Nobody /\ PartiesOf(o) = {p, q}
  BY ProposalsAssumption DEF PartiesOf
<1>2. PICK row : row = proposals[o]
  OBVIOUS
<1>3. /\ row.status # "none" => row.proposer \in {p, q}
      /\ row.status = "withdrawn" => row.closedBy \in {p, q}
  BY <1>1, <1>2 DEF Recorded, Truthful
<1>. HIDE DEF p, q
<1>4. ASSUME o \in Open(p)
      PROVE  o \in Open(q) /\ o \notin Closed(p) /\ WaitingOn(p, o) # WaitingOn(q, o)
  <2>1. row.status = "open"
    BY <1>2, <1>4 DEF Open, StateOf
  <2>. QED
    BY <1>1, <1>2, <1>3, <1>4, <2>1 DEF Open, Closed, WaitingOn
<1>5. ASSUME o \in Closed(p), NEW me \in {p, q}
      PROVE  (Outcome(me, o) \in {"you-declined", "you-withdrew"}) <=> me = row.closedBy
  <2>1. row.status = "withdrawn"
    BY <1>2, <1>5 DEF Closed
  <2>2. CASE row.closedBy = row.proposer
    <3>1. Outcome(me, o) = IF row.proposer = me THEN "you-withdrew" ELSE "withdrawn-by-them"
      BY <1>1, <1>2, <1>3, <2>1, <2>2 DEF Outcome, ClosedBy
    <3>. QED
      BY <2>2, <3>1
  <2>3. CASE row.closedBy # row.proposer
    <3>1. Outcome(me, o) = IF row.proposer = me THEN "declined-by-them" ELSE "you-declined"
      BY <1>1, <1>2, <1>3, <2>1, <2>3 DEF Outcome, ClosedBy
    <3>. QED
      BY <1>1, <1>3, <2>1, <2>3, <3>1
  <2>. QED
    BY <2>2, <2>3
<1>. QED
  BY <1>2, <1>4, <1>5 DEF p, q

\* Whatever a call has answered still holds, however late it is read, and the
\* two parties' lists tell the same story.
THEOREM AnswersCorrect == Spec => []AnswersHold
<1>1. Safe /\ Recorded /\ Truthful => AnswersHold
  <2>. SUFFICES ASSUME Safe, Recorded, Truthful
                PROVE  AnswersHold
    OBVIOUS
  <2>1. ASSUME NEW c \in Calls
        PROVE  LET call == calls[c]
                   row == proposals[call.of]
               IN
               /\ call.answer \in {"created", "existing"} => row.status # "none"
               /\ call.answer = "duplicate" => DocumentTaken(call.of) \/ call.of \in recorded
               /\ call.kind = "accept" /\ call.answer = "ok" => call.of \in recorded
               /\ call.kind = "withdraw" /\ call.answer = "ok" => row.status = "withdrawn"
               /\ call.answer = "accepted" => row.status = "accepted"
               /\ call.answer = "withdrawn" => row.status = "withdrawn"
    BY DEF Truthful, Told, Fits
  <2>. QED
    BY <2>1, ListsAgreeAlways DEF AnswersHold
<1>. QED
  BY <1>1, AlwaysSafe, AlwaysRecorded, AlwaysTruthful, PTL

=============================================================================
