----------------------------- MODULE WebhooksProofs ----------------------------
(***************************************************************************)
(* Theorems about WebhookPipeline, for every set of changes, tenants and   *)
(* runs, whatever the lock does, and any number of runs that die.          *)
(*                                                                         *)
(* Nothing here rests on LOCK_KEY: the runs keep apart because a lease     *)
(* outlives the run that took it.                                          *)
(***************************************************************************)
EXTENDS WebhookPipeline, WellFoundedInduction, TLAPS

Stages == {"changes", "fan", "insert", "deliver", "send", "log", "record"}
Attempt == [event : EventIds, attempt : Nat \ {0}, to : Nat]
Ending == [taken : Attempt, status : FinalStatuses \cup {"pending", "suppressed"},
           code : {"ok", "error"}]
Run == [pc : Stages, age : 0 .. MaxRun, changes : SUBSET Changes, readers : SUBSET Reader,
        held : SUBSET Attempt, work : SUBSET Ending]

TypeOK ==
    /\ changes \in [Changes -> Change]
    /\ events \in [EventIds -> Event]
    /\ deliveries \subseteq [event : EventIds, attempt : Nat, code : {"ok", "error"}]
    /\ received \subseteq [event : EventIds, to : Nat]
    /\ access \in [Tenants -> SUBSET Parties]
    /\ endpoint \in [Tenants -> [live : BOOLEAN, count : Nat]]
    /\ lock \in Nat
    /\ runs \in [Runs -> Run \cup {Idle}]
    /\ failures \in Nat
-----------------------------------------------------------------------------
\* The least of a set of numbers: the provers know that there is one only from
\* the well-foundedness of the numbers.
LEMMA LeastNumber ==
    ASSUME NEW S \in SUBSET Nat, S # {}
    PROVE  Min(S) \in S
<1>. DEFINE R == OpToRel(<, Nat)
<1>1. IsWellFoundedOn(R, Nat)
  BY NatLessThanWellFounded
<1>2. \A x, y \in Nat : <<x, y>> \in R <=> x < y
  BY DEF OpToRel
<1>. HIDE DEF R
<1>3. PICK m \in S : \A x \in S : ~ (<<x, m>> \in R)
  BY <1>1, WFMin, Zenon
<1>4. \A x \in S : m <= x
  <2>1. SUFFICES ASSUME NEW x \in S
                 PROVE  m <= x
    OBVIOUS
  <2>2. m \in Nat /\ x \in Nat
    OBVIOUS
  <2>3. ~ (<<x, m>> \in R)
    BY <1>3
  <2>4. ~ (x < m)
    BY <1>2, <2>2, <2>3, Zenon
  <2>. QED
    BY <2>2, <2>4
<1>. QED
  BY <1>4 DEF Min

\* The lesser of two numbers is a number.
LEMMA LesserOfTwo ==
    /\ \A x, y \in Int : Min({x, y}) \in Int
    /\ \A x, y \in Nat : Min({x, y}) \in Nat
<1>1. \A x, y \in Int : Min({x, y}) \in {x, y}
  BY DEF Min
<1>. QED
  BY <1>1

\* A run that has changes works on one of them.
LEMMA CurrentIsClaimed ==
    ASSUME TypeOK, NEW r \in Runs, runs[r] # Idle, runs[r].changes # {}
    PROVE  Current(r) \in runs[r].changes /\ Current(r) \in Changes
<1>1. runs[r].changes \subseteq Changes /\ Changes \subseteq Nat
  BY PipelineAssumption DEF TypeOK, Run
<1>. QED
  BY <1>1, LeastNumber DEF Current

\* nextAttemptAt: what is left until the next attempt is a number, however
\* long the delay and however old the run.
LEMMA WaitIsNumber ==
    ASSUME TypeOK, NEW r \in Runs, runs[r] # Idle, NEW taken \in Attempt
    PROVE  Wait(r, taken) \in Nat
<1>1. FirstRetry \in Nat /\ MaxRetry \in Nat /\ MaxRun \in Nat
  BY PipelineAssumption
<1>2. taken.attempt - 1 \in Nat
  BY DEF Attempt
<1>3. FirstRetry * 2 ^ (taken.attempt - 1) \in Int
  BY <1>1, <1>2
<1>4. Delay(taken.attempt) \in Int
  BY <1>1, <1>3, LesserOfTwo DEF Delay
<1>5. runs[r].age \in Int
  BY <1>1 DEF TypeOK, Run
<1>6. \A x \in Int : Max({0, x}) \in Nat
  BY DEF Max
<1>. QED
  BY <1>4, <1>5, <1>6 DEF Wait

\* What a run is, told by where it stands.
LEMMA RunTypes ==
    ASSUME TypeOK, NEW r \in Runs
    PROVE  /\ runs[r].pc \in Stages => runs[r] \in Run
           /\ runs[r] \in Run => runs[r] # Idle
BY DEF TypeOK, Run, Idle, Stages
\* A run that goes on with one of the attempts it holds.
LEMMA EndingType ==
    ASSUME TypeOK, NEW r \in Runs, runs[r] \in Run, NEW taken \in Attempt,
           NEW status \in FinalStatuses \cup {"pending", "suppressed"},
           NEW code \in {"ok", "error"}, NEW pc \in Stages,
           runs' = [runs EXCEPT ![r].pc = pc,
                       ![r].work = {[taken |-> taken, status |-> status, code |-> code]}]
    PROVE  runs' \in [Runs -> Run \cup {Idle}]
<1>. DEFINE work == {[taken |-> taken, status |-> status, code |-> code]}
<1>1. work \in SUBSET Ending
  BY DEF Run, Ending
<1>2. runs' = [runs EXCEPT ![r] = [runs[r] EXCEPT !.pc = pc, !.work = work]]
  BY DEF TypeOK
<1>. HIDE DEF work
<1>3. [runs[r] EXCEPT !.pc = pc, !.work = work] \in Run
  BY <1>1 DEF Run
<1>. QED
  BY <1>2, <1>3 DEF TypeOK
-----------------------------------------------------------------------------
\* RecordOutcome, what it makes of the event and of the run.
Recording(r, w) ==
    /\ events' = [events EXCEPT ![w.taken.event] = Outcome(r, w)]
    /\ runs' = [runs EXCEPT ![r] = [runs[r] EXCEPT !.pc = "deliver", !.work = {},
                                                  !.held = @ \ {w.taken}]]

LEMMA RecordingsOutcome ==
    ASSUME TypeOK, NEW r \in Runs, RecordOutcome(r)
    PROVE  /\ runs[r] \in Run
           /\ \E w \in runs[r].work : Recording(r, w)
<1>1. runs[r] \in Run
  BY RunTypes DEF RecordOutcome, Stages
<1>2. PICK w \in runs[r].work :
         /\ events' = [events EXCEPT ![w.taken.event] = Outcome(r, w)]
         /\ runs' = [runs EXCEPT ![r].pc = "deliver", ![r].work = {}, ![r].held = @ \ {w.taken}]
  BY DEF RecordOutcome
<1>3. runs' = [runs EXCEPT ![r] = [runs[r] EXCEPT !.pc = "deliver", !.work = {},
                                                !.held = @ \ {w.taken}]]
  BY <1>1, <1>2 DEF TypeOK
<1>. QED
  BY <1>1, <1>2, <1>3 DEF Recording
-----------------------------------------------------------------------------
\* No action leaves the types.
LEMMA TypeStep ==
    ASSUME TypeOK, Next
    PROVE  TypeOK'
<1>. USE PipelineAssumption DEF TypeOK
<1>1. ASSUME NEW c \in Changes, RecordChange(c)
      PROVE  TypeOK'
  BY <1>1 DEF RecordChange, Change
<1>2. ASSUME NEW t \in Tenants, NEW parties \in SUBSET Parties, ChangeAccess(t, parties)
      PROVE  TypeOK'
  BY <1>2 DEF ChangeAccess
<1>3. ASSUME NEW t \in Tenants, RemoveEndpoint(t)
      PROVE  TypeOK'
  <2>1. \A e \in EventIds : [events[e] EXCEPT !.status = "suppressed"] \in Event
    BY DEF Event
  <2>2. events' \in [EventIds -> Event]
    BY <1>3, <2>1 DEF RemoveEndpoint
  <2>. QED
    BY <1>3, <2>2 DEF RemoveEndpoint
<1>4. ASSUME NEW t \in Tenants, SetEndpoint(t)
      PROVE  TypeOK'
  BY <1>4 DEF SetEndpoint
<1>5. CASE Tick
  <2>. \A time \in Nat : Less(time) \in Nat
    BY DEF Less
  <2>1. changes' \in [Changes -> Change]
    <3>1. \A c \in Changes : [changes[c] EXCEPT !.lease = Less(@)] \in Change
      BY DEF Change
    <3>. QED
      BY <1>5, <3>1 DEF Tick
  <2>2. events' \in [EventIds -> Event]
    <3>2. \A e \in EventIds :
             /\ Less(events[e].wait) \in Nat
             /\ Min({events[e].age + 1, Window + MaxRun + 1}) \in Nat
      <4>. SUFFICES ASSUME NEW e \in EventIds
                    PROVE  /\ Less(events[e].wait) \in Nat
                           /\ Min({events[e].age + 1, Window + MaxRun + 1}) \in Nat
        OBVIOUS
      <4>1. events[e].wait \in Nat /\ events[e].age + 1 \in Nat /\ Window + MaxRun + 1 \in Nat
        BY DEF Event
      <4>2. \A x, y \in Nat : Min({x, y}) \in Nat
        BY LesserOfTwo
      <4>. QED
        BY <4>1, <4>2
    <3>3. \A e \in EventIds :
             [events[e] EXCEPT !.wait = Less(@),
                               !.age = Min({@ + 1, Window + MaxRun + 1})] \in Event
      BY <3>2, ZenonT(40) DEF Event
    <3>. QED
      BY <1>5, <3>3 DEF Tick
  <2>3. runs' \in [Runs -> Run \cup {Idle}]
    <3>. SUFFICES ASSUME NEW r \in Runs, runs[r] # Idle
                  PROVE  [runs[r] EXCEPT !.age = @ + 1] \in Run
      BY <1>5 DEF Tick
    <3>1. runs[r] \in Run /\ runs[r].age < MaxRun
      BY <1>5 DEF Tick
    <3>. QED
      BY <3>1, SMTT(40) DEF Run
  <2>4. lock' \in Nat
    BY <1>5 DEF Tick
  <2>. QED
    BY <1>5, <2>1, <2>2, <2>3, <2>4 DEF Tick
<1>6. ASSUME NEW r \in Runs, StartRun(r)
      PROVE  TypeOK'
  <2>1. [pc |-> "changes", age |-> 0, changes |-> {}, readers |-> {}, held |-> {},
         work |-> {}] \in Run
    BY DEF Run, Stages
  <2>. QED
    BY <1>6, <2>1 DEF StartRun
<1>7. ASSUME NEW r \in Runs, RunStep(r)
      PROVE  TypeOK'
  <2>. USE RunTypes
  <2>1. CASE ClaimChanges(r)
    <3>. DEFINE claimed == {c \in Changes : Unclaimed(c)}
    <3>1. changes' \in [Changes -> Change]
      BY <2>1 DEF ClaimChanges, Change
    <3>2. runs[r] \in Run /\ claimed \in SUBSET Changes
      BY <2>1 DEF ClaimChanges, Stages
    <3>3. runs' = [runs EXCEPT ![r] = [runs[r] EXCEPT !.pc = "fan", !.changes = claimed]]
      BY <2>1 DEF ClaimChanges
    <3>. HIDE DEF claimed
    <3>4. [runs[r] EXCEPT !.pc = "fan", !.changes = claimed] \in Run
      BY <3>2 DEF Run, Stages
    <3>. QED
      BY <2>1, <3>1, <3>3, <3>4 DEF ClaimChanges
  <2>2. CASE ReadReaders(r)
    <3>1. runs[r] \in Run /\ runs[r].changes # {}
      BY <2>2 DEF ReadReaders, Stages
    <3>2. Current(r) \in Changes
      BY <3>1, CurrentIsClaimed
    <3>3. Readers(Current(r)) \in SUBSET Reader
      BY <3>2 DEF Readers, Reader
    <3>4. [runs[r] EXCEPT !.pc = "insert", !.readers = Readers(Current(r))] \in Run
      BY <3>1, <3>3 DEF Run, Stages
    <3>5. runs' = [runs EXCEPT ![r] =
                      [runs[r] EXCEPT !.pc = "insert", !.readers = Readers(Current(r))]]
      BY <2>2 DEF ReadReaders
    <3>. QED
      BY <2>2, <3>4, <3>5 DEF ReadReaders
  <2>3. CASE InsertEvent(r)
    <3>1. PICK reader \in runs[r].readers :
             /\ events' = WithEvent(Current(r), reader)
             /\ runs' = [runs EXCEPT ![r].readers = @ \ {reader}]
      BY <2>3 DEF InsertEvent
    <3>2. runs[r] \in Run /\ reader \in Reader
      BY <2>3, <3>1 DEF InsertEvent, Stages, Run
    <3>3. events' \in [EventIds -> Event]
      <4>1. NewEvent(reader) \in Event
        BY <3>2 DEF NewEvent, Event, Reader, FinalStatuses
      <4>. QED
        BY <3>1, <4>1 DEF WithEvent
    <3>4. [runs[r] EXCEPT !.readers = @ \ {reader}] \in Run
      BY <3>2 DEF Run
    <3>. QED
      BY <2>3, <3>1, <3>3, <3>4 DEF InsertEvent
  <2>4. CASE CompleteChange(r)
    <3>1. runs[r] \in Run
      BY <2>4 DEF CompleteChange, Stages
    <3>2. [status |-> "done", lease |-> 0] \in Change
      BY DEF Change
    <3>3. [runs[r] EXCEPT !.pc = "fan", !.changes = @ \ {Current(r)}] \in Run
      BY <3>1 DEF Run, Stages
    <3>4. runs' = [runs EXCEPT ![r] =
                      [runs[r] EXCEPT !.pc = "fan", !.changes = @ \ {Current(r)}]]
      BY <2>4 DEF CompleteChange
    <3>. QED
      BY <2>4, <3>2, <3>3, <3>4 DEF CompleteChange
  <2>5. CASE ClaimEvents(r)
    <3>1. PICK S \in Batches :
             /\ events' = Leased(Deliverable(S))
             /\ runs' = [runs EXCEPT ![r].pc = "deliver",
                                     ![r].held = {Taken(e) : e \in Deliverable(S)}]
      BY <2>5 DEF ClaimEvents
    <3>. DEFINE held == {Taken(e) : e \in Deliverable(S)}
    <3>2. runs[r] \in Run /\ Deliverable(S) \subseteq EventIds
      BY <2>5, <3>1 DEF ClaimEvents, Stages, Batches, kSubset, Deliverable
    <3>3. \A e \in EventIds : Taken(e) \in Attempt
      BY DEF Taken, Attempt, Event, EventIds
    <3>4. held \in SUBSET Attempt
      BY <3>2, <3>3
    <3>5. runs' = [runs EXCEPT ![r] = [runs[r] EXCEPT !.pc = "deliver", !.held = held]]
      BY <3>1
    <3>. HIDE DEF held
    <3>6. [runs[r] EXCEPT !.pc = "deliver", !.held = held] \in Run
      BY <3>2, <3>4 DEF Run, Stages
    <3>7. \A e \in EventIds : [events[e] EXCEPT !.wait = Lease] \in Event
      BY DEF Event
    <3>8. events' \in [EventIds -> Event]
      BY <3>1, <3>7 DEF Leased
    <3>. QED
      BY <2>5, <3>5, <3>6, <3>8 DEF ClaimEvents
  <2>6. CASE CheckAccess(r)
    <3>1. PICK taken \in runs[r].held :
             \E pc \in Stages, status \in FinalStatuses \cup {"pending", "suppressed"} :
                runs' = [runs EXCEPT ![r].pc = pc,
                            ![r].work = {[taken |-> taken, status |-> status, code |-> "error"]}]
      BY <2>6 DEF CheckAccess, Ended, Failed, FinalStatuses, Stages
    <3>2. runs[r] \in Run
      BY <2>6 DEF CheckAccess, Stages
    <3>3. runs' \in [Runs -> Run \cup {Idle}]
      <4>1. taken \in Attempt
        BY <3>1, <3>2 DEF Run
      <4>. QED
        BY <3>1, <3>2, <4>1, EndingType
    <3>. QED
      BY <2>6, <3>3 DEF CheckAccess
  <2>7. CASE Send(r)
    <3>1. PICK w \in runs[r].work :
             /\ received' \in {received,
                               received \cup {[event |-> w.taken.event, to |-> w.taken.to]}}
             /\ \E status \in FinalStatuses \cup {"pending", "suppressed"},
                  code \in {"ok", "error"} :
                    runs' = [runs EXCEPT ![r].pc = "log",
                                ![r].work = {[taken |-> w.taken, status |-> status,
                                              code |-> code]}]
      BY <2>7 DEF Send, Ended, Failed, FinalStatuses
    <3>2. runs[r] \in Run /\ w \in Ending
      BY <2>7, <3>1 DEF Send, Stages, Run
    <3>3. received' \subseteq [event : EventIds, to : Nat]
      BY <3>1, <3>2 DEF Ending, Attempt
    <3>4. runs' \in [Runs -> Run \cup {Idle}]
      <4>1. w.taken \in Attempt /\ "log" \in Stages
        BY <3>2 DEF Ending, Stages
      <4>2. PICK status \in FinalStatuses \cup {"pending", "suppressed"},
                 code \in {"ok", "error"} :
               runs' = [runs EXCEPT ![r].pc = "log",
                           ![r].work = {[taken |-> w.taken, status |-> status,
                                         code |-> code]}]
        BY <3>1
      <4>. HIDE DEF TypeOK
      <4>. QED
        BY <3>2, <4>1, <4>2, EndingType
    <3>. QED
      BY <2>7, <3>3, <3>4 DEF Send
  <2>8. CASE LogDelivery(r)
    <3>1. PICK w \in runs[r].work :
             deliveries' \subseteq deliveries \cup
                 {[event |-> w.taken.event, attempt |-> w.taken.attempt, code |-> w.code]}
      BY <2>8 DEF LogDelivery
    <3>2. runs[r] \in Run /\ w \in Ending
      BY <2>8, <3>1 DEF LogDelivery, Stages, Run
    <3>3. deliveries' \subseteq [event : EventIds, attempt : Nat, code : {"ok", "error"}]
      BY <3>1, <3>2 DEF Ending, Attempt
    <3>4. [runs[r] EXCEPT !.pc = "record"] \in Run
      BY <3>2 DEF Run, Stages
    <3>5. runs' = [runs EXCEPT ![r] = [runs[r] EXCEPT !.pc = "record"]]
      BY <2>8 DEF LogDelivery
    <3>. QED
      BY <2>8, <3>3, <3>4, <3>5 DEF LogDelivery
  <2>9. CASE RecordOutcome(r)
    <3>1. PICK w \in runs[r].work : Recording(r, w)
      BY <2>9, RecordingsOutcome
    <3>2. runs[r] \in Run /\ w \in Ending
      BY <2>9, <3>1 DEF RecordOutcome, Stages, Run
    <3>3. Outcome(r, w) \in Event
      <4>1. w.taken \in Attempt /\ runs[r] # Idle
        BY <3>2, RunTypes DEF Ending
      <4>2. Wait(r, w.taken) \in Nat
        BY <4>1, WaitIsNumber
      <4>3. events[w.taken.event] \in Event /\ w.taken.attempt \in Nat
        BY <4>1 DEF Attempt
      <4>4. w.status \in FinalStatuses \cup {"pending", "suppressed"}
        BY <3>2 DEF Ending
      <4>. QED
        BY <4>2, <4>3, <4>4 DEF Outcome, Event
    <3>4. [runs[r] EXCEPT !.pc = "deliver", !.work = {}, !.held = @ \ {w.taken}] \in Run
      BY <3>2 DEF Run, Stages
    <3>. QED
      BY <2>9, <3>1, <3>3, <3>4 DEF RecordOutcome, Recording
  <2>10. CASE FinishRun(r)
    BY <2>10 DEF FinishRun
  <2>. QED
    BY <1>7, <2>1, <2>2, <2>3, <2>4, <2>5, <2>6, <2>7, <2>8, <2>9, <2>10 DEF RunStep
<1>8. ASSUME NEW r \in Runs, BreakRun(r)
      PROVE  TypeOK'
  BY <1>8 DEF BreakRun
<1>. HIDE DEF TypeOK
<1>. QED
  BY <1>1, <1>2, <1>3, <1>4, <1>5, <1>6, <1>7, <1>8 DEF Next
-----------------------------------------------------------------------------
(***************************************************************************)
(* Why no two runs hold the same thing.  A run works on one attempt at a   *)
(* time, for each event it holds has made no other attempt since, and what *)
(* it claimed stays its own while it lives: the lease it took still has to *)
(* run for at least as long as the run may.  Of a lease only what is left  *)
(* can be seen, so the invariant sets that against the age of the run.     *)
(***************************************************************************)
OneAttempt(r) ==
    /\ \A x, y \in runs[r].held : x.event = y.event => x = y
    /\ \A w \in runs[r].work : w.taken \in runs[r].held
    /\ runs[r].pc \in {"changes", "fan", "insert"} => runs[r].held = {}
    /\ runs[r].pc \notin {"fan", "insert"} => runs[r].changes = {}
    /\ runs[r].pc = "insert" => runs[r].changes # {}

ChangesLeased(r) ==
    \A c \in runs[r].changes : /\ changes[c].status = "pending"
                               /\ changes[c].lease + runs[r].age > Lease

\* The lease of an event whose endpoint went matters no more: it is not due.
EventsLeased(r) ==
    \A x \in runs[r].held :
        /\ events[x.event].attempts + 1 = x.attempt
        /\ events[x.event].status \in {"pending", "suppressed"}
        /\ events[x.event].status = "pending" => events[x.event].wait + runs[r].age >= Lease

\* Whoever may read about the change at hand has its event or is still to get it.
ReadersKept(r) ==
    runs[r].pc = "insert" =>
        \A t \in Tenants \ Fickle :
            access[t] \cap Touches[Current(r)] # {} =>
                \/ events[<<Current(r), t>>].status # "none"
                \/ [tenant |-> t, named |-> access[t] \cap Touches[Current(r)]]
                      \in runs[r].readers

RunKept(r) ==
    runs[r] # Idle => OneAttempt(r) /\ ChangesLeased(r) /\ EventsLeased(r) /\ ReadersKept(r)

Apart(r, s) ==
    runs[r] # Idle /\ runs[s] # Idle =>
        /\ \A x \in runs[r].held, y \in runs[s].held : x.event # y.event
        /\ runs[r].changes \cap runs[s].changes = {}

NoEventYet == \A e \in EventIds : events[e].status = "none" => events[e] = NoEvent

Kept ==
    /\ NoEventYet
    /\ NoReaderMissed
    /\ \A r \in Runs : RunKept(r)
    /\ \A r, s \in Runs : r # s => Apart(r, s)

IInv == TypeOK /\ Kept
-----------------------------------------------------------------------------
\* A run that does nothing, while no event is lost, keeps its readers.
LEMMA ReadersStay ==
    ASSUME TypeOK, NEW r \in Runs, runs[r] # Idle, ReadersKept(r), OneAttempt(r),
           runs'[r].changes = runs[r].changes, runs'[r].readers = runs[r].readers,
           runs'[r].pc = runs[r].pc,
           \A t \in Tenants \ Fickle : access'[t] = access[t],
           \A e \in EventIds : events[e].status # "none" => events'[e].status # "none"
    PROVE  ReadersKept(r)'
<1>. SUFFICES ASSUME runs[r].pc = "insert"
              PROVE  ReadersKept(r)'
  BY DEF ReadersKept
<1>1. Current(r) \in Changes /\ Current(r)' = Current(r)
  BY CurrentIsClaimed DEF Current, OneAttempt
<1>2. \A t \in Tenants : <<Current(r), t>> \in EventIds
  BY <1>1 DEF EventIds
<1>. QED
  BY <1>1, <1>2 DEF ReadersKept

\* What happens around the pipeline takes nothing from a run.
LEMMA SurroundingsKeep ==
    ASSUME IInv,
           \/ \E c \in Changes : RecordChange(c)
           \/ \E t \in Tenants, parties \in SUBSET Parties : ChangeAccess(t, parties)
           \/ \E t \in Tenants : RemoveEndpoint(t) \/ SetEndpoint(t)
    PROVE  Kept'
<1>. USE DEF IInv, Kept, TypeOK
<1>1. ASSUME NEW c \in Changes, RecordChange(c)
      PROVE  Kept'
  <2>1. \A d \in Changes : changes'[d] = changes[d] \/ (d = c /\ changes'[d].status = "pending")
    BY <1>1 DEF RecordChange, Change
  <2>2. UNCHANGED <<events, runs, access>> /\ changes[c].status = "none"
    BY <1>1 DEF RecordChange
  <2>3. NoEventYet' /\ NoReaderMissed'
    BY <2>1, <2>2 DEF NoEventYet, NoReaderMissed
  <2>4. ASSUME NEW r \in Runs
        PROVE  RunKept(r)'
    BY <2>1, <2>2 DEF RunKept, OneAttempt, ChangesLeased, EventsLeased, ReadersKept, Current, Run
  <2>5. \A r, s \in Runs : r # s => Apart(r, s)'
    BY <2>2 DEF Apart
  <2>. QED
    BY <2>3, <2>4, <2>5
<1>2. ASSUME NEW t \in Tenants, NEW parties \in SUBSET Parties, ChangeAccess(t, parties)
      PROVE  Kept'
  <2>1. \A u \in Tenants \ Fickle : access'[u] = access[u]
    BY <1>2 DEF ChangeAccess
  <2>2. UNCHANGED <<changes, events, runs>>
    BY <1>2 DEF ChangeAccess
  <2>3. NoEventYet' /\ NoReaderMissed'
    BY <2>1, <2>2 DEF NoEventYet, NoReaderMissed
  <2>4. ASSUME NEW r \in Runs
        PROVE  RunKept(r)'
    BY <2>1, <2>2 DEF RunKept, OneAttempt, ChangesLeased, EventsLeased, ReadersKept, Current
  <2>5. \A r, s \in Runs : r # s => Apart(r, s)'
    BY <2>2 DEF Apart
  <2>. QED
    BY <2>3, <2>4, <2>5
<1>3. ASSUME NEW t \in Tenants, RemoveEndpoint(t)
      PROVE  Kept'
  <2>1. \A e \in EventIds :
           \/ events'[e] = events[e]
           \/ /\ events[e].status = "pending"
              /\ events'[e].status = "suppressed"
              /\ events'[e].attempts = events[e].attempts
    BY <1>3 DEF RemoveEndpoint, Event
  <2>2. UNCHANGED <<changes, access, runs>>
    BY <1>3 DEF RemoveEndpoint
  <2>3. NoEventYet' /\ NoReaderMissed'
    BY <2>1, <2>2 DEF NoEventYet, NoReaderMissed, EventIds
  <2>4. ASSUME NEW r \in Runs
        PROVE  RunKept(r)'
    <3>. SUFFICES ASSUME runs[r] # Idle
                  PROVE  RunKept(r)'
      BY <2>2 DEF RunKept
    <3>1. \A x \in runs[r].held : x.event \in EventIds
      BY DEF Run, Attempt
    <3>2. EventsLeased(r)'
      BY <2>1, <2>2, <3>1 DEF RunKept, EventsLeased
    <3>3. ReadersKept(r)'
      BY <2>1, <2>2, ReadersStay DEF RunKept
    <3>. QED
      BY <2>2, <3>2, <3>3 DEF RunKept, OneAttempt, ChangesLeased
  <2>5. \A r, s \in Runs : r # s => Apart(r, s)'
    BY <2>2 DEF Apart
  <2>. QED
    BY <2>3, <2>4, <2>5
<1>4. ASSUME NEW t \in Tenants, SetEndpoint(t)
      PROVE  Kept'
  BY <1>4 DEF SetEndpoint, NoEventYet, NoReaderMissed, RunKept, OneAttempt, ChangesLeased,
              EventsLeased, ReadersKept, Current, Apart
<1>. QED
  BY <1>1, <1>2, <1>3, <1>4

\* Time runs for the leases as for the runs.
LEMMA TimeKeeps ==
    ASSUME IInv, Tick
    PROVE  Kept'
<1>. USE PipelineAssumption DEF IInv, Kept
<1>1. \A c \in Changes : /\ changes'[c].status = changes[c].status
                         /\ changes[c].lease \in Nat
                          /\ changes'[c].lease = Less(changes[c].lease)
  BY DEF Tick, Change, TypeOK
<1>2. ASSUME NEW e \in EventIds
      PROVE  /\ events'[e].status = events[e].status
             /\ events'[e].attempts = events[e].attempts
             /\ events[e].status = "none" => events'[e] = events[e]
             /\ events[e].status \in {"pending", "suppressed"}
                  => /\ events[e].wait \in Nat
                     /\ events'[e].wait \in Nat
                     /\ events'[e].wait >= events[e].wait - 1
  <2>1. events[e] \in Event
    BY DEF TypeOK
  <2>2. events'[e] = IF events[e].status \in FinalStatuses \cup {"none"} THEN events[e]
                     ELSE [events[e] EXCEPT !.wait = Less(@),
                                            !.age = Min({@ + 1, Window + MaxRun + 1})]
    BY DEF Tick
  <2>. QED
    BY <2>1, <2>2 DEF Event, FinalStatuses, Less
<1>3. ASSUME NEW r \in Runs
      PROVE  /\ runs[r] = Idle => runs'[r] = Idle
             /\ runs[r] # Idle => /\ runs'[r] # Idle
                                  /\ runs'[r] = [runs[r] EXCEPT !.age = @ + 1]
  BY DEF Tick, Run, Idle, TypeOK
<1>4. UNCHANGED access
  BY DEF Tick
<1>5. NoEventYet' /\ NoReaderMissed'
  <2>1. NoEventYet'
    BY <1>2 DEF NoEventYet
  <2>2. NoReaderMissed'
    BY <1>1, <1>2, <1>4 DEF NoReaderMissed, EventIds
  <2>. QED
    BY <2>1, <2>2
<1>6. ASSUME NEW r \in Runs
      PROVE  RunKept(r)'
  <2>. SUFFICES ASSUME runs[r] # Idle
                PROVE  RunKept(r)'
    BY <1>3 DEF RunKept
  <2>1. runs[r] \in Run /\ runs'[r] = [runs[r] EXCEPT !.age = @ + 1]
    BY <1>3 DEF TypeOK
  <2>2. /\ runs'[r].age = runs[r].age + 1
        /\ runs[r].age \in Nat
        /\ runs'[r].pc = runs[r].pc /\ runs'[r].changes = runs[r].changes
        /\ runs'[r].readers = runs[r].readers /\ runs'[r].held = runs[r].held
        /\ runs'[r].work = runs[r].work
    BY <2>1 DEF Run
  <2>3. OneAttempt(r)'
    BY <2>2 DEF RunKept, OneAttempt
  <2>4. ChangesLeased(r)'
    <3>1. ASSUME NEW c \in runs[r].changes
          PROVE  changes'[c].status = "pending" /\ changes'[c].lease + runs'[r].age > Lease
      <4>1. c \in Changes
        BY <2>1 DEF Run
      <4>2. changes[c].status = "pending" /\ changes[c].lease + runs[r].age > Lease
        BY DEF RunKept, ChangesLeased
      <4>3. changes[c].lease \in Nat
        BY <1>1, <4>1
      <4>. QED
        BY <1>1, <2>2, <4>1, <4>2, <4>3 DEF Less
    <3>. QED
      BY <2>2, <3>1 DEF ChangesLeased
  <2>5. EventsLeased(r)'
    <3>1. ASSUME NEW x \in runs[r].held
          PROVE  /\ events'[x.event].attempts + 1 = x.attempt
                 /\ events'[x.event].status \in {"pending", "suppressed"}
                 /\ events'[x.event].status = "pending"
                      => events'[x.event].wait + runs'[r].age >= Lease
      <4>1. x.event \in EventIds
        BY <2>1 DEF Run, Attempt
      <4>2. /\ events[x.event].attempts + 1 = x.attempt
            /\ events[x.event].status \in {"pending", "suppressed"}
            /\ events[x.event].status = "pending"
                 => events[x.event].wait + runs[r].age >= Lease
        BY DEF RunKept, EventsLeased
      <4>. QED
        BY <1>2, <2>2, <4>1, <4>2
    <3>. QED
      BY <2>2, <3>1 DEF EventsLeased
  <2>6. ReadersKept(r)'
    BY <1>2, <1>4, <2>2, ReadersStay DEF RunKept
  <2>. QED
    BY <2>3, <2>4, <2>5, <2>6 DEF RunKept
<1>7. ASSUME NEW r \in Runs, NEW s \in Runs, r # s
      PROVE  Apart(r, s)'
  <2>1. \A q \in Runs : runs'[q] # Idle => /\ runs[q] # Idle
                                           /\ runs'[q].held = runs[q].held
                                           /\ runs'[q].changes = runs[q].changes
    BY <1>3 DEF Run, TypeOK
  <2>. QED
    BY <1>7, <2>1 DEF Apart
<1>. QED
  BY <1>5, <1>6, <1>7
-----------------------------------------------------------------------------
\* A run keeps what it holds while another one works on other things.
LEMMA OthersKeep ==
    ASSUME IInv, NEW s \in Runs, runs'[s] = runs[s], access' = access,
           runs[s] # Idle => /\ \A c \in runs[s].changes : changes'[c] = changes[c]
                             /\ \A x \in runs[s].held : events'[x.event] = events[x.event],
           \A e \in EventIds : events[e].status # "none" => events'[e].status # "none"
    PROVE  RunKept(s)'
<1>. USE DEF IInv, Kept
<1>. SUFFICES ASSUME runs[s] # Idle
              PROVE  RunKept(s)'
  BY DEF RunKept
<1>1. OneAttempt(s)'
  BY DEF RunKept, OneAttempt
<1>2. ChangesLeased(s)' /\ EventsLeased(s)'
  BY DEF RunKept, ChangesLeased, EventsLeased
<1>3. ReadersKept(s)'
  BY ReadersStay DEF RunKept
<1>. QED
  BY <1>1, <1>2, <1>3 DEF RunKept

\* A run that begins or ends holds nothing.
LEMMA IdlersKeep ==
    ASSUME IInv, NEW r \in Runs, NEW new,
           UNCHANGED <<changes, events, access>>,
           runs' = [runs EXCEPT ![r] = new],
           \/ new = Idle
           \/ /\ new.pc = "changes" /\ new.changes = {}
              /\ new.held = {} /\ new.work = {}
    PROVE  Kept'
<1>. USE DEF IInv, Kept
<1>1. runs'[r] = new /\ \A s \in Runs \ {r} : runs'[s] = runs[s]
  BY DEF TypeOK
<1>2. NoEventYet' /\ NoReaderMissed'
  BY DEF NoEventYet, NoReaderMissed
<1>3. RunKept(r)'
  BY <1>1 DEF RunKept, OneAttempt, ChangesLeased, EventsLeased, ReadersKept
<1>4. ASSUME NEW s \in Runs \ {r}
      PROVE  RunKept(s)'
  BY <1>1, OthersKeep
<1>5. \A s, q \in Runs : s # q => Apart(s, q)'
  BY <1>1 DEF Apart
<1>. QED
  BY <1>2, <1>3, <1>4, <1>5

\* claimChanges: what another run has leased is not free.
LEMMA ClaimChangesKeeps ==
    ASSUME IInv, NEW r \in Runs, ClaimChanges(r)
    PROVE  Kept'
<1>. USE DEF IInv, Kept
<1>. DEFINE claimed == {c \in Changes : Unclaimed(c)}
<1>1. /\ runs[r] \in Run /\ runs[r].pc = "changes"
      /\ runs' = [runs EXCEPT ![r] = [runs[r] EXCEPT !.pc = "fan", !.changes = claimed]]
      /\ UNCHANGED <<events, access>>
  BY RunTypes DEF ClaimChanges, Stages, TypeOK
<1>2. \A c \in claimed : c \in Changes /\ changes[c].status = "pending" /\ changes[c].lease = 0
  BY DEF Unclaimed
<1>3. ASSUME NEW c \in Changes
      PROVE  /\ changes'[c].status = changes[c].status
             /\ c \notin claimed => changes'[c] = changes[c]
  BY DEF ClaimChanges, TypeOK, Change
<1>leased. ASSUME NEW c \in claimed
      PROVE  changes'[c].lease = Lease + 1
  BY DEF ClaimChanges, TypeOK, Change
<1>4. ASSUME NEW s \in Runs, runs[s] # Idle
      PROVE  runs[s].changes \cap claimed = {}
  <2>1. runs[s] \in Run
    BY <1>4 DEF TypeOK
  <2>2. runs[s].age <= MaxRun /\ runs[s].age \in Nat /\ MaxRun \in Nat /\ Lease \in Nat
    BY <2>1, PipelineAssumption DEF Run
  <2>3. \A c \in runs[s].changes : changes[c].lease + runs[s].age > Lease
    BY <1>4 DEF RunKept, ChangesLeased
  <2>. QED
    BY <1>2, <2>2, <2>3, LeaseAssumption
<1>. HIDE DEF claimed
<1>5. /\ runs'[r] = [runs[r] EXCEPT !.pc = "fan", !.changes = claimed]
      /\ \A s \in Runs \ {r} : runs'[s] = runs[s]
  BY <1>1 DEF TypeOK
<1>6. /\ runs'[r].pc = "fan" /\ runs'[r].changes = claimed /\ runs'[r].held = runs[r].held
      /\ runs'[r].age = runs[r].age /\ runs'[r].work = runs[r].work
      /\ runs[r].age \in Nat
  <2>1. runs'[r] = [runs[r] EXCEPT !.pc = "fan", !.changes = claimed]
    BY <1>5
  <2>2. runs[r] \in Run
    BY <1>1
  <2>3. runs[r].age \in Nat
    BY <2>2, PipelineAssumption DEF Run
  <2>. QED
    BY <2>1, <2>2, <2>3 DEF Run
<1>7. runs[r] # Idle
  BY <1>1, RunTypes
<1>8. NoEventYet'
  BY <1>1 DEF NoEventYet
<1>9. NoReaderMissed'
  BY <1>1, <1>3 DEF NoReaderMissed
<1>10. RunKept(r)'
  <2>1. OneAttempt(r)'
    BY <1>1, <1>6, <1>7 DEF RunKept, OneAttempt
  <2>2. ChangesLeased(r)'
    <3>1. Lease \in Nat
      BY PipelineAssumption
    <3>2. ASSUME NEW c \in claimed
          PROVE  changes'[c].status = "pending" /\ changes'[c].lease + runs'[r].age > Lease
      BY <1>leased, <1>2, <1>3, <1>6, <3>1
    <3>. QED
      BY <1>6, <3>2 DEF ChangesLeased
  <2>3. EventsLeased(r)'
    BY <1>1, <1>6, <1>7 DEF RunKept, EventsLeased
  <2>. QED
    BY <1>6, <2>1, <2>2, <2>3 DEF RunKept, ReadersKept
<1>11. ASSUME NEW s \in Runs \ {r}
       PROVE  RunKept(s)'
  <2>1. ASSUME runs[s] # Idle, NEW c \in runs[s].changes
        PROVE  changes'[c] = changes[c]
    <3>1. c \in Changes
      BY <2>1 DEF TypeOK, Run
    <3>. QED
      BY <1>3, <1>4, <2>1, <3>1
  <2>. QED
    BY <1>1, <1>5, <2>1, OthersKeep
<1>12. ASSUME NEW s \in Runs \ {r}
       PROVE  Apart(r, s)' /\ Apart(s, r)'
  <2>1. Apart(r, s) /\ Apart(s, r)
    BY <1>12
  <2>. QED
    BY <1>4, <1>5, <1>6, <1>7, <2>1 DEF Apart
<1>13. ASSUME NEW s \in Runs \ {r}, NEW q \in Runs \ {r}, s # q
       PROVE  Apart(s, q)'
  BY <1>5, <1>13 DEF Apart
<1>. QED
  BY <1>8, <1>9, <1>10, <1>11, <1>12, <1>13

\* A run that takes nothing new takes nothing from another one.
LEMMA ApartStays ==
    ASSUME IInv, NEW r \in Runs, NEW new, runs[r] # Idle,
           runs' = [runs EXCEPT ![r] = new],
           new.held \subseteq runs[r].held, new.changes \subseteq runs[r].changes
    PROVE  \A s, q \in Runs : s # q => Apart(s, q)'
<1>. USE DEF IInv, Kept
<1>1. runs'[r] = new /\ \A s \in Runs \ {r} : runs'[s] = runs[s]
  BY DEF TypeOK
<1>2. ASSUME NEW s \in Runs \ {r}
      PROVE  Apart(r, s)' /\ Apart(s, r)'
  <2>1. Apart(r, s) /\ Apart(s, r)
    BY <1>2
  <2>. QED
    BY <1>1, <2>1 DEF Apart
<1>3. ASSUME NEW s \in Runs \ {r}, NEW q \in Runs \ {r}, s # q
      PROVE  Apart(s, q)'
  BY <1>1, <1>3 DEF Apart
<1>. QED
  BY <1>2, <1>3

\* A run that checks, posts or logs one of the attempts it holds.
LEMMA AttemptKeeps ==
    ASSUME IInv, NEW r \in Runs, runs[r] \in Run,
           runs[r].pc \in {"deliver", "send", "log"},
           NEW pc \in {"send", "log", "record"}, NEW work,
           \A w \in work : w.taken \in runs[r].held,
           runs' = [runs EXCEPT ![r] = [runs[r] EXCEPT !.pc = pc, !.work = work]],
           UNCHANGED <<changes, events, access>>
    PROVE  Kept'
<1>. USE DEF IInv, Kept
<1>. DEFINE new == [runs[r] EXCEPT !.pc = pc, !.work = work]
<1>1. /\ new.pc = pc /\ new.work = work
      /\ new.held = runs[r].held /\ new.changes = runs[r].changes /\ new.age = runs[r].age
  BY DEF Run
<1>2. runs' = [runs EXCEPT ![r] = new] /\ runs[r] # Idle
  BY RunTypes
<1>. HIDE DEF new
<1>3. runs'[r] = new /\ \A s \in Runs \ {r} : runs'[s] = runs[s]
  BY <1>2 DEF TypeOK
<1>4. NoEventYet' /\ NoReaderMissed'
  BY DEF NoEventYet, NoReaderMissed
<1>5. RunKept(r)'
  <2>1. OneAttempt(r)'
    BY <1>1, <1>2, <1>3 DEF RunKept, OneAttempt
  <2>2. ChangesLeased(r)' /\ EventsLeased(r)'
    BY <1>1, <1>2, <1>3 DEF RunKept, ChangesLeased, EventsLeased
  <2>. QED
    BY <1>1, <1>3, <2>1, <2>2 DEF RunKept, ReadersKept
<1>6. ASSUME NEW s \in Runs \ {r}
      PROVE  RunKept(s)'
  BY <1>3, OthersKeep
<1>7. \A s, q \in Runs : s # q => Apart(s, q)'
  BY <1>1, <1>2, ApartStays
<1>. QED
  BY <1>4, <1>5, <1>6, <1>7

\* readersOf: whoever may read about the change is among those it returns.
LEMMA ReadReadersKeeps ==
    ASSUME IInv, NEW r \in Runs, ReadReaders(r)
    PROVE  Kept'
<1>. USE DEF IInv, Kept
<1>. DEFINE readers == Readers(Current(r))
            new == [runs[r] EXCEPT !.pc = "insert", !.readers = readers]
<1>1. /\ runs[r] \in Run /\ runs[r].pc = "fan" /\ runs[r].changes # {}
      /\ runs' = [runs EXCEPT ![r] = new]
      /\ UNCHANGED <<changes, events, access>>
  BY RunTypes DEF ReadReaders, Stages, TypeOK
<1>2. runs[r] # Idle /\ Current(r) \in Changes
  BY <1>1, RunTypes, CurrentIsClaimed
<1>3. \A t \in Tenants : access[t] \cap Touches[Current(r)] # {}
          => [tenant |-> t, named |-> access[t] \cap Touches[Current(r)]] \in readers
  BY <1>2 DEF Readers
<1>. HIDE DEF readers
<1>4. /\ new.pc = "insert" /\ new.readers = readers
      /\ new.held = runs[r].held /\ new.changes = runs[r].changes /\ new.age = runs[r].age
      /\ new.work = runs[r].work
  BY <1>1 DEF Run
<1>. HIDE DEF new
<1>5. runs'[r] = new /\ \A s \in Runs \ {r} : runs'[s] = runs[s]
  BY <1>1 DEF TypeOK
<1>6. NoEventYet' /\ NoReaderMissed'
  BY <1>1 DEF NoEventYet, NoReaderMissed
<1>7. RunKept(r)'
  <2>1. OneAttempt(r)'
    BY <1>1, <1>2, <1>4, <1>5 DEF RunKept, OneAttempt
  <2>2. ChangesLeased(r)' /\ EventsLeased(r)'
    BY <1>1, <1>2, <1>4, <1>5 DEF RunKept, ChangesLeased, EventsLeased
  <2>3. Current(r)' = Current(r)
    BY <1>4, <1>5 DEF Current
  <2>4. ReadersKept(r)'
    BY <1>1, <1>3, <1>4, <1>5, <2>3 DEF ReadersKept
  <2>. QED
    BY <2>1, <2>2, <2>4 DEF RunKept
<1>8. ASSUME NEW s \in Runs \ {r}
      PROVE  RunKept(s)'
  BY <1>1, <1>5, OthersKeep
<1>9. \A s, q \in Runs : s # q => Apart(s, q)'
  BY <1>1, <1>2, <1>4, ApartStays
<1>. QED
  BY <1>6, <1>7, <1>8, <1>9

\* insertEvent: a reader is dropped only once its event is there, and an event
\* that is there stays as it is.
LEMMA InsertEventKeeps ==
    ASSUME IInv, NEW r \in Runs, InsertEvent(r)
    PROVE  Kept'
<1>. USE DEF IInv, Kept
<1>1. PICK reader \in runs[r].readers :
         /\ events' = WithEvent(Current(r), reader)
         /\ runs' = [runs EXCEPT ![r].readers = @ \ {reader}]
  BY DEF InsertEvent
<1>2. /\ runs[r] \in Run /\ runs[r].pc = "insert"
      /\ UNCHANGED <<changes, access>>
  BY RunTypes DEF InsertEvent, Stages
<1>3. runs[r] # Idle /\ runs[r].changes # {}
  BY <1>2, RunTypes DEF RunKept, OneAttempt
<1>4. Current(r) \in Changes
  BY <1>3, CurrentIsClaimed
<1>. DEFINE new == [runs[r] EXCEPT !.readers = @ \ {reader}]
            e == <<Current(r), reader.tenant>>
<1>5. runs' = [runs EXCEPT ![r] = new]
  BY <1>1
<1>6. /\ new.pc = "insert" /\ new.readers = runs[r].readers \ {reader}
      /\ new.held = runs[r].held /\ new.changes = runs[r].changes /\ new.age = runs[r].age
      /\ new.work = runs[r].work
  BY <1>2 DEF Run
<1>7. reader \in Reader /\ e \in EventIds
  BY <1>2, <1>4 DEF Run, Reader, EventIds
<1>. HIDE DEF new
<1>8. /\ events[e] # NoEvent => events' = events
      /\ events[e] = NoEvent => events' = [events EXCEPT ![e] = NewEvent(reader)]
  BY <1>1 DEF WithEvent
<1>9. NewEvent(reader).status \in {"pending", "no_endpoint"}
  BY DEF NewEvent
<1>. HIDE DEF e
<1>10. /\ \A d \in EventIds : events[d].status # "none" => events'[d] = events[d]
       /\ \A d \in EventIds : d # e => events'[d] = events[d]
       /\ events'[e].status # "none"
  <2>1. NoEvent.status = "none"
    BY DEF NoEvent
  <2>2. CASE events[e] = NoEvent
    BY <1>7, <1>8, <1>9, <2>1, <2>2 DEF TypeOK
  <2>3. CASE events[e] # NoEvent
    BY <1>7, <1>8, <2>3 DEF NoEventYet
  <2>. QED
    BY <2>2, <2>3
<1>11. runs'[r] = new /\ \A s \in Runs \ {r} : runs'[s] = runs[s]
  BY <1>5 DEF TypeOK
<1>12. NoEventYet'
  BY <1>10 DEF NoEventYet
<1>13. NoReaderMissed'
  <2>1. \A c \in Changes, t \in Tenants : <<c, t>> \in EventIds
    BY DEF EventIds
  <2>. QED
    BY <1>2, <1>10, <2>1 DEF NoReaderMissed
<1>14. RunKept(r)'
  <2>1. OneAttempt(r)'
    BY <1>2, <1>3, <1>6, <1>11 DEF RunKept, OneAttempt
  <2>2. ChangesLeased(r)'
    BY <1>2, <1>3, <1>6, <1>11 DEF RunKept, ChangesLeased
  <2>3. EventsLeased(r)'
    BY <1>2, <1>3, <1>6, <1>11 DEF RunKept, OneAttempt, EventsLeased
  <2>4. ReadersKept(r)'
    <3>1. Current(r)' = Current(r)
      BY <1>6, <1>11 DEF Current
    <3>2. ASSUME NEW t \in Tenants \ Fickle, access[t] \cap Touches[Current(r)] # {}
          PROVE  \/ events'[<<Current(r), t>>].status # "none"
                 \/ [tenant |-> t, named |-> access[t] \cap Touches[Current(r)]]
                       \in runs'[r].readers
      <4>. DEFINE his == [tenant |-> t, named |-> access[t] \cap Touches[Current(r)]]
      <4>1. \/ events[<<Current(r), t>>].status # "none"
            \/ his \in runs[r].readers
        BY <1>2, <1>3, <3>2 DEF RunKept, ReadersKept
      <4>2. <<Current(r), t>> \in EventIds
        BY <1>4 DEF EventIds
      <4>3. CASE his = reader
        <5>1. e = <<Current(r), t>>
          BY <4>3 DEF e
        <5>. QED
          BY <1>10, <5>1
      <4>4. CASE his # reader
        BY <1>6, <1>10, <1>11, <4>1, <4>2, <4>4
      <4>. QED
        BY <4>3, <4>4
    <3>. QED
      BY <1>2, <3>1, <3>2 DEF ReadersKept
  <2>. QED
    BY <2>1, <2>2, <2>3, <2>4 DEF RunKept
<1>15. ASSUME NEW s \in Runs \ {r}
       PROVE  RunKept(s)'
  <2>1. ASSUME runs[s] # Idle, NEW x \in runs[s].held
        PROVE  events'[x.event] = events[x.event]
    <3>1. x.event \in EventIds
      BY <2>1 DEF TypeOK, Run, Attempt
    <3>2. events[x.event].status # "none"
      BY <2>1 DEF RunKept, EventsLeased
    <3>. QED
      BY <1>10, <3>1, <3>2
  <2>. QED
    BY <1>2, <1>10, <1>11, <2>1, OthersKeep
<1>16. \A s, q \in Runs : s # q => Apart(s, q)'
  BY <1>3, <1>5, <1>6, ApartStays
<1>. QED
  BY <1>12, <1>13, <1>14, <1>15, <1>16

\* completeChange: nobody who may read about it is left, and nobody else has it.
LEMMA CompleteChangeKeeps ==
    ASSUME IInv, NEW r \in Runs, CompleteChange(r)
    PROVE  Kept'
<1>. USE DEF IInv, Kept
<1>. DEFINE c == Current(r)
            new == [runs[r] EXCEPT !.pc = "fan", !.changes = @ \ {c}]
<1>1. /\ runs[r] \in Run /\ runs[r].pc = "insert" /\ runs[r].readers = {}
      /\ runs' = [runs EXCEPT ![r] = new]
      /\ changes' = [changes EXCEPT ![c] = [status |-> "done", lease |-> 0]]
      /\ UNCHANGED <<events, access>>
  BY RunTypes DEF CompleteChange, Stages, TypeOK
<1>2. runs[r] # Idle /\ runs[r].changes # {}
  BY <1>1, RunTypes DEF RunKept, OneAttempt
<1>3. c \in Changes /\ c \in runs[r].changes
  BY <1>2, CurrentIsClaimed
<1>4. \A t \in Tenants \ Fickle :
         access[t] \cap Touches[c] # {} => events[<<c, t>>].status # "none"
  BY <1>1, <1>2 DEF RunKept, ReadersKept
<1>. HIDE DEF c
<1>5. /\ new.pc = "fan" /\ new.changes = runs[r].changes \ {c}
      /\ new.held = runs[r].held /\ new.age = runs[r].age /\ new.work = runs[r].work
  BY <1>1 DEF Run
<1>. HIDE DEF new
<1>6. \A d \in Changes \ {c} : changes'[d] = changes[d]
  BY <1>1 DEF TypeOK
<1>7. runs'[r] = new /\ \A s \in Runs \ {r} : runs'[s] = runs[s]
  BY <1>1 DEF TypeOK
<1>8. NoEventYet'
  BY <1>1 DEF NoEventYet
<1>9. NoReaderMissed'
  BY <1>1, <1>4, <1>6 DEF NoReaderMissed
<1>10. RunKept(r)'
  <2>1. OneAttempt(r)'
    BY <1>1, <1>2, <1>5, <1>7 DEF RunKept, OneAttempt
  <2>2. ChangesLeased(r)'
    <3>1. runs[r].changes \subseteq Changes
      BY <1>1 DEF Run
    <3>. QED
      BY <1>2, <1>5, <1>6, <1>7, <3>1 DEF RunKept, ChangesLeased
  <2>3. EventsLeased(r)'
    BY <1>1, <1>2, <1>5, <1>7 DEF RunKept, EventsLeased
  <2>. QED
    BY <1>5, <1>7, <2>1, <2>2, <2>3 DEF RunKept, ReadersKept
<1>11. ASSUME NEW s \in Runs \ {r}
       PROVE  RunKept(s)'
  <2>1. ASSUME runs[s] # Idle, NEW d \in runs[s].changes
        PROVE  changes'[d] = changes[d]
    <3>1. d \in Changes
      BY <2>1 DEF TypeOK, Run
    <3>2. Apart(r, s)
      OBVIOUS
    <3>3. d # c
      BY <1>2, <1>3, <2>1, <3>2 DEF Apart
    <3>. QED
      BY <1>6, <3>1, <3>3
  <2>. QED
    BY <1>1, <1>7, <2>1, OthersKeep
<1>12. \A s, q \in Runs : s # q => Apart(s, q)'
  BY <1>1, <1>2, <1>5, ApartStays
<1>. QED
  BY <1>8, <1>9, <1>10, <1>11, <1>12

\* claimDueEvents: what another run has leased is not due.
LEMMA ClaimEventsKeeps ==
    ASSUME IInv, NEW r \in Runs, ClaimEvents(r)
    PROVE  Kept'
<1>. USE DEF IInv, Kept
<1>1. PICK S \in Batches :
         /\ events' = Leased(Deliverable(S))
         /\ runs' = [runs EXCEPT ![r].pc = "deliver",
                                 ![r].held = {Taken(e) : e \in Deliverable(S)}]
  BY DEF ClaimEvents
<1>. DEFINE D == Deliverable(S)
            held == {Taken(e) : e \in D}
            new == [runs[r] EXCEPT !.pc = "deliver", !.held = held]
<1>2. /\ runs[r] \in Run /\ runs[r].pc = "fan" /\ runs[r].changes = {}
      /\ UNCHANGED <<changes, access>>
  BY RunTypes DEF ClaimEvents, Stages
<1>3. runs[r] # Idle /\ runs[r].work = {}
  <2>1. runs[r] # Idle
    BY <1>2, RunTypes
  <2>2. OneAttempt(r)
    BY <2>1 DEF RunKept
  <2>. QED
    BY <1>2, <2>1, <2>2 DEF OneAttempt
<1>4. \A e \in D : e \in EventIds /\ events[e].status = "pending" /\ events[e].wait = 0
  BY DEF Deliverable, Batches, kSubset, Due
<1>5. runs' = [runs EXCEPT ![r] = new]
  BY <1>1
<1>6. ASSUME NEW e \in EventIds
      PROVE  /\ events'[e].status = events[e].status
             /\ events'[e].attempts = events[e].attempts
             /\ e \notin D => events'[e] = events[e]
  BY <1>1 DEF Leased, TypeOK, Event
<1>7. ASSUME NEW e \in D
      PROVE  events'[e].wait = Lease
  BY <1>1, <1>4 DEF Leased, TypeOK, Event
<1>8. ASSUME NEW s \in Runs, runs[s] # Idle, NEW x \in runs[s].held
      PROVE  x.event \notin D /\ x.event \in EventIds
  <2>1. runs[s] \in Run
    BY <1>8 DEF TypeOK
  <2>2. runs[s].age <= MaxRun /\ runs[s].age \in Nat /\ MaxRun \in Nat /\ Lease \in Nat
    BY <2>1, PipelineAssumption DEF Run
  <2>3. events[x.event].status = "pending" => events[x.event].wait + runs[s].age >= Lease
    BY <1>8 DEF RunKept, EventsLeased
  <2>4. x.event \in EventIds
    BY <2>1 DEF Run, Attempt
  <2>. QED
    BY <1>4, <2>2, <2>3, <2>4, LeaseAssumption
<1>9. \A x \in held : x.event \in D /\ x.attempt = events[x.event].attempts + 1
  BY DEF Taken
<1>10. \A x, y \in held : x.event = y.event => x = y
  BY DEF Taken
<1>. HIDE DEF held, D
<1>11. /\ new.pc = "deliver" /\ new.held = held /\ new.changes = {}
       /\ new.work = {} /\ new.age = runs[r].age
  BY <1>2, <1>3 DEF Run
<1>12. runs[r].age \in Nat /\ Lease \in Nat
  BY <1>2, PipelineAssumption DEF Run
<1>. HIDE DEF new
<1>13. runs'[r] = new /\ \A s \in Runs \ {r} : runs'[s] = runs[s]
  BY <1>5 DEF TypeOK
<1>14. NoEventYet'
  <2>. SUFFICES ASSUME NEW e \in EventIds, events'[e].status = "none"
                PROVE  events'[e] = NoEvent
    BY DEF NoEventYet
  <2>1. e \notin D
    BY <1>4, <1>6
  <2>. QED
    BY <1>6, <2>1 DEF NoEventYet
<1>15. NoReaderMissed'
  BY <1>2, <1>6 DEF NoReaderMissed, EventIds
<1>16. RunKept(r)'
  <2>1. OneAttempt(r)'
    BY <1>10, <1>11, <1>13 DEF OneAttempt
  <2>2. ChangesLeased(r)'
    BY <1>11, <1>13 DEF ChangesLeased
  <2>3. EventsLeased(r)'
    <3>1. ASSUME NEW x \in held
          PROVE  /\ events'[x.event].attempts + 1 = x.attempt
                 /\ events'[x.event].status = "pending"
                 /\ events'[x.event].wait + runs'[r].age >= Lease
      <4>1. x.event \in D /\ x.event \in EventIds
        BY <1>4, <1>9
      <4>2. events[x.event].attempts \in Nat
        BY <4>1 DEF TypeOK, Event
      <4>. QED
        BY <1>4, <1>6, <1>7, <1>9, <1>11, <1>12, <1>13, <4>1, <4>2
    <3>. QED
      BY <1>11, <1>13, <3>1 DEF EventsLeased
  <2>. QED
    BY <1>11, <1>13, <2>1, <2>2, <2>3 DEF RunKept, ReadersKept
<1>17. ASSUME NEW s \in Runs \ {r}
       PROVE  RunKept(s)'
  <2>1. ASSUME runs[s] # Idle, NEW x \in runs[s].held
        PROVE  events'[x.event] = events[x.event]
    BY <1>6, <1>8, <2>1
  <2>. QED
    BY <1>2, <1>6, <1>13, <2>1, OthersKeep
<1>18. ASSUME NEW s \in Runs \ {r}
       PROVE  Apart(r, s)' /\ Apart(s, r)'
  BY <1>8, <1>9, <1>11, <1>13 DEF Apart
<1>19. ASSUME NEW s \in Runs \ {r}, NEW q \in Runs \ {r}, s # q
       PROVE  Apart(s, q)'
  BY <1>13, <1>19 DEF Apart
<1>. QED
  BY <1>14, <1>15, <1>16, <1>17, <1>18, <1>19

\* recordAttempt: the run lets go of the event as it writes it.
LEMMA RecordOutcomeKeeps ==
    ASSUME IInv, NEW r \in Runs, RecordOutcome(r)
    PROVE  /\ Kept'
           /\ \E w \in runs[r].work :
                 /\ w.taken \in runs[r].held
                 /\ w.taken.event \in EventIds
                 /\ events' = [events EXCEPT ![w.taken.event] = Outcome(r, w)]
                 /\ Outcome(r, w).attempts = w.taken.attempt
<1>. USE DEF IInv, Kept
<1>1. PICK w \in runs[r].work : Recording(r, w)
  BY RecordingsOutcome
<1>. DEFINE new == [runs[r] EXCEPT !.pc = "deliver", !.work = {}, !.held = @ \ {w.taken}]
            e == w.taken.event
<1>2. /\ runs[r] \in Run /\ runs[r].pc = "record"
      /\ UNCHANGED <<changes, access>>
  BY RunTypes DEF RecordOutcome, Stages
<1>3. runs[r] # Idle
  BY <1>2, RunTypes
<1>4. /\ w.taken \in runs[r].held /\ runs[r].changes = {}
      /\ \A x, y \in runs[r].held : x.event = y.event => x = y
  BY <1>2, <1>3 DEF RunKept, OneAttempt
<1>5. w \in Ending /\ e \in EventIds
  BY <1>2 DEF Run, Ending, Attempt
<1>6. runs' = [runs EXCEPT ![r] = new] /\ events' = [events EXCEPT ![e] = Outcome(r, w)]
  BY <1>1 DEF Recording
<1>7. /\ new.pc = "deliver" /\ new.held = runs[r].held \ {w.taken} /\ new.changes = {}
      /\ new.work = {} /\ new.age = runs[r].age
  BY <1>2, <1>4 DEF Run
<1>8. Outcome(r, w).status # "none" /\ Outcome(r, w).attempts = w.taken.attempt
  <2>1. events[e] \in Event
    BY <1>5 DEF TypeOK
  <2>. QED
    BY <1>5, <2>1 DEF Outcome, Event, Ending, FinalStatuses
<1>. HIDE DEF new
<1>9. runs'[r] = new /\ \A s \in Runs \ {r} : runs'[s] = runs[s]
  BY <1>6 DEF TypeOK
<1>10. \A x \in new.held : x.event \in EventIds /\ x.event # e
  BY <1>2, <1>4, <1>7 DEF Run, Attempt
<1>11. \A s \in Runs \ {r} : runs[s] # Idle =>
           \A x \in runs[s].held : x.event \in EventIds /\ x.event # e
  <2>. SUFFICES ASSUME NEW s \in Runs \ {r}, runs[s] # Idle, NEW x \in runs[s].held
                PROVE  x.event \in EventIds /\ x.event # e
    OBVIOUS
  <2>1. Apart(r, s)
    OBVIOUS
  <2>. QED
    BY <1>3, <1>4, <2>1 DEF Apart, TypeOK, Run, Attempt
<1>. HIDE DEF e
<1>12. \A d \in EventIds : d # e => events'[d] = events[d]
  BY <1>6 DEF TypeOK
<1>13. events'[e].status # "none"
  BY <1>5, <1>6, <1>8 DEF TypeOK
<1>14. NoEventYet'
  BY <1>12, <1>13 DEF NoEventYet
<1>15. NoReaderMissed'
  BY <1>2, <1>12, <1>13 DEF NoReaderMissed, EventIds
<1>16. RunKept(r)'
  <2>1. OneAttempt(r)'
    BY <1>4, <1>7, <1>9 DEF OneAttempt
  <2>2. ChangesLeased(r)'
    BY <1>7, <1>9 DEF ChangesLeased
  <2>3. EventsLeased(r)'
    BY <1>3, <1>7, <1>9, <1>10, <1>12 DEF RunKept, EventsLeased
  <2>. QED
    BY <1>7, <1>9, <2>1, <2>2, <2>3 DEF RunKept, ReadersKept
<1>17. ASSUME NEW s \in Runs \ {r}
       PROVE  RunKept(s)'
  BY <1>2, <1>9, <1>11, <1>12, <1>13, OthersKeep
<1>18. \A s, q \in Runs : s # q => Apart(s, q)'
  BY <1>3, <1>6, <1>7, ApartStays
<1>19. Kept'
  BY <1>14, <1>15, <1>16, <1>17, <1>18
<1>. QED
  BY <1>4, <1>5, <1>6, <1>8, <1>19 DEF e
-----------------------------------------------------------------------------
LEMMA InitKept == Init => IInv
<1>. SUFFICES ASSUME Init
              PROVE  IInv
  OBVIOUS
<1>. USE DEF Init
<1>1. TypeOK
  <2>1. NoEvent \in Event /\ NoChange \in Change
    BY DEF NoEvent, NoChange, Event, Change
  <2>. QED
    BY <2>1, PipelineAssumption DEF TypeOK, EventIds
<1>2. \A r \in Runs : runs[r] = Idle
  OBVIOUS
<1>3. NoEventYet
  BY DEF NoEventYet
<1>4. NoReaderMissed
  BY DEF NoReaderMissed, NoChange
<1>. QED
  BY <1>1, <1>2, <1>3, <1>4 DEF IInv, Kept, RunKept, Apart

\* The invariant is inductive.
LEMMA StepKept == IInv /\ [Next]_vars => IInv'
<1>. SUFFICES ASSUME IInv, [Next]_vars
              PROVE  IInv'
  OBVIOUS
<1>1. CASE UNCHANGED vars
  BY <1>1 DEF vars, IInv, TypeOK, Kept, NoEventYet, NoReaderMissed, RunKept, OneAttempt,
              ChangesLeased, EventsLeased, ReadersKept, Current, Apart
<1>2. CASE Next
  <2>1. TypeOK /\ TypeOK'
    BY <1>2, TypeStep DEF IInv
  <2>2. ASSUME NEW r \in Runs, RunStep(r)
        PROVE  Kept'
    <3>1. CASE ClaimChanges(r)
      BY <3>1, ClaimChangesKeeps
    <3>2. CASE ReadReaders(r)
      BY <3>2, ReadReadersKeeps
    <3>3. CASE InsertEvent(r)
      BY <3>3, InsertEventKeeps
    <3>4. CASE CompleteChange(r)
      BY <3>4, CompleteChangeKeeps
    <3>5. CASE ClaimEvents(r)
      BY <3>5, ClaimEventsKeeps
    <3>6. CASE CheckAccess(r)
      <4>1. PICK taken, pc, status :
               /\ taken \in runs[r].held /\ pc \in {"log", "send"}
               /\ runs' = [runs EXCEPT ![r].pc = pc,
                              ![r].work = {[taken |-> taken, status |-> status, code |-> "error"]}]
        BY <3>6 DEF CheckAccess, Ended
      <4>. DEFINE work == {[taken |-> taken, status |-> status, code |-> "error"]}
      <4>2. runs[r] \in Run /\ runs[r].pc = "deliver" /\ UNCHANGED <<changes, events, access>>
        BY <2>1, <3>6, RunTypes DEF CheckAccess, Stages
      <4>3. runs' = [runs EXCEPT ![r] = [runs[r] EXCEPT !.pc = pc, !.work = work]]
        BY <2>1, <4>1 DEF TypeOK
      <4>4. \A w \in work : w.taken \in runs[r].held
        BY <4>1
      <4>. HIDE DEF work
      <4>. QED
        BY <4>1, <4>2, <4>3, <4>4, AttemptKeeps
    <3>7. CASE Send(r)
      <4>1. PICK w, status, code :
               /\ w \in runs[r].work
               /\ runs' = [runs EXCEPT ![r].pc = "log",
                              ![r].work = {[taken |-> w.taken, status |-> status, code |-> code]}]
        BY <3>7 DEF Send, Ended
      <4>. DEFINE work == {[taken |-> w.taken, status |-> status, code |-> code]}
      <4>2. runs[r] \in Run /\ runs[r].pc = "send" /\ UNCHANGED <<changes, events, access>>
        BY <2>1, <3>7, RunTypes DEF Send, Stages
      <4>3. runs' = [runs EXCEPT ![r] = [runs[r] EXCEPT !.pc = "log", !.work = work]]
        BY <2>1, <4>1 DEF TypeOK
      <4>4. w.taken \in runs[r].held
        BY <2>1, <4>1, <4>2, RunTypes DEF IInv, Kept, RunKept, OneAttempt
      <4>5. \A v \in work : v.taken \in runs[r].held
        BY <4>4
      <4>. HIDE DEF work
      <4>. QED
        BY <4>2, <4>3, <4>5, AttemptKeeps
    <3>8. CASE LogDelivery(r)
      <4>1. /\ runs[r] \in Run /\ runs[r].pc = "log" /\ UNCHANGED <<changes, events, access>>
            /\ runs' = [runs EXCEPT ![r].pc = "record"]
        BY <2>1, <3>8, RunTypes DEF LogDelivery, Stages
      <4>2. runs' = [runs EXCEPT ![r] = [runs[r] EXCEPT !.pc = "record", !.work = runs[r].work]]
        BY <2>1, <4>1 DEF TypeOK, Run
      <4>3. \A w \in runs[r].work : w.taken \in runs[r].held
        BY <2>1, <4>1, RunTypes DEF IInv, Kept, RunKept, OneAttempt
      <4>. QED
        BY <4>1, <4>2, <4>3, AttemptKeeps
    <3>9. CASE RecordOutcome(r)
      BY <3>9, RecordOutcomeKeeps
    <3>10. CASE FinishRun(r)
      BY <3>10, IdlersKeep DEF FinishRun
    <3>. QED
      BY <2>2, <3>1, <3>2, <3>3, <3>4, <3>5, <3>6, <3>7, <3>8, <3>9, <3>10 DEF RunStep
  <2>3. ASSUME NEW r \in Runs, StartRun(r) \/ BreakRun(r)
        PROVE  Kept'
    <3>1. CASE BreakRun(r)
      BY <3>1, IdlersKeep DEF BreakRun
    <3>2. CASE StartRun(r)
      <4>. DEFINE new == [pc |-> "changes", age |-> 0, changes |-> {}, readers |-> {},
                          held |-> {}, work |-> {}]
      <4>1. runs' = [runs EXCEPT ![r] = new] /\ UNCHANGED <<changes, events, access>>
        BY <3>2 DEF StartRun
      <4>2. new.pc = "changes" /\ new.changes = {} /\ new.held = {} /\ new.work = {}
        OBVIOUS
      <4>. HIDE DEF new
      <4>. QED
        BY <4>1, <4>2, IdlersKeep
    <3>. QED
      BY <2>3, <3>1, <3>2
  <2>4. Tick => Kept'
    BY TimeKeeps
  <2>5. (\/ \E c \in Changes : RecordChange(c)
         \/ \E t \in Tenants, parties \in SUBSET Parties : ChangeAccess(t, parties)
         \/ \E t \in Tenants : RemoveEndpoint(t) \/ SetEndpoint(t)) => Kept'
    BY SurroundingsKeep
  <2>6. Kept'
    BY <1>2, <2>2, <2>3, <2>4, <2>5 DEF Next
  <2>. QED
    BY <2>1, <2>6 DEF IInv
<1>. QED
  BY <1>1, <1>2

LEMMA AlwaysKept == Spec => []IInv
BY InitKept, StepKept, PTL DEF Spec
-----------------------------------------------------------------------------
\* Every variable keeps its type: what runs hold is made of events, changes and
\* readers there are, whatever the lock in Redis does.
THEOREM TypeCorrect == Spec => []TypeOK
<1>1. IInv => TypeOK
  BY DEF IInv
<1>. QED
  BY <1>1, AlwaysKept, PTL

\* claimChanges, claimDueEvents: no two runs work on the same change or hold the
\* same event, even while the lock lapses under one of them.
THEOREM LeasesCorrect == Spec => []NothingHeldTwice
<1>1. IInv => NothingHeldTwice
  BY DEF IInv, Kept, Apart, NothingHeldTwice, Held, Fanning
<1>. QED
  BY <1>1, AlwaysKept, PTL

\* fanOutChanges: a change is done only when every tenant that could read about
\* it all along has its event.
THEOREM FanOutCorrect == Spec => []NoReaderMissed
<1>1. IInv => NoReaderMissed
  BY DEF IInv, Kept
<1>. QED
  BY <1>1, AlwaysKept, PTL

\* recordAttempt: no step brings back an event that was settled or counts its
\* attempts back.
THEOREM OutcomesCorrect == Spec => OutcomesAreFinal
<1>. DEFINE Final == \A e \in EventIds :
                /\ events[e].status \in FinalStatuses => events'[e].status = events[e].status
                /\ events'[e].attempts >= events[e].attempts
<1>1. IInv /\ [Next]_vars => [Final]_vars
  <2>. SUFFICES ASSUME IInv, Next
                PROVE  Final
    BY DEF vars
  <2>. USE DEF IInv
  <2>1. \A e \in EventIds : events[e] \in Event /\ events[e].attempts \in Nat
    BY DEF TypeOK, Event
  <2>2. CASE UNCHANGED events
    BY <2>1, <2>2
  <2>3. ASSUME NEW t \in Tenants, RemoveEndpoint(t)
        PROVE  Final
    <3>1. \A e \in EventIds :
             /\ events'[e].attempts = events[e].attempts
             /\ events[e].status # "pending" => events'[e] = events[e]
      BY <2>1, <2>3 DEF RemoveEndpoint, Event
    <3>. QED
      BY <2>1, <3>1 DEF FinalStatuses
  <2>4. CASE Tick
    <3>1. \A e \in EventIds : /\ events'[e].attempts = events[e].attempts
                              /\ events'[e].status = events[e].status
      BY <2>1, <2>4 DEF Tick, Event
    <3>. QED
      BY <2>1, <3>1
  <2>5. ASSUME NEW r \in Runs, InsertEvent(r)
        PROVE  Final
    <3>1. PICK reader : events' = WithEvent(Current(r), reader)
      BY <2>5 DEF InsertEvent
    <3>2. \A e \in EventIds : \/ events'[e] = events[e]
                              \/ events[e] = NoEvent /\ events'[e] = NewEvent(reader)
      <4>. DEFINE k == <<Current(r), reader.tenant>>
                  v == NewEvent(reader)
      <4>1. /\ events' = IF events[k] # NoEvent THEN events ELSE [events EXCEPT ![k] = v]
            /\ events \in [EventIds -> Event]
        BY <3>1 DEF WithEvent, TypeOK
      <4>. HIDE DEF k, v
      <4>2. \A e \in EventIds : events'[e] = events[e] \/ (events[e] = NoEvent /\ events'[e] = v)
        BY <4>1
      <4>. QED
        BY <4>2 DEF v
    <3>3. /\ NoEvent.status = "none" /\ NoEvent.attempts = 0
          /\ NewEvent(reader).attempts = 0
      BY DEF NoEvent, NewEvent
    <3>. QED
      BY <2>1, <3>2, <3>3 DEF FinalStatuses
  <2>6. ASSUME NEW r \in Runs, ClaimEvents(r)
        PROVE  Final
    <3>1. \A e \in EventIds : /\ events'[e].attempts = events[e].attempts
                              /\ events'[e].status = events[e].status
      BY <2>1, <2>6 DEF ClaimEvents, Leased, Event
    <3>. QED
      BY <2>1, <3>1
  <2>7. ASSUME NEW r \in Runs, RecordOutcome(r)
        PROVE  Final
    <3>1. PICK w \in runs[r].work :
             /\ w.taken \in runs[r].held
             /\ w.taken.event \in EventIds
             /\ events' = [events EXCEPT ![w.taken.event] = Outcome(r, w)]
             /\ Outcome(r, w).attempts = w.taken.attempt
      BY <2>7, RecordOutcomeKeeps
    <3>2. runs[r] \in Run /\ runs[r] # Idle
      BY <2>7, RunTypes DEF RecordOutcome, Stages
    <3>3. /\ events[w.taken.event].attempts + 1 = w.taken.attempt
          /\ events[w.taken.event].status \in {"pending", "suppressed"}
      BY <3>1, <3>2 DEF Kept, RunKept, EventsLeased
    <3>4. \A e \in EventIds : \/ events'[e] = events[e]
                              \/ e = w.taken.event /\ events'[e] = Outcome(r, w)
      <4>. DEFINE k == w.taken.event
                  v == Outcome(r, w)
      <4>1. events' = [events EXCEPT ![k] = v] /\ events \in [EventIds -> Event]
        BY <3>1 DEF TypeOK
      <4>. HIDE DEF k, v
      <4>2. \A e \in EventIds : events'[e] = events[e] \/ (e = k /\ events'[e] = v)
        BY <4>1
      <4>. QED
        BY <4>2 DEF k, v
    <3>. QED
      BY <2>1, <3>1, <3>3, <3>4 DEF FinalStatuses
  <2>8. \/ UNCHANGED events
        \/ \E t \in Tenants : RemoveEndpoint(t)
        \/ Tick
        \/ \E r \in Runs : InsertEvent(r) \/ ClaimEvents(r) \/ RecordOutcome(r)
    BY DEF Next, RunStep, RecordChange, ChangeAccess, SetEndpoint, StartRun, BreakRun,
           ClaimChanges, ReadReaders, CompleteChange, CheckAccess, Send, LogDelivery, FinishRun
  <2>. HIDE DEF Final
  <2>. QED
    BY <2>2, <2>3, <2>4, <2>5, <2>6, <2>7, <2>8
<1>. QED
  BY <1>1, AlwaysKept, PTL DEF Spec, OutcomesAreFinal
=============================================================================
