---------------------------- MODULE WebhookPipeline ---------------------------
(***************************************************************************)
(* The webhook outbox.  Triggers record changes; a run of the pipeline     *)
(* turns each change into one event for every tenant that may read about   *)
(* it, then posts the events that are due and records how that went.  Runs *)
(* are meant to take turns by a lock in Redis, which may lapse while its   *)
(* holder still runs; what a run works on is leased in the database.       *)
(*                                                                         *)
(* A run is a process: each of its queries and posts is a step, and it may *)
(* die, or be ended by an error, between any two of them.  Every change    *)
(* has an event type, and an event names its change and its tenant, as     *)
(* eventIdFor makes it.  Times are kept as what is left of them, and ages   *)
(* as what has passed, so that the clock needs no bound.                   *)
(***************************************************************************)
EXTENDS Integers, FiniteSets, FiniteSetsExt

CONSTANTS
    Changes,        \* netting_changes.change_id
    Tenants,
    Parties,
    Touches,        \* the parties of the obligation or certificate changed
    Fickle,         \* tenants whose read permissions come and go
    WithEndpoint,   \* tenants that have set an endpoint
    Removers,       \* tenants that may remove it and set another
    Runs,           \* runs of the pipeline that may exist at once
    LockTime,       \* LOCK_SECONDS
    Lease,          \* LEASE
    MaxRun,         \* how long the platform lets a run live
    FirstRetry,     \* FIRST_RETRY_SECONDS
    MaxRetry,       \* MAX_RETRY_SECONDS
    Window,         \* RETRY_WINDOW_SECONDS
    DeliveryBatch,  \* DELIVERY_BATCH
    MaxFailures,    \* bound on the runs that die or fail
    MaxEndpoints    \* bound on the endpoints a tenant sets

ASSUME PipelineAssumption ==
    /\ Changes \subseteq Nat
    /\ Touches \in [Changes -> SUBSET Parties]
    /\ UNION {Fickle, WithEndpoint, Removers} \subseteq Tenants
    /\ {LockTime, Lease, MaxRun, FirstRetry, MaxRetry, Window, DeliveryBatch,
        MaxFailures, MaxEndpoints} \subseteq Nat

\* A lease outlives the run that took it.
ASSUME LeaseAssumption == MaxRun < Lease

VARIABLES
    changes,        \* netting_changes: processed_at and claimed_at
    events,         \* webhook_events
    deliveries,     \* webhook_deliveries
    received,       \* what has reached an endpoint
    access,         \* the parties that let a tenant read, while it is active
    endpoint,       \* webhook_endpoints, each time it is set counted
    lock,           \* how long LOCK_KEY will still be set in Redis
    runs,           \* the runs of the pipeline
    failures        \* the runs that died or failed

vars == <<changes, events, deliveries, received, access, endpoint, lock, runs, failures>>

EventIds == Changes \X Tenants
NoEvent == [status |-> "none", named |-> {}, attempts |-> 0, wait |-> 0, age |-> 0,
            recordedFor |-> 0]
NoChange == [status |-> "none", lease |-> 0]
Idle == [pc |-> "idle"]
FinalStatuses == {"delivered", "failed", "no_endpoint"}

Init ==
    /\ changes = [c \in Changes |-> NoChange]
    /\ events = [e \in EventIds |-> NoEvent]
    /\ deliveries = {}
    /\ received = {}
    /\ access = [t \in Tenants |-> Parties]
    /\ endpoint = [t \in Tenants |-> [live |-> t \in WithEndpoint, count |-> 1]]
    /\ lock = 0
    /\ runs = [r \in Runs |-> Idle]
    /\ failures = 0
-----------------------------------------------------------------------------
(* What happens around the pipeline.                                       *)

\* record_obligation_change, record_certificate_change.
RecordChange(c) ==
    /\ changes[c].status = "none"
    /\ changes' = [changes EXCEPT ![c].status = "pending"]
    /\ UNCHANGED <<events, deliveries, received, access, endpoint, lock, runs, failures>>

\* Permissions given, revoked and expired, tenants suspended and active again.
ChangeAccess(t, parties) ==
    /\ t \in Fickle
    /\ access' = [access EXCEPT ![t] = parties]
    /\ UNCHANGED <<changes, events, deliveries, received, endpoint, lock, runs, failures>>

\* Queued events go with the endpoint.
RemoveEndpoint(t) ==
    /\ t \in Removers
    /\ endpoint[t].live
    /\ endpoint' = [endpoint EXCEPT ![t].live = FALSE]
    /\ events' = [e \in EventIds |->
                     IF e[2] = t /\ events[e].status = "pending"
                       THEN [events[e] EXCEPT !.status = "suppressed"] ELSE events[e]]
    /\ UNCHANGED <<changes, deliveries, received, access, lock, runs, failures>>

SetEndpoint(t) ==
    /\ t \in Removers
    /\ ~ endpoint[t].live
    /\ endpoint[t].count < MaxEndpoints
    /\ endpoint' = [endpoint EXCEPT ![t] = [live |-> TRUE, count |-> @.count + 1]]
    /\ UNCHANGED <<changes, events, deliveries, received, access, lock, runs, failures>>

\* A second passes: Date.now(), now() and the clock of Redis.  The platform ends
\* a run that takes too long.  Nobody asks how old a settled event is, and an
\* event too old for another attempt grows no older.
Less(time) == IF time = 0 THEN 0 ELSE time - 1
Tick ==
    /\ \A r \in Runs : runs[r] # Idle => runs[r].age < MaxRun
    /\ lock' = Less(lock)
    /\ changes' = [c \in Changes |-> [changes[c] EXCEPT !.lease = Less(@)]]
    /\ events' = [e \in EventIds |->
                     IF events[e].status \in FinalStatuses \cup {"none"} THEN events[e]
                     ELSE [events[e] EXCEPT !.wait = Less(@),
                                            !.age = Min({@ + 1, Window + MaxRun + 1})]]
    /\ runs' = [r \in Runs |-> IF runs[r] = Idle THEN Idle ELSE [runs[r] EXCEPT !.age = @ + 1]]
    /\ UNCHANGED <<deliveries, received, access, endpoint, failures>>
-----------------------------------------------------------------------------
(* runWebhookPipeline, fanOutChanges.                                      *)

\* Every time a run computes is reckoned from the moment it began, which it
\* reads once.
StartRun(r) ==
    /\ runs[r] = Idle
    /\ lock = 0
    /\ lock' = LockTime
    /\ runs' = [runs EXCEPT ![r] = [pc |-> "changes", age |-> 0, changes |-> {},
                                    readers |-> {}, held |-> {}, work |-> {}]]
    /\ UNCHANGED <<changes, events, deliveries, received, access, endpoint, failures>>

Unclaimed(c) == changes[c].status = "pending" /\ changes[c].lease = 0

\* Mutant of ClaimChanges: the claim is a status, which no lease ends.
ClaimForGood(r) ==
    /\ runs[r].pc = "changes"
    /\ LET claimed == {c \in Changes : Unclaimed(c)} IN
         /\ changes' = [c \in Changes |->
                           IF c \in claimed THEN [changes[c] EXCEPT !.status = "claimed"]
                                            ELSE changes[c]]
         /\ runs' = [runs EXCEPT ![r].pc = "fan", ![r].changes = claimed]
    /\ UNCHANGED <<events, deliveries, received, access, endpoint, lock, failures>>

\* A lapsed lease has to lie in the past.  CHANGE_BATCH is 200: a claim takes
\* every change there is.
ClaimChanges(r) ==
    /\ runs[r].pc = "changes"
    /\ LET claimed == {c \in Changes : Unclaimed(c)} IN
         /\ changes' = [c \in Changes |->
                           IF c \in claimed THEN [changes[c] EXCEPT !.lease = Lease + 1]
                                            ELSE changes[c]]
         /\ runs' = [runs EXCEPT ![r].pc = "fan", ![r].changes = claimed]
    /\ UNCHANGED <<events, deliveries, received, access, endpoint, lock, failures>>

Current(r) == Min(runs[r].changes)

\* Tenants that may read about the parties of a change, each with the ones it
\* may read about.
Readers(c) == {reader \in [tenant : Tenants, named : SUBSET Touches[c]] :
                  /\ reader.named = access[reader.tenant] \cap Touches[c]
                  /\ reader.named # {}}

ReadReaders(r) ==
    /\ runs[r].pc = "fan"
    /\ runs[r].changes # {}
    /\ runs' = [runs EXCEPT ![r].pc = "insert", ![r].readers = Readers(Current(r))]
    /\ UNCHANGED <<changes, events, deliveries, received, access, endpoint, lock, failures>>

NewEvent(reader) ==
    LET to == endpoint[reader.tenant]
    IN [status |-> IF to.live THEN "pending" ELSE "no_endpoint", named |-> reader.named,
        attempts |-> 0, wait |-> 0, age |-> 0, recordedFor |-> to.count]

\* Mutant of WithEvent: the id of an event does not name its tenant.
WithEventPerChange(c, reader) ==
    IF \E t \in Tenants : events[<<c, t>>] # NoEvent THEN events
    ELSE [events EXCEPT ![<<c, reader.tenant>>] = NewEvent(reader)]

\* ON CONFLICT (event_id) DO NOTHING.
WithEvent(c, reader) ==
    IF events[<<c, reader.tenant>>] # NoEvent THEN events
    ELSE [events EXCEPT ![<<c, reader.tenant>>] = NewEvent(reader)]

InsertEvent(r) ==
    /\ runs[r].pc = "insert"
    /\ \E reader \in runs[r].readers :
         /\ events' = WithEvent(Current(r), reader)
         /\ runs' = [runs EXCEPT ![r].readers = @ \ {reader}]
    /\ UNCHANGED <<changes, deliveries, received, access, endpoint, lock, failures>>

\* claimed_at stays, but is read no more.
CompleteChange(r) ==
    /\ runs[r].pc = "insert"
    /\ runs[r].readers = {}
    /\ changes' = [changes EXCEPT ![Current(r)] = [status |-> "done", lease |-> 0]]
    /\ runs' = [runs EXCEPT ![r].pc = "fan", ![r].changes = @ \ {Current(r)}]
    /\ UNCHANGED <<events, deliveries, received, access, endpoint, lock, failures>>
-----------------------------------------------------------------------------
(* deliverDue.                                                             *)

\* Mutant of Due: a settled event is due again.
DueWhenSettled(e) == events[e].status # "none" /\ events[e].wait = 0

Due(e) == events[e].status = "pending" /\ events[e].wait = 0

\* As many due events as a batch holds, which of them is left open (the longest
\* due come first), and those of them whose tenant has an endpoint.
Batches == LET due == {e \in EventIds : Due(e)}
           IN kSubset(Min({DeliveryBatch, Cardinality(due)}), due)
Deliverable(S) == {e \in S : endpoint[e[2]].live}

\* Mutants of Leased: no lease, and a status in the place of one.
NotLeased(S) == events
LeasedForGood(S) == [e \in EventIds |-> IF e \in S THEN [events[e] EXCEPT !.status = "sending"]
                                                   ELSE events[e]]
Leased(S) == [e \in EventIds |-> IF e \in S THEN [events[e] EXCEPT !.wait = Lease]
                                            ELSE events[e]]

\* What the run takes along: the attempts so far and the endpoint as it is now.
Taken(e) == [event |-> e, attempt |-> events[e].attempts + 1, to |-> endpoint[e[2]].count]

ClaimEvents(r) ==
    /\ runs[r].pc = "fan"
    /\ runs[r].changes = {}
    /\ \E S \in Batches :
         /\ events' = Leased(Deliverable(S))
         /\ runs' = [runs EXCEPT ![r].pc = "deliver",
                                 ![r].held = {Taken(e) : e \in Deliverable(S)}]
    /\ UNCHANGED <<changes, deliveries, received, access, endpoint, lock, failures>>

\* An attempt that fails is made again, later each time, until the next one
\* would come too late.
Delay(attempt) == Min({FirstRetry * 2 ^ (attempt - 1), MaxRetry})
Wait(r, taken) == Max({0, Delay(taken.attempt) - runs[r].age})
Expired(r, taken) ==
    events[taken.event].age - runs[r].age + Delay(taken.attempt) > Window
Failed(r, taken) == IF Expired(r, taken) THEN "failed" ELSE "pending"

Authorized(e) == events[e].named \subseteq access[e[2]]

\* The run goes on to record how an attempt ended.
Ended(r, taken, status, code) ==
    runs' = [runs EXCEPT ![r].pc = "log",
                         ![r].work = {[taken |-> taken, status |-> status, code |-> code]}]

\* hasCurrentReadAccess, which may fail.
CheckAccess(r) ==
    /\ runs[r].pc = "deliver"
    /\ \E taken \in runs[r].held :
         \/ Ended(r, taken, Failed(r, taken), "error")
         \/ /\ ~ Authorized(taken.event)
            /\ Ended(r, taken, "suppressed", "error")
         \/ /\ Authorized(taken.event)
            /\ runs' = [runs EXCEPT ![r].pc = "send",
                            ![r].work = {[taken |-> taken, status |-> "pending", code |-> "error"]}]
    /\ UNCHANGED <<changes, events, deliveries, received, access, endpoint, lock, failures>>

\* The endpoint may answer, answer too late or badly, or not be reached.
Send(r) ==
    /\ runs[r].pc = "send"
    /\ \E w \in runs[r].work :
         LET arrival == [event |-> w.taken.event, to |-> w.taken.to] IN
           \/ /\ received' = received \cup {arrival}
              /\ Ended(r, w.taken, "delivered", "ok")
           \/ /\ received' \in {received, received \cup {arrival}}
              /\ Ended(r, w.taken, Failed(r, w.taken), "error")
    /\ UNCHANGED <<changes, events, deliveries, access, endpoint, lock, failures>>

Logged(e, attempt) == \E d \in deliveries : d.event = e /\ d.attempt = attempt

\* recordAttempt, its first statement: ON CONFLICT (event_id, attempt) DO NOTHING.
LogDelivery(r) ==
    /\ runs[r].pc = "log"
    /\ \E w \in runs[r].work :
         deliveries' = IF Logged(w.taken.event, w.taken.attempt) THEN deliveries
                       ELSE deliveries \cup {[event |-> w.taken.event,
                                              attempt |-> w.taken.attempt, code |-> w.code]}
    /\ runs' = [runs EXCEPT ![r].pc = "record"]
    /\ UNCHANGED <<changes, events, received, access, endpoint, lock, failures>>

\* Its second, which asks nothing of the event as it is now.
Outcome(r, w) ==
    [events[w.taken.event] EXCEPT
        !.attempts = w.taken.attempt, !.status = w.status,
        !.wait = IF w.status = "pending" THEN Wait(r, w.taken) ELSE 0,
        !.age = IF w.status \in FinalStatuses THEN 0 ELSE @]

RecordOutcome(r) ==
    /\ runs[r].pc = "record"
    /\ \E w \in runs[r].work :
         /\ events' = [events EXCEPT ![w.taken.event] = Outcome(r, w)]
         /\ runs' = [runs EXCEPT ![r].pc = "deliver", ![r].work = {}, ![r].held = @ \ {w.taken}]
    /\ UNCHANGED <<changes, deliveries, received, access, endpoint, lock, failures>>

\* The lock is deleted, whoever holds it by now, or left to expire if Redis is
\* not reached.
FinishRun(r) ==
    /\ runs[r].pc = "deliver"
    /\ runs[r].held = {}
    /\ lock' \in {lock, 0}
    /\ runs' = [runs EXCEPT ![r] = Idle]
    /\ UNCHANGED <<changes, events, deliveries, received, access, endpoint, failures>>

\* A query that fails ends the run, which still deletes the lock; a run that is
\* killed leaves it to expire.
BreakRun(r) ==
    /\ runs[r] # Idle
    /\ failures < MaxFailures
    /\ failures' = failures + 1
    /\ runs' = [runs EXCEPT ![r] = Idle]
    /\ lock' \in {lock, 0}
    /\ UNCHANGED <<changes, events, deliveries, received, access, endpoint>>
-----------------------------------------------------------------------------
RunStep(r) ==
    \/ ClaimChanges(r)
    \/ ReadReaders(r)
    \/ InsertEvent(r)
    \/ CompleteChange(r)
    \/ ClaimEvents(r)
    \/ CheckAccess(r)
    \/ Send(r)
    \/ LogDelivery(r)
    \/ RecordOutcome(r)
    \/ FinishRun(r)

Next ==
    \/ \E c \in Changes : RecordChange(c)
    \/ \E t \in Tenants, parties \in SUBSET Parties : ChangeAccess(t, parties)
    \/ \E t \in Tenants : RemoveEndpoint(t) \/ SetEndpoint(t)
    \/ \E r \in Runs : StartRun(r) \/ RunStep(r) \/ BreakRun(r)
    \/ Tick

Spec == Init /\ [][Next]_vars
-----------------------------------------------------------------------------
Event == [status : FinalStatuses \cup {"none", "pending", "suppressed"}, named : SUBSET Parties,
          attempts : Nat, wait : Nat, age : Nat, recordedFor : Nat]
Change == [status : {"none", "pending", "done"}, lease : Nat]
Reader == [tenant : Tenants, named : SUBSET Parties]
Held(r) == IF runs[r] = Idle THEN {} ELSE {taken.event : taken \in runs[r].held}
Fanning(r) == IF runs[r] = Idle THEN {} ELSE runs[r].changes

\* claimChanges, claimDueEvents: although the lock may lapse under a run, no
\* two runs work on the same change or send the same event.
NothingHeldTwice ==
    \A r, s \in Runs : r # s => /\ Held(r) \cap Held(s) = {}
                                /\ Fanning(r) \cap Fanning(s) = {}

\* fanOutChanges: whichever run dies where, once a change is done every tenant
\* that could read about it all along has its event.
NoReaderMissed ==
    \A c \in Changes, t \in Tenants \ Fickle :
        changes[c].status = "done" /\ access[t] \cap Touches[c] # {}
            => events[<<c, t>>].status # "none"

\* recordAttempt, which asks nothing of the event it writes: no run that is
\* late brings back an event that was settled, or counts its attempts back, so
\* that nothing delivered is sent again.
OutcomesAreFinal ==
    [][\A e \in EventIds :
          /\ events[e].status \in FinalStatuses => events'[e].status = events[e].status
          /\ events'[e].attempts >= events[e].attempts]_vars
-----------------------------------------------------------------------------
(* What the documentation says and the program does not do.                *)

\* "Queued events go with the endpoint so a later endpoint never receives
\* stale ones": an endpoint only receives what was recorded while it was set.
NoStaleEventReceived ==
    \A arrival \in received : arrival.to = events[arrival.event].recordedFor

-----------------------------------------------------------------------------
(* The pipeline runs again and again, after every API request and from the *)
(* cron job; a run that is not broken off goes on to its end; time passes. *)
Fairness ==
    /\ WF_vars(\E r \in Runs : StartRun(r))
    /\ \A r \in Runs : WF_vars(RunStep(r))
    /\ WF_vars(Tick)

FairSpec == Spec /\ Fairness

\* claimChanges: a change that is recorded is fanned out in the end, although
\* the run that claimed it died.
ChangesAreFannedOut ==
    \A c \in Changes : changes[c].status = "pending" ~> changes[c].status = "done"

\* deliverDue: no event stays queued for ever, whether its endpoint answers or
\* not, and although the run that was to send it died: "Pending events retry with
\* backoff for three days, then are marked `failed`" (operations.md).  An event
\* whose endpoint is removed may.
EventsAreSettled ==
    \A e \in EventIds : events[e].status = "pending"
                           ~> \/ events[e].status \in FinalStatuses \cup {"suppressed"}
                              \/ ~ endpoint[e[2]].live

=============================================================================
