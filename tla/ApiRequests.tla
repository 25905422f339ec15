------------------------------ MODULE ApiRequests -----------------------------
(***************************************************************************)
(* Requests to the developer API: the handlers behind its operations, and  *)
(* the Idempotency-Key that lets a client send a POST again when it did    *)
(* not learn what became of the first.  The client here asks for one       *)
(* operation, under one key or none; its requests run at once, each is a   *)
(* process, and any of them may end with its outcome unknown.              *)
(***************************************************************************)
EXTENDS Naturals

CONSTANTS
    Requests,       \* requests of the client
    Operations,     \* the operations it may ask for
    Lease,          \* IDEMPOTENCY_LEASE_SECONDS, in ticks
    MaxFailures     \* bound on the requests that die or outlive their lease

ASSUME RequestsAssumption ==
    /\ Lease \in Nat \ {0} /\ MaxFailures \in Nat
    /\ Requests \cap {"nobody", "nothing", "another"} = {}

VARIABLES
    operation,      \* what the client asks for
    key,            \* the row of api_idempotency
    effect,         \* the request under the key whose doing is stored, or another
    runs,           \* how often the handler has run under the key, up to twice
    requests,
    reply,          \* the reply just given
    settles,        \* whether it says what became of the request under the key
    failures

vars == <<operation, key, effect, runs, requests, reply, settles, failures>>

-----------------------------------------------------------------------------
\* The handlers: the scope a party must have granted, the status of success,
\* those of refusals, what is stored, the status of doing it again (0 when
\* that is the same as doing it once), and what a key is recovered by.
Handler(method, scope, ok, refusals, stores, again, recovery) ==
    [method |-> method, ok |-> ok, stores |-> stores, again |-> again, recovery |-> recovery,
     refusals |-> refusals \cup IF scope = "none" THEN {} ELSE {404, 422}]

Reading(scope, refusals) == Handler("GET", scope, 200, refusals, "nothing", 0, "none")

\* A permission revoked twice is reported as a conflict.
RevokedTwice == Handler("DELETE", "none", 204, {404}, "once", 409, "none")

Revoking == Handler("DELETE", "none", 204, {404}, "once", 404, "none")

CertificateHandlers(o) ==
    CASE o = "findLoop" -> Handler("POST", "propose", 200, {409, 429}, "while open", 0, "effect")
      [] o = "getCertificate" -> Reading("read", {429})
      [] o = "declineCertificate" -> Handler("DELETE", "deliverSignatures", 204, {429}, "once", 0, "none")
      [] o = "signCertificate" -> Handler("POST", "deliverSignatures", 200, {429}, "once", 0, "effect")
      [] o = "applyTransaction" -> Reading("read", {409, 429})
      [] o = "reportTransaction" -> Handler("POST", "read", 200, {429}, "once", 0, "effect")
      [] o = "exportCertificate" -> Reading("read", {429})

ObligationHandlers(o) ==
    CASE o = "createObligationProposal" -> Handler("POST", "propose", 201, {429}, "once", 409, "effect")
      [] o = "createObligationProposals" -> Handler("POST", "propose", 200, {}, "each", 0, "none")
      [] o = "getObligationProposal" -> Reading("read", {429})
      [] o = "acceptObligationProposal" -> Handler("POST", "deliverSignatures", 200, {429}, "once", 0, "effect")
      [] o = "withdrawObligationProposal" -> Handler("DELETE", "propose", 204, {429}, "once", 0, "none")
      [] o = "listPartyObligations" -> Reading("read", {429})
      [] o = "disputeObligation" -> Handler("POST", "propose", 200, {429}, "each", 0, "none")
      [] o = "replyToObligationDispute" -> Handler("POST", "propose", 200, {429}, "each", 0, "none")
      [] o = "withdrawObligationDispute" -> Handler("DELETE", "propose", 204, {429}, "once", 422, "none")
      [] o = "getPartyRules" -> Reading("read", {429})
      [] o = "setPartyRules" -> Handler("POST", "propose", 200, {429}, "each", 0, "none")
      [] OTHER -> CertificateHandlers(o)

TenantHandlers(o) ==
    CASE o = "getUsage" -> Reading("none", {422, 503})
      [] o = "getWebhookEndpoint" -> Reading("none", {})
      [] o = "setWebhookEndpoint" -> Handler("POST", "none", 200, {422}, "each", 0, "none")
      [] o = "rollWebhookSecret" -> Handler("POST", "none", 200, {422}, "each", 0, "none")
      [] o = "deleteWebhookEndpoint" -> Handler("DELETE", "none", 204, {422}, "once", 422, "none")
      [] o = "listEvents" -> Reading("none", {422, 503})
      [] o = "testWebhook" -> Handler("POST", "none", 202, {422}, "each", 0, "none")
      [] OTHER -> ObligationHandlers(o)

PermissionHandlers(o) ==
    CASE o = "getPermissionTypedData" -> Reading("none", {422})
      [] o = "createPermission" -> Handler("POST", "none", 201, {422}, "once", 409, "lease")
      [] o = "revokePermission" -> Revoking
      [] o = "listPermissions" -> Reading("none", {422})
      [] o = "getTenant" -> Reading("none", {404})
      [] OTHER -> TenantHandlers(o)

OperationIds ==
    {"getPermissionTypedData", "createPermission", "revokePermission", "listPermissions",
     "getTenant", "getUsage", "getWebhookEndpoint", "setWebhookEndpoint",
     "rollWebhookSecret", "deleteWebhookEndpoint", "listEvents", "testWebhook",
     "createObligationProposal", "createObligationProposals", "getObligationProposal",
     "acceptObligationProposal", "withdrawObligationProposal", "listPartyObligations",
     "disputeObligation", "replyToObligationDispute", "withdrawObligationDispute",
     "getPartyRules", "setPartyRules", "findLoop", "getCertificate", "declineCertificate",
     "signCertificate", "applyTransaction", "reportTransaction", "exportCertificate"}

Handlers == [o \in OperationIds |-> PermissionHandlers(o)]

ASSUME OperationsAssumption == Operations \subseteq OperationIds

\* The statuses that the OpenAPI document has for each operation.
authErrors == {401, 429, 503}
jsonErrors == authErrors \cup {400, 404, 409, 422}

WebhookPaths(o) ==
    CASE o = "listEvents" -> {200, 422, 503} \cup authErrors
      [] o = "testWebhook" -> {202} \cup jsonErrors
      [] o = "getWebhookEndpoint" -> {200} \cup authErrors
      [] o \in {"setWebhookEndpoint", "rollWebhookSecret"} -> {200} \cup jsonErrors
      [] o = "deleteWebhookEndpoint" -> {204, 422} \cup authErrors

CertificatePaths(o) ==
    CASE o \in {"getPartyRules", "setPartyRules", "findLoop", "getCertificate", "signCertificate",
                "applyTransaction", "reportTransaction", "exportCertificate"} ->
             {200} \cup jsonErrors
      [] o = "declineCertificate" -> {204, 404, 409, 422} \cup authErrors
      [] OTHER -> WebhookPaths(o)

ObligationPaths(o) ==
    CASE o = "createObligationProposal" -> {201} \cup jsonErrors
      [] o = "withdrawObligationDispute" -> {204, 404, 422} \cup authErrors
      [] o \in {"disputeObligation", "replyToObligationDispute", "createObligationProposals",
                "getObligationProposal", "acceptObligationProposal", "listPartyObligations"} ->
             {200} \cup jsonErrors
      [] o = "withdrawObligationProposal" -> {204} \cup jsonErrors
      [] OTHER -> CertificatePaths(o)

TenantPaths(o) ==
    CASE o = "getTenant" -> {200, 404} \cup authErrors
      [] o \in {"getUsage", "listPermissions"} -> {200, 422} \cup authErrors
      [] o = "getPermissionTypedData" -> {200} \cup jsonErrors
      [] o = "createPermission" -> {201} \cup jsonErrors
      [] o = "revokePermission" -> {204, 404} \cup authErrors
      [] OTHER -> ObligationPaths(o)

\* A key for the other network is named once for all operations.  No operation
\* has a response 500.
Documented(o) == {403} \cup TenantPaths(o)

-----------------------------------------------------------------------------
handler == Handlers[operation]

NoReply == [status |-> 0, of |-> "nothing"]
Saying(status, of) == [status |-> status, of |-> of]
Success(said) == said.status \in 200 .. 299

NoKey == [status |-> "none", body |-> "none", lease |-> "nobody", left |-> 0, stored |-> NoReply]
NoRequest == [pc |-> "idle", uses |-> "none", result |-> NoReply]

Init ==
    /\ operation \in Operations
    /\ key = NoKey
    /\ effect = "nothing"
    /\ runs = 0
    /\ requests = [r \in Requests |-> NoRequest]
    /\ reply = NoReply
    /\ settles = FALSE
    /\ failures = 0

Silent == reply' = NoReply /\ settles' = FALSE
Goto(r, pc) == requests' = [requests EXCEPT ![r].pc = pc] /\ Silent
Conclude(r, said) ==
    /\ requests' = [requests EXCEPT ![r].pc = "complete", ![r].result = said]
    /\ Silent

\* A reply that says nothing of what became of the request.
Reply(r, status) ==
    /\ requests' = [requests EXCEPT ![r] = NoRequest]
    /\ reply' = Saying(status, "nothing") /\ settles' = FALSE
\* A reply that does.
Tell(r, said) ==
    /\ requests' = [requests EXCEPT ![r] = NoRequest]
    /\ reply' = said
    /\ settles' = (requests[r].uses # "none")

\* The client sends a request, without a key, with the key, or with the key
\* and another body.
Send(r) ==
    /\ requests[r].pc = "idle"
    /\ \E uses \in {"none"} \cup IF handler.method = "POST" THEN {"this body", "another"} ELSE {} :
         requests' = [requests EXCEPT ![r].pc = "enter", ![r].uses = uses]
    /\ Silent
    /\ UNCHANGED <<operation, key, effect, runs, failures>>

\* No key or one of the other network, the tenant's budget, a body that is not
\* JSON; or a limiter that cannot be reached, which a request under a key reads
\* as a failure like any other.
Unmetered(r) == IF requests[r].uses = "none" THEN 503 ELSE 500
Refuse(r) ==
    /\ requests[r].pc = "enter"
    /\ \E status \in {401, 403, 429, Unmetered(r)} \cup IF handler.method = "POST" THEN {400} ELSE {} :
         Reply(r, status)
    /\ UNCHANGED <<operation, key, effect, runs, failures>>

\* A request whose key is there already goes on as if it were new.
EnterAnyway(r) ==
    /\ requests[r].pc = "enter"
    /\ IF requests[r].uses # "none" /\ key.status = "none"
       THEN key' = [key EXCEPT !.status = "pending", !.body = requests[r].uses,
                               !.lease = r, !.left = Lease]
       ELSE UNCHANGED key
    /\ Goto(r, "run")
    /\ UNCHANGED <<operation, effect, runs, failures>>

\* claimIdempotency inserts the row, unless one is there.
Enter(r) ==
    /\ requests[r].pc = "enter"
    /\ IF requests[r].uses = "none" THEN Goto(r, "run") /\ UNCHANGED key
       ELSE IF key.status # "none" THEN Goto(r, "look") /\ UNCHANGED key
       ELSE /\ key' = [key EXCEPT !.status = "pending", !.body = requests[r].uses,
                                  !.lease = r, !.left = Lease]
            /\ Goto(r, "run")
    /\ UNCHANGED <<operation, effect, runs, failures>>

\* The row is another request's, has a response, or is still pending.
Look(r) ==
    /\ requests[r].pc = "look"
    /\ IF key.body # requests[r].uses THEN Reply(r, 409)
       ELSE IF key.status = "done" THEN Tell(r, key.stored)
       ELSE CASE handler.recovery = "lease" -> Goto(r, "take over")
              [] handler.recovery = "effect" -> Goto(r, "recover")
              [] OTHER -> Reply(r, 409)
    /\ UNCHANGED <<operation, key, effect, runs, failures>>

\* A reservation never lapses.
HeldForGood == FALSE

Lapsed == key.left = 0

TakeOver(r) ==
    /\ requests[r].pc = "take over"
    /\ IF key.status = "pending" /\ Lapsed
       THEN key' = [key EXCEPT !.lease = r, !.left = Lease] /\ Goto(r, "run")
       ELSE UNCHANGED key /\ Goto(r, "look again")
    /\ UNCHANGED <<operation, effect, runs, failures>>

LookAgain(r) ==
    /\ requests[r].pc = "look again"
    /\ IF key.status = "done" THEN Tell(r, key.stored) ELSE Reply(r, 409)
    /\ UNCHANGED <<operation, key, effect, runs, failures>>

\* recoverFromEffect takes whatever it finds for an answer, nothing included.
AnyEffect == TRUE

FoundEffect == effect # "nothing"

\* The lookup finds the effect, or does not, or is refused itself.
Recover(r) ==
    /\ requests[r].pc = "recover"
    /\ \/ /\ FoundEffect
          /\ requests' = [requests EXCEPT ![r].pc = "found", ![r].result = Saying(handler.ok, effect)]
          /\ Silent
       \/ Reply(r, 409)
    /\ UNCHANGED <<operation, key, effect, runs, failures>>

\* The lookup's answer replaces what is stored.
OverwriteFromEffect(r) ==
    /\ requests[r].pc = "found"
    /\ key' = [key EXCEPT !.status = "done", !.stored = requests[r].result]
    /\ Tell(r, requests[r].result)
    /\ UNCHANGED <<operation, effect, runs, failures>>

CompleteFromEffect(r) ==
    /\ requests[r].pc = "found"
    /\ key' = IF key.status = "pending"
              THEN [key EXCEPT !.status = "done", !.lease = "nobody", !.left = 0,
                               !.stored = requests[r].result]
              ELSE key
    /\ Tell(r, requests[r].result)
    /\ UNCHANGED <<operation, effect, runs, failures>>

Ran(r) == runs' = IF requests[r].uses = "none" \/ runs = 2 THEN runs ELSE runs + 1
\* Certificates that a search finds are not told apart.
As(r) == IF requests[r].uses = "none" \/ handler.stores = "while open" THEN "another" ELSE r

\* The handler, or the service it calls, refuses.
Reject(r) ==
    /\ requests[r].pc = "run"
    /\ \E status \in handler.refusals : Conclude(r, Saying(status, "nothing"))
    /\ Ran(r)
    /\ UNCHANGED <<operation, key, effect, failures>>

\* A handler that reads, that does what can be done again and again, or that
\* finds done what it was to do; a search that finds no loop.
Answer(r) ==
    /\ requests[r].pc = "run"
    /\ \/ handler.stores # "once" /\ Conclude(r, Saying(handler.ok, "nothing"))
       \/ /\ handler.stores = "once" /\ effect # "nothing"
          /\ Conclude(r, IF handler.again = 0 THEN Saying(handler.ok, effect)
                         ELSE Saying(handler.again, "nothing"))
    /\ Ran(r)
    /\ UNCHANGED <<operation, key, effect, failures>>

UnderKey(r) == operation = "createPermission" /\ requests[r].uses # "none"

\* What it was to do is done.  A proposal is then tagged, and read again for
\* the reply.
Do(r) ==
    /\ requests[r].pc = "run"
    /\ handler.stores \in {"once", "while open"} /\ effect = "nothing" /\ ~UnderKey(r)
    /\ effect' = As(r)
    /\ IF operation = "createObligationProposal"
       THEN requests' = [requests EXCEPT ![r].pc = "read back", ![r].result = Saying(handler.ok, As(r))]
            /\ Silent
       ELSE Conclude(r, Saying(handler.ok, As(r)))
    /\ Ran(r)
    /\ UNCHANGED <<operation, key, failures>>

\* The permission is stored first, its response when the request completes.
StoreBeforeCompleting(r) ==
    /\ requests[r].pc = "run" /\ UnderKey(r)
    /\ key.status = "pending" /\ key.lease = r /\ effect = "nothing"
    /\ effect' = r
    /\ Conclude(r, Saying(handler.ok, r))
    /\ Ran(r)
    /\ UNCHANGED <<operation, key, failures>>

\* savePermission stores the permission and the response in one statement.
StorePermission(r) ==
    /\ requests[r].pc = "run" /\ UnderKey(r)
    /\ key.status = "pending" /\ key.lease = r /\ effect = "nothing"
    /\ effect' = r
    /\ key' = [key EXCEPT !.status = "done", !.lease = "nobody", !.left = 0,
                          !.stored = Saying(handler.ok, r)]
    /\ Conclude(r, Saying(handler.ok, r))
    /\ Ran(r)
    /\ UNCHANGED <<operation, failures>>

\* The reservation is another's by now: nothing is stored, which is taken
\* for a nonce that is.
LostReservation(r) ==
    /\ requests[r].pc = "run" /\ UnderKey(r)
    /\ key.status # "pending" \/ key.lease # r
    /\ Conclude(r, Saying(handler.again, "nothing"))
    /\ Ran(r)
    /\ UNCHANGED <<operation, key, effect, failures>>

\* The party's budget for reading may be used up.
ReadBack(r) ==
    /\ requests[r].pc = "read back"
    /\ \E said \in {requests[r].result, Saying(429, "nothing")} : Conclude(r, said)
    /\ UNCHANGED <<operation, key, effect, runs, failures>>

\* The response is stored, and the lease is still held.
CompleteAndHold(r) ==
    /\ requests[r].pc = "complete"
    /\ key' = IF key.status = "pending" /\ key.lease = r /\ requests[r].uses # "none"
              THEN [key EXCEPT !.status = "done", !.stored = requests[r].result]
              ELSE key
    /\ Tell(r, requests[r].result)
    /\ UNCHANGED <<operation, effect, runs, failures>>

Complete(r) ==
    /\ requests[r].pc = "complete"
    /\ key' = IF key.status = "pending" /\ key.lease = r /\ requests[r].uses # "none"
              THEN [key EXCEPT !.status = "done", !.lease = "nobody", !.left = 0,
                               !.stored = requests[r].result]
              ELSE key
    /\ Tell(r, requests[r].result)
    /\ UNCHANGED <<operation, effect, runs, failures>>

\* The process dies or a dependency fails: the key stays as it is.
Fail(r) ==
    /\ failures < MaxFailures
    /\ requests[r].pc # "idle"
    /\ Reply(r, 500)
    /\ failures' = failures + 1
    /\ UNCHANGED <<operation, key, effect, runs>>

\* The same is done in the app, or under another key; a certificate that was
\* found is over.
DoneElsewhere ==
    /\ handler.stores \in {"once", "while open"} /\ effect = "nothing"
    /\ effect' = "another"
    /\ Silent
    /\ UNCHANGED <<operation, key, runs, requests, failures>>
CertificateOver ==
    /\ handler.stores = "while open" /\ effect # "nothing"
    /\ effect' = "nothing"
    /\ Silent
    /\ UNCHANGED <<operation, key, runs, requests, failures>>

\* A lease runs while the request that holds it works, or after it died.
Holding(r) ==
    /\ key.lease = r /\ requests[r].uses # "none"
    /\ requests[r].pc \in {"run", "read back", "complete"}
Tick ==
    /\ key.left > 0
    /\ key' = [key EXCEPT !.left = @ - 1]
    /\ IF \E r \in Requests : Holding(r)
       THEN failures < MaxFailures /\ failures' = failures + 1
       ELSE UNCHANGED failures
    /\ Silent
    /\ UNCHANGED <<operation, effect, runs, requests>>

Progress(r) ==
    \/ Look(r) \/ TakeOver(r) \/ LookAgain(r) \/ CompleteFromEffect(r)
    \/ Reject(r) \/ Answer(r) \/ Do(r) \/ StorePermission(r) \/ LostReservation(r)
    \/ ReadBack(r) \/ Complete(r)

Next ==
    \/ \E r \in Requests : Send(r) \/ Refuse(r) \/ Enter(r) \/ Recover(r) \/ Progress(r) \/ Fail(r)
    \/ DoneElsewhere \/ CertificateOver \/ Tick

\* Every request ends.  The client keeps sending with the key, as it is told
\* to; not every request finds its budget used up; what is stored is found in
\* the end; the lease of a request that died lapses.
KeepsSending == \E r \in Requests : Send(r) /\ requests'[r].uses = "this body"
EntersAtLast == \E r \in Requests : Enter(r) /\ requests[r].uses = "this body"
FindsAtLast == \E r \in Requests : Recover(r) /\ requests'[r].pc = "found"
Fairness ==
    /\ WF_vars(Tick)
    /\ \A r \in Requests : WF_vars(Progress(r) \/ Enter(r) \/ Refuse(r) \/ Recover(r))
    /\ SF_vars(KeepsSending) /\ SF_vars(EntersAtLast) /\ SF_vars(FindsAtLast)

Spec == Init /\ [][Next]_vars
FairSpec == Spec /\ Fairness

-----------------------------------------------------------------------------
Sayings == [status : {0, 200, 201, 202, 204, 400, 401, 403, 404, 409, 422, 429, 500, 503},
            of : Requests \cup {"nothing", "another"}]

Key == [status : {"none", "pending", "done"}, body : {"none", "this body", "another"},
        lease : Requests \cup {"nobody"}, left : 0 .. Lease, stored : Sayings]
Request == [pc : {"idle", "enter", "look", "take over", "look again", "recover", "found", "run",
                  "read back", "complete"},
            uses : {"none", "this body", "another"}, result : Sayings]

TypeOK ==
    /\ operation \in Operations
    /\ key \in Key
    /\ key.lease # "nobody" <=> key.status = "pending"
    /\ effect \in Requests \cup {"nothing", "another"}
    /\ runs \in 0 .. 2
    /\ requests \in [Requests -> Request]
    /\ reply \in Sayings
    /\ settles \in BOOLEAN
    /\ failures \in 0 .. MaxFailures

\* However a handler, the key and the limiter cut each other short, what a
\* request comes to, what is kept for its key and what the client reads are
\* statuses that the OpenAPI document has for the operation, and for every
\* operation whose handler does the same.  The one that it has for none is the
\* 500 of a failure: a client may read it, but no request comes to it, it is
\* kept for no key, and it settles nothing.
Outcomes ==
    {requests[r].result : r \in {q \in Requests : requests[q].pc \in {"found", "read back", "complete"}}}
        \cup IF key.status = "done" THEN {key.stored} ELSE {}
AnswersDocumented ==
    \A o \in DOMAIN Handlers : Handlers[o] = handler =>
        /\ \A said \in Outcomes : said.status \in Documented(o)
        /\ reply.status \in Documented(o) \cup {0} \/ (reply.status = 500 /\ ~ settles)

\* A request under a key is run once, concurrent and repeated sendings and
\* lost answers included: only a permission, which is stored with its
\* response, may be run by a second request.
RunOnce ==
    handler.recovery # "lease" => runs <= 1

\* A permission stored under a key is the one the key's response names, at
\* every moment: a request that died, or lost its lease to another, leaves
\* neither without the other.
PermissionWithItsResponse ==
    operation = "createPermission" =>
        /\ effect \in Requests => key.status = "done" /\ key.stored = Saying(201, effect)
        /\ key.status = "done" /\ Success(key.stored) => key.stored.of = effect

\* A response that says it is done is of something that is stored, whoever
\* found it and however old the request it answers.
SuccessIsStored ==
    handler.stores = "once" /\ settles /\ Success(reply) => effect = reply.of

\* The response stored for a key never changes: of two requests that both
\* come to an answer the first to store it wins.
KeySettledOnce == [][key.status = "done" => key' = key]_vars

\* A client that keeps sending with its key learns what became of the request
\* when that was a permission, or something that is stored and can be looked
\* up, although the request that did it died.
KeysAreSettled ==
    /\ key.status = "pending" /\ key.body = "this body"
    /\ \/ handler.recovery = "lease"
       \/ handler.recovery = "effect" /\ handler.stores = "once" /\ effect # "nothing"
    ~> key.status = "done"

=============================================================================
