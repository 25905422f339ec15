----------------------------- MODULE RequestsProofs ----------------------------
(***************************************************************************)
(* Theorems about ApiRequests, for every operation of the API, any number  *)
(* of requests under a key or without one, and any lease.                  *)
(***************************************************************************)
EXTENDS ApiRequests, TLAPS

-----------------------------------------------------------------------------
\* The statuses a request may come to, and those the client may read: these
\* too, that of a failure, and 0 when there is no reply.
Statuses(h) == {h.ok, 401, 403, 429, 503} \cup h.refusals \cup ({h.again} \ {0})
                 \cup IF h.method = "POST" THEN {400, 409} ELSE {}
Answers(h) == Statuses(h) \cup {0, 500}

\* What the proofs use of the handlers, which are looked at only here.
HandlerOK(o, h) ==
    /\ h.ok \in {200, 201, 202, 204}
    /\ h.again \in {0, 404, 409, 422}
    /\ h.refusals \subseteq {404, 409, 422, 429, 503}
    /\ h.recovery = "lease" <=> o = "createPermission"
    /\ o = "createPermission" => h.ok = 201 /\ h.again = 409 /\ h.stores = "once"
    /\ Statuses(h) \subseteq Documented(o)

LEMMA HandlersOK == \A o \in OperationIds : HandlerOK(o, Handlers[o])
<1>. SUFFICES \A o \in OperationIds : HandlerOK(o, PermissionHandlers(o))
  BY DEF Handlers
<1>. USE DEF HandlerOK, Statuses, Reading, Handler, Documented, authErrors, jsonErrors
<1>1. \A o \in {"getPermissionTypedData", "createPermission", "revokePermission",
               "listPermissions", "getTenant"} : HandlerOK(o, PermissionHandlers(o))
  BY DEF PermissionHandlers, Revoking, TenantPaths
<1>2. \A o \in {"getUsage", "getWebhookEndpoint", "setWebhookEndpoint", "rollWebhookSecret",
               "deleteWebhookEndpoint", "listEvents", "testWebhook"} :
         HandlerOK(o, TenantHandlers(o))
  BY DEF TenantHandlers, TenantPaths, ObligationPaths, CertificatePaths, WebhookPaths
<1>3. \A o \in {"createObligationProposal", "createObligationProposals", "getObligationProposal",
               "acceptObligationProposal", "withdrawObligationProposal", "listPartyObligations",
               "disputeObligation", "replyToObligationDispute", "withdrawObligationDispute",
               "getPartyRules", "setPartyRules"} :
         HandlerOK(o, ObligationHandlers(o))
  <2>1. HandlerOK("createObligationProposal",
                  Handler("POST", "propose", 201, {429}, "once", 409, "effect"))
    BY DEF TenantPaths, ObligationPaths
  <2>2. HandlerOK("createObligationProposals",
                  Handler("POST", "propose", 200, {}, "each", 0, "none"))
    BY DEF TenantPaths, ObligationPaths
  <2>3. /\ HandlerOK("getObligationProposal", Reading("read", {429}))
        /\ HandlerOK("listPartyObligations", Reading("read", {429}))
    BY DEF TenantPaths, ObligationPaths
  <2>4. HandlerOK("acceptObligationProposal",
                  Handler("POST", "deliverSignatures", 200, {429}, "once", 0, "effect"))
    BY DEF TenantPaths, ObligationPaths
  <2>5. HandlerOK("withdrawObligationProposal",
                  Handler("DELETE", "propose", 204, {429}, "once", 0, "none"))
    BY DEF TenantPaths, ObligationPaths
  <2>6. /\ HandlerOK("disputeObligation",
                     Handler("POST", "propose", 200, {429}, "each", 0, "none"))
        /\ HandlerOK("replyToObligationDispute",
                     Handler("POST", "propose", 200, {429}, "each", 0, "none"))
    BY DEF TenantPaths, ObligationPaths
  <2>7. HandlerOK("withdrawObligationDispute",
                  Handler("DELETE", "propose", 204, {429}, "once", 422, "none"))
    BY DEF TenantPaths, ObligationPaths
  <2>8. HandlerOK("getPartyRules", Reading("read", {429}))
    BY DEF TenantPaths, ObligationPaths, CertificatePaths
  <2>9. HandlerOK("setPartyRules", Handler("POST", "propose", 200, {429}, "each", 0, "none"))
    BY DEF TenantPaths, ObligationPaths, CertificatePaths
  <2>. HIDE DEF HandlerOK, Handler, Reading
  <2>. QED
    BY <2>1, <2>2, <2>3, <2>4, <2>5, <2>6, <2>7, <2>8, <2>9 DEF ObligationHandlers
<1>4. \A o \in {"findLoop", "getCertificate", "declineCertificate", "signCertificate",
               "applyTransaction", "reportTransaction", "exportCertificate"} :
         HandlerOK(o, CertificateHandlers(o))
  BY DEF CertificateHandlers, TenantPaths, ObligationPaths, CertificatePaths
<1>5. \A o \in OperationIds :
         \/ o \in {"getPermissionTypedData", "createPermission", "revokePermission",
                  "listPermissions", "getTenant"}
         \/ PermissionHandlers(o) = TenantHandlers(o)
  BY DEF PermissionHandlers, OperationIds
<1>6. \A o \in OperationIds :
         \/ o \in {"getUsage", "getWebhookEndpoint", "setWebhookEndpoint", "rollWebhookSecret",
                  "deleteWebhookEndpoint", "listEvents", "testWebhook"}
         \/ TenantHandlers(o) = ObligationHandlers(o)
  BY DEF TenantHandlers, OperationIds
<1>7. \A o \in OperationIds :
         \/ o \in {"createObligationProposal", "createObligationProposals",
                  "getObligationProposal", "acceptObligationProposal",
                  "withdrawObligationProposal", "listPartyObligations",
                  "disputeObligation", "replyToObligationDispute", "withdrawObligationDispute",
                  "getPartyRules", "setPartyRules"}
         \/ ObligationHandlers(o) = CertificateHandlers(o)
  BY DEF ObligationHandlers, OperationIds
<1>. QED
  BY <1>1, <1>2, <1>3, <1>4, <1>5, <1>6, <1>7 DEF OperationIds

\* The same of the handler of the operation the client asks for.
LEMMA HandlerFacts ==
    ASSUME operation \in Operations
    PROVE  HandlerOK(operation, handler)
BY HandlersOK, OperationsAssumption DEF handler
-----------------------------------------------------------------------------
(***************************************************************************)
(* What holds of a request, of the key and of the reply at any time.  A    *)
(* success that is about to be told or stored is of what is stored, a      *)
(* request runs under a key that is there, and under one that is not to be *)
(* taken over it is the only one and the first.                            *)
(***************************************************************************)
Sound(said) ==
    /\ said.status \in Statuses(handler)
    /\ handler.stores = "once" /\ Success(said) => effect # "nothing" /\ said.of = effect

Running(r) == requests[r].pc = "run" /\ requests[r].uses # "none"

RequestKept(r) ==
    /\ requests[r].uses # "none" => handler.method = "POST"
    /\ requests[r].pc \in {"look", "take over", "look again", "recover", "found"}
          => requests[r].uses # "none"
    /\ requests[r].pc \notin {"idle", "enter"} /\ requests[r].uses # "none"
          => key.status # "none"
    /\ requests[r].pc \in {"take over", "look again"} => handler.recovery = "lease"
    /\ requests[r].pc \in {"recover", "found"} => handler.recovery = "effect"
    /\ requests[r].pc \in {"found", "read back", "complete"} => Sound(requests[r].result)
    /\ requests[r].pc = "read back" => operation # "createPermission"
    /\ Running(r) /\ handler.recovery # "lease" => runs = 0
    /\ requests[r].pc = "complete" /\ requests[r].uses # "none" /\ Success(requests[r].result)
          => (operation = "createPermission" => key.status = "done")

KeyKept ==
    /\ key.status = "none" => runs = 0
    /\ key.status = "done" => key.left = 0 /\ key.lease = "nobody" /\ Sound(key.stored)
    /\ operation = "createPermission" /\ effect \in Requests
          => key.status = "done" /\ key.stored = Saying(201, effect)

ReplyKept == reply.status \in Answers(handler) /\ (settles => Sound(reply))

RunsAlone ==
    handler.recovery # "lease" => \A r, s \in Requests : Running(r) /\ Running(s) => r = s

IInv ==
    /\ TypeOK
    /\ \A r \in Requests : RequestKept(r)
    /\ KeyKept
    /\ ReplyKept
    /\ RunsAlone
    /\ RunOnce
-----------------------------------------------------------------------------
\* A step of one request leaves the others what they are, as long as it undoes
\* nothing that is stored and begins to run only as the first.
LEMMA StepKeeps ==
    ASSUME IInv, TypeOK', NEW r \in Requests, NEW q,
           requests' = [requests EXCEPT ![r] = q],
           UNCHANGED operation,
           key.status # "none" => key'.status # "none",
           key.status = "done" => key'.status = "done",
           handler.stores = "once" /\ effect # "nothing" => effect' = effect,
           runs' = runs \/ (runs' = runs + 1 /\ Running(r)),
           q.pc = "run" => \/ q.uses = "none"
                           \/ handler.recovery = "lease"
                           \/ key.status = "none",
           RequestKept(r)', KeyKept', ReplyKept'
    PROVE  IInv'
<1>. USE DEF IInv
<1>1. handler' = handler
  BY DEF handler
<1>2. requests'[r] = q /\ \A s \in Requests \ {r} : requests'[s] = requests[s]
  BY DEF TypeOK
<1>3. ASSUME NEW s \in Requests \ {r}
      PROVE  RequestKept(s)'
  <2>1. requests'[s] = requests[s] /\ RequestKept(s)
    BY <1>2
  <2>2. Sound(requests[s].result) => Sound(requests[s].result)'
    BY <1>1, <2>1 DEF Sound
  <2>3. Running(s) /\ handler.recovery # "lease" => runs' = runs
    BY <1>3 DEF RunsAlone
  <2>. QED
    BY <1>1, <2>1, <2>2, <2>3 DEF RequestKept, Running
<1>4. RunsAlone'
  <2>1. ASSUME NEW s \in Requests \ {r}, handler.recovery # "lease", Running(s)', Running(r)'
        PROVE  FALSE
    <3>1. requests'[s] = requests[s] /\ RequestKept(s)
      BY <1>2
    <3>2. Running(s) /\ key.status # "none"
      BY <2>1, <3>1 DEF Running, RequestKept
    <3>. QED
      BY <1>2, <2>1, <3>2 DEF Running
  <2>2. ASSUME NEW s \in Requests \ {r}, NEW u \in Requests \ {r},
               handler.recovery # "lease", Running(s)', Running(u)'
        PROVE  s = u
    BY <1>2, <2>2 DEF RunsAlone, Running
  <2>. QED
    BY <1>1, <2>1, <2>2 DEF RunsAlone
<1>5. RunOnce'
  <2>1. Running(r) /\ handler.recovery # "lease" => runs = 0
    BY DEF RequestKept
  <2>. QED
    BY <1>1, <2>1 DEF RunOnce
<1>. QED
  BY <1>3, <1>4, <1>5

\* What is said of a request has the type it should.
LEMMA StatusesTyped ==
    ASSUME operation \in Operations
    PROVE  Statuses(handler) \subseteq {0, 200, 201, 202, 204, 400, 401, 403, 404, 409, 422, 429,
                                        500, 503}
BY HandlerFacts DEF HandlerOK, Statuses

\* To say nothing is one of the things said.
LEMMA SilenceTyped == NoReply \in Sayings /\ NoReply.status \in Answers(handler)
BY DEF NoReply, Saying, Sayings, Answers

\* A request that is over keeps nothing.
LEMMA OverKeeps ==
    ASSUME NEW r, requests'[r] = NoRequest
    PROVE  RequestKept(r)'
<1>1. requests'[r].pc = "idle" /\ requests'[r].uses = "none"
  BY DEF NoRequest
<1>2. ~Running(r)'
  BY <1>1 DEF Running
<1>. QED
  BY <1>1, <1>2 DEF RequestKept

\* A reply that says nothing of the request's outcome ends the request.
LEMMA ReplyKeeps ==
    ASSUME IInv, NEW r \in Requests, NEW status \in Answers(handler), Reply(r, status),
           failures' \in 0 .. MaxFailures, UNCHANGED <<operation, key, effect, runs>>
    PROVE  IInv'
<1>. USE DEF IInv
<1>1. handler' = handler
  BY DEF handler
<1>2. Saying(status, "nothing") \in Sayings
  BY StatusesTyped DEF TypeOK, Sayings, Saying, Answers
<1>3. NoRequest \in Request
  BY DEF NoRequest, NoReply, Saying, Request, Sayings
<1>4. requests' = [requests EXCEPT ![r] = NoRequest] /\ reply' = Saying(status, "nothing")
      /\ settles' = FALSE
  BY DEF Reply
<1>5. TypeOK'
  BY <1>2, <1>3, <1>4 DEF TypeOK
<1>6. requests'[r] = NoRequest
  BY <1>4 DEF TypeOK
<1>7. RequestKept(r)'
  BY <1>6, OverKeeps
<1>8. KeyKept'
  BY <1>1 DEF KeyKept, Sound
<1>9. ReplyKept'
  BY <1>1, <1>4 DEF ReplyKept, Saying
<1>. QED
  BY <1>4, <1>5, <1>7, <1>8, <1>9, StepKeeps DEF NoRequest

\* A reply that tells the outcome ends the request too.
LEMMA TellKeeps ==
    ASSUME IInv, NEW r \in Requests, NEW said \in Sayings, Sound(said), Tell(r, said),
           UNCHANGED <<operation, effect, runs, failures>>,
           key' \in Key, (key.lease # "nobody" <=> key.status = "pending")',
           key.status # "none" => key'.status # "none",
           key.status = "done" => key'.status = "done",
           KeyKept'
    PROVE  IInv'
<1>. USE DEF IInv
<1>1. handler' = handler
  BY DEF handler
<1>2. NoRequest \in Request
  BY DEF NoRequest, NoReply, Saying, Request, Sayings
<1>3. /\ requests' = [requests EXCEPT ![r] = NoRequest]
      /\ reply' = said /\ settles' \in BOOLEAN
  BY DEF Tell
<1>4. TypeOK'
  BY <1>2, <1>3 DEF TypeOK
<1>5. requests'[r] = NoRequest
  BY <1>3 DEF TypeOK
<1>6. RequestKept(r)'
  BY <1>5, OverKeeps
<1>7. ReplyKept'
  BY <1>1, <1>3 DEF ReplyKept, Sound, Answers
<1>. QED
  BY <1>3, <1>4, <1>6, <1>7, StepKeeps DEF NoRequest

\* A request goes on, with nothing said and nothing else changed.
LEMMA GotoKeeps ==
    ASSUME IInv, NEW r \in Requests,
           NEW pc \in {"look", "take over", "look again", "recover", "run"}, Goto(r, pc),
           UNCHANGED <<operation, effect, runs, failures>>,
           key' \in Key, (key.lease # "nobody" <=> key.status = "pending")',
           key.status # "none" => key'.status # "none",
           key.status = "done" => key'.status = "done",
           KeyKept',
           pc = "run" => \/ requests[r].uses = "none"
                         \/ handler.recovery = "lease"
                         \/ key.status = "none",
           pc # "run" => requests[r].uses # "none",
           requests[r].uses # "none" => key'.status # "none",
           pc \in {"take over", "look again"} => handler.recovery = "lease",
           pc = "recover" => handler.recovery = "effect"
    PROVE  IInv'
<1>. USE DEF IInv
<1>1. handler' = handler
  BY DEF handler
<1>. DEFINE q == [requests[r] EXCEPT !.pc = pc]
<1>2. requests' = [requests EXCEPT ![r] = q] /\ reply' = NoReply /\ settles' = FALSE
  BY DEF Goto, Silent
<1>3. requests[r] \in Request
  BY DEF TypeOK
<1>4. q \in Request /\ q.pc = pc /\ q.uses = requests[r].uses /\ q.result = requests[r].result
  BY <1>3 DEF Request
<1>. HIDE DEF q
<1>5. NoReply \in Sayings /\ NoReply.status \in Answers(handler)
  BY SilenceTyped
<1>6. TypeOK'
  BY <1>2, <1>4, <1>5 DEF TypeOK
<1>7. requests'[r] = q
  BY <1>2 DEF TypeOK
<1>8. RequestKept(r)'
  <2>1. RequestKept(r)
    OBVIOUS
  <2>2. pc = "run" /\ requests[r].uses # "none" /\ handler.recovery # "lease" => runs = 0
    BY DEF KeyKept
  <2>. QED
    BY <1>1, <1>4, <1>7, <2>1, <2>2 DEF RequestKept, Running
<1>9. ReplyKept'
  BY <1>1, <1>2, <1>5 DEF ReplyKept
<1>. QED
  BY <1>2, <1>4, <1>6, <1>8, <1>9, StepKeeps

\* A run ends with something to say, which is so when what it was to do is done.
LEMMA ConcludeKeeps ==
    ASSUME IInv, NEW r \in Requests, NEW said \in Sayings, Conclude(r, said), Sound(said)',
           requests[r].pc \in {"run", "read back"},
           UNCHANGED <<operation, failures>>,
           effect' \in Requests \cup {"nothing", "another"},
           key' \in Key, (key.lease # "nobody" <=> key.status = "pending")',
           key.status # "none" => key'.status # "none",
           key.status = "done" => key'.status = "done",
           handler.stores = "once" /\ effect # "nothing" => effect' = effect,
           UNCHANGED runs \/ (requests[r].pc = "run" /\ Ran(r)),
           KeyKept',
           requests[r].uses # "none" /\ operation = "createPermission" /\ Success(said)
             => key'.status = "done"
    PROVE  IInv'
<1>. USE DEF IInv
<1>1. handler' = handler
  BY DEF handler
<1>. DEFINE q == [requests[r] EXCEPT !.pc = "complete", !.result = said]
<1>2. requests' = [requests EXCEPT ![r] = q] /\ reply' = NoReply /\ settles' = FALSE
  BY DEF Conclude, Silent
<1>3. requests[r] \in Request
  BY DEF TypeOK
<1>4. q \in Request /\ q.pc = "complete" /\ q.uses = requests[r].uses /\ q.result = said
  BY <1>3 DEF Request
<1>. HIDE DEF q
<1>5. NoReply \in Sayings /\ NoReply.status \in Answers(handler)
  BY SilenceTyped
<1>6. runs' \in 0 .. 2 /\ (runs' = runs \/ (runs' = runs + 1 /\ Running(r)))
  <2>1. runs \in 0 .. 2
    BY DEF TypeOK
  <2>2. CASE UNCHANGED runs
    BY <2>1, <2>2
  <2>3. CASE requests[r].pc = "run" /\ Ran(r)
    BY <2>1, <2>3 DEF Ran, Running
  <2>. QED
    BY <2>2, <2>3
<1>7. TypeOK'
  BY <1>2, <1>4, <1>5, <1>6 DEF TypeOK
<1>8. requests'[r] = q
  BY <1>2 DEF TypeOK
<1>9. RequestKept(r)'
  <2>1. RequestKept(r)
    OBVIOUS
  <2>2. Success(said)' <=> Success(said)
    BY DEF Success
  <2>. QED
    BY <1>1, <1>4, <1>8, <2>1, <2>2 DEF RequestKept, Running
<1>10. ReplyKept'
  BY <1>1, <1>2, <1>5 DEF ReplyKept
<1>. QED
  BY <1>2, <1>4, <1>6, <1>7, <1>9, <1>10, StepKeeps
-----------------------------------------------------------------------------
\* What is the same after a step that changes neither the operation nor what
\* is stored.
LEMMA SameKey ==
    ASSUME IInv, UNCHANGED <<operation, key, effect, runs>>
    PROVE  /\ key' \in Key /\ (key.lease # "nobody" <=> key.status = "pending")'
           /\ KeyKept'
BY DEF IInv, TypeOK, KeyKept, Sound, handler

\* The client sends a request.
LEMMA SendKeeps == ASSUME IInv, NEW r \in Requests, Send(r) PROVE IInv'
<1>. USE DEF IInv
<1>1. handler' = handler
  BY DEF handler, Send
<1>2. PICK uses \in {"none"} \cup IF handler.method = "POST" THEN {"this body", "another"} ELSE {} :
         requests' = [requests EXCEPT ![r].pc = "enter", ![r].uses = uses]
  BY DEF Send
<1>. DEFINE q == [requests[r] EXCEPT !.pc = "enter", !.uses = uses]
<1>3. requests' = [requests EXCEPT ![r] = q] /\ reply' = NoReply /\ settles' = FALSE
  BY <1>2 DEF Send, Silent
<1>4. requests[r] \in Request
  BY DEF TypeOK
<1>5. q \in Request /\ q.pc = "enter" /\ q.uses = uses
  BY <1>2, <1>4 DEF Request
<1>. HIDE DEF q
<1>6. UNCHANGED <<operation, key, effect, runs, failures>>
  BY DEF Send
<1>7. TypeOK'
  BY <1>3, <1>5, <1>6, SilenceTyped DEF TypeOK
<1>8. requests'[r] = q
  BY <1>3 DEF TypeOK
<1>9. RequestKept(r)'
  BY <1>1, <1>2, <1>5, <1>8 DEF RequestKept, Running
<1>10. ReplyKept'
  BY <1>1, <1>3, SilenceTyped DEF ReplyKept
<1>. QED
  BY <1>3, <1>5, <1>6, <1>7, <1>9, <1>10, SameKey, StepKeeps

\* It is refused before anything is done.
LEMMA RefuseKeeps == ASSUME IInv, NEW r \in Requests, Refuse(r) PROVE IInv'
<1>1. PICK status \in {401, 403, 429, Unmetered(r)} \cup IF handler.method = "POST" THEN {400} ELSE {} :
         Reply(r, status)
  BY DEF Refuse
<1>2. status \in Answers(handler)
  BY DEF Statuses, Answers, Unmetered
<1>3. UNCHANGED <<operation, key, effect, runs, failures>> /\ failures' \in 0 .. MaxFailures
  BY DEF Refuse, IInv, TypeOK
<1>. QED
  BY <1>1, <1>2, <1>3, ReplyKeeps

\* It finds no key, reserves it, or goes to see what the key says.
LEMMA EnterKeeps == ASSUME IInv, NEW r \in Requests, Enter(r) PROVE IInv'
<1>1. UNCHANGED <<operation, effect, runs, failures>>
  BY DEF Enter
<1>2. CASE requests[r].uses = "none"
  <2>1. Goto(r, "run") /\ key' = key
    BY <1>2 DEF Enter
  <2>. QED
    BY <1>1, <1>2, <2>1, SameKey, GotoKeeps
<1>3. CASE requests[r].uses # "none" /\ key.status # "none"
  BY <1>1, <1>3, SameKey, GotoKeeps DEF Enter
<1>4. CASE requests[r].uses # "none" /\ key.status = "none"
  <2>. DEFINE k == [key EXCEPT !.status = "pending", !.body = requests[r].uses,
                               !.lease = r, !.left = Lease]
  <2>1. key' = k /\ Goto(r, "run")
    BY <1>4 DEF Enter
  <2>2. key \in Key /\ requests[r] \in Request
    BY DEF IInv, TypeOK
  <2>3. requests[r].uses \in {"none", "this body", "another"}
    BY <2>2 DEF Request
  <2>. Lease \in 0 .. Lease
    BY RequestsAssumption
  <2>4. k \in Key /\ k.status = "pending" /\ k.lease = r
    BY <2>2, <2>3 DEF Key
  <2>. HIDE DEF k
  <2>5. r # "nobody"
    BY RequestsAssumption
  <2>6. KeyKept'
    BY <1>1, <1>4, <2>1, <2>4 DEF KeyKept, IInv
  <2>. QED
    BY <1>1, <1>4, <2>1, <2>4, <2>5, <2>6, GotoKeeps
<1>. QED
  BY <1>2, <1>3, <1>4

\* It is told that the key is in use, or the response that is stored.
LEMMA LookKeeps == ASSUME IInv, NEW r \in Requests, Look(r) PROVE IInv'
<1>1. UNCHANGED <<operation, key, effect, runs, failures>> /\ failures' \in 0 .. MaxFailures
  BY DEF Look, IInv, TypeOK
<1>2. requests[r].uses # "none" /\ handler.method = "POST" /\ key.status # "none"
  BY DEF Look, IInv, RequestKept
<1>3. 409 \in Answers(handler)
  BY <1>2 DEF Statuses, Answers
<1>4. CASE Reply(r, 409)
  BY <1>1, <1>3, <1>4, ReplyKeeps
<1>5. CASE key.status = "done" /\ Tell(r, key.stored)
  <2>1. key.stored \in Sayings /\ Sound(key.stored)
    BY <1>5 DEF IInv, TypeOK, Key, KeyKept
  <2>. QED
    BY <1>1, <1>5, <2>1, SameKey, TellKeeps
<1>6. CASE handler.recovery = "lease" /\ Goto(r, "take over")
  BY <1>1, <1>2, <1>6, SameKey, GotoKeeps
<1>7. CASE handler.recovery = "effect" /\ Goto(r, "recover")
  BY <1>1, <1>2, <1>7, SameKey, GotoKeeps
<1>. QED
  BY <1>4, <1>5, <1>6, <1>7 DEF Look

\* It takes a lapsed reservation over, or finds that it is too late.
LEMMA TakeOverKeeps == ASSUME IInv, NEW r \in Requests, TakeOver(r) PROVE IInv'
<1>1. UNCHANGED <<operation, effect, runs, failures>>
  BY DEF TakeOver
<1>2. requests[r].uses # "none" /\ key.status # "none" /\ handler.recovery = "lease"
  BY DEF TakeOver, IInv, RequestKept
<1>3. CASE Goto(r, "look again") /\ UNCHANGED key
  BY <1>1, <1>2, <1>3, SameKey, GotoKeeps
<1>4. CASE key.status = "pending" /\ Goto(r, "run")
           /\ key' = [key EXCEPT !.lease = r, !.left = Lease]
  <2>. DEFINE k == [key EXCEPT !.lease = r, !.left = Lease]
  <2>1. key \in Key
    BY DEF IInv, TypeOK
  <2>2. r # "nobody" /\ Lease \in 0 .. Lease
    BY RequestsAssumption
  <2>3. k \in Key /\ k.status = "pending" /\ k.lease = r
    BY <1>4, <2>1, <2>2 DEF Key
  <2>4. key' = k
    BY <1>4
  <2>. HIDE DEF k
  <2>5. handler' = handler
    BY <1>1 DEF handler
  <2>6. KeyKept'
    BY <1>1, <1>4, <2>3, <2>4, <2>5 DEF KeyKept, IInv
  <2>. QED
    BY <1>1, <1>2, <1>4, <2>2, <2>3, <2>4, <2>6, GotoKeeps
<1>. QED
  BY <1>3, <1>4 DEF TakeOver

\* It is told the response that is there by now, or that the key is in use.
LEMMA LookAgainKeeps == ASSUME IInv, NEW r \in Requests, LookAgain(r) PROVE IInv'
<1>1. UNCHANGED <<operation, key, effect, runs, failures>> /\ failures' \in 0 .. MaxFailures
  BY DEF LookAgain, IInv, TypeOK
<1>2. 409 \in Answers(handler)
  <2>1. requests[r].uses # "none" /\ handler.method = "POST"
    BY DEF LookAgain, IInv, RequestKept
  <2>. QED
    BY <2>1 DEF Statuses, Answers
<1>3. CASE Reply(r, 409)
  BY <1>1, <1>2, <1>3, ReplyKeeps
<1>4. CASE key.status = "done" /\ Tell(r, key.stored)
  <2>1. key.stored \in Sayings /\ Sound(key.stored)
    BY <1>4 DEF IInv, TypeOK, Key, KeyKept
  <2>. QED
    BY <1>1, <1>4, <2>1, SameKey, TellKeeps
<1>. QED
  BY <1>3, <1>4 DEF LookAgain

\* The lookup finds what is stored, or the request is refused.
LEMMA RecoverKeeps == ASSUME IInv, NEW r \in Requests, Recover(r) PROVE IInv'
<1>1. UNCHANGED <<operation, key, effect, runs, failures>> /\ failures' \in 0 .. MaxFailures
  BY DEF Recover, IInv, TypeOK
<1>2. 409 \in Answers(handler)
  <2>1. requests[r].uses # "none" /\ handler.method = "POST"
    BY DEF Recover, IInv, RequestKept
  <2>. QED
    BY <2>1 DEF Statuses, Answers
<1>3. CASE Reply(r, 409)
  BY <1>1, <1>2, <1>3, ReplyKeeps
<1>4. CASE /\ FoundEffect
           /\ requests' = [requests EXCEPT ![r].pc = "found", ![r].result = Saying(handler.ok, effect)]
           /\ Silent
  <2>0. PICK said : said = Saying(handler.ok, effect)
    OBVIOUS
  <2>. DEFINE q == [requests[r] EXCEPT !.pc = "found", !.result = said]
  <2>1. said \in Sayings
    BY <2>0, HandlerFacts DEF HandlerOK, IInv, TypeOK, Sayings, Saying
  <2>2. Sound(said)
    BY <1>4, <2>0 DEF Sound, Saying, Statuses, FoundEffect
  <2>3. requests[r] \in Request /\ requests[r].pc = "recover" /\ RequestKept(r)
    BY DEF IInv, TypeOK, Recover
  <2>4. q \in Request /\ q.pc = "found" /\ q.uses = requests[r].uses /\ q.result = said
    BY <2>1, <2>3 DEF Request
  <2>5. requests' = [requests EXCEPT ![r] = q] /\ reply' = NoReply /\ settles' = FALSE
    BY <1>4, <2>0 DEF Silent
  <2>. HIDE DEF q
  <2>6. handler' = handler
    BY <1>1 DEF handler
  <2>7. TypeOK'
    BY <1>1, <2>4, <2>5, SilenceTyped DEF IInv, TypeOK
  <2>8. requests'[r] = q
    BY <2>5 DEF IInv, TypeOK
  <2>9. RequestKept(r)'
    <3>1. Sound(said) => Sound(said)'
      BY <1>1, <2>6 DEF Sound, Success
    <3>. QED
      BY <1>1, <2>2, <2>3, <2>4, <2>6, <2>8, <3>1 DEF RequestKept, Running
  <2>10. ReplyKept'
    BY <2>5, <2>6, SilenceTyped DEF ReplyKept
  <2>. QED
    BY <1>1, <2>4, <2>5, <2>7, <2>9, <2>10, SameKey, StepKeeps
<1>. QED
  BY <1>3, <1>4 DEF Recover

\* The key gets its response, unless it has one.
LEMMA Stored ==
    ASSUME IInv, NEW said \in Sayings, Sound(said), key.status = "pending",
           key' = [key EXCEPT !.status = "done", !.lease = "nobody", !.left = 0, !.stored = said],
           UNCHANGED <<operation, effect, runs>>,
           ~(operation = "createPermission" /\ effect \in Requests)
    PROVE  /\ key' \in Key /\ (key.lease # "nobody" <=> key.status = "pending")'
           /\ key'.status = "done"
           /\ KeyKept'
<1>. DEFINE k == [key EXCEPT !.status = "done", !.lease = "nobody", !.left = 0, !.stored = said]
<1>1. key \in Key /\ 0 \in 0 .. Lease
  BY RequestsAssumption DEF IInv, TypeOK
<1>2. /\ k \in Key /\ k.status = "done" /\ k.lease = "nobody" /\ k.left = 0
      /\ k.stored = said
  BY <1>1 DEF Key
<1>3. key' = k
  OBVIOUS
<1>. HIDE DEF k
<1>4. handler' = handler
  BY DEF handler
<1>5. Sound(said)'
  BY <1>4 DEF Sound, Success
<1>6. Sound(key.stored)'
  BY <1>2, <1>3, <1>4, <1>5 DEF Sound
<1>. QED
  BY <1>2, <1>3, <1>4, <1>6 DEF KeyKept

\* What the lookup found is stored for the key and told.
LEMMA CompleteFromEffectKeeps ==
    ASSUME IInv, NEW r \in Requests, CompleteFromEffect(r) PROVE IInv'
<1>1. UNCHANGED <<operation, effect, runs, failures>>
  BY DEF CompleteFromEffect
<1>2. /\ requests[r].result \in Sayings /\ Sound(requests[r].result)
      /\ handler.recovery = "effect"
  BY DEF CompleteFromEffect, IInv, RequestKept, TypeOK, Request
<1>3. Tell(r, requests[r].result)
  BY DEF CompleteFromEffect
<1>4. operation # "createPermission"
  BY <1>2, HandlerFacts DEF HandlerOK, IInv, TypeOK
<1>5. CASE key.status = "pending"
  <2>1. key' = [key EXCEPT !.status = "done", !.lease = "nobody", !.left = 0,
                           !.stored = requests[r].result]
    BY <1>5 DEF CompleteFromEffect
  <2>. QED
    BY <1>1, <1>2, <1>3, <1>4, <1>5, <2>1, Stored, TellKeeps
<1>6. CASE key.status # "pending"
  <2>1. UNCHANGED key
    BY <1>6 DEF CompleteFromEffect
  <2>. QED
    BY <1>1, <1>2, <1>3, <2>1, SameKey, TellKeeps
<1>. QED
  BY <1>5, <1>6

\* The response is stored for the key, if the request still holds it, and told.
LEMMA CompleteKeeps == ASSUME IInv, NEW r \in Requests, Complete(r) PROVE IInv'
<1>1. UNCHANGED <<operation, effect, runs, failures>>
  BY DEF Complete
<1>2. requests[r].result \in Sayings /\ Sound(requests[r].result)
  BY DEF Complete, IInv, RequestKept, TypeOK, Request
<1>3. Tell(r, requests[r].result)
  BY DEF Complete
<1>4. CASE key.status = "pending" /\ key.lease = r /\ requests[r].uses # "none"
  <2>1. key' = [key EXCEPT !.status = "done", !.lease = "nobody", !.left = 0,
                           !.stored = requests[r].result]
    BY <1>4 DEF Complete
  <2>2. ~(operation = "createPermission" /\ effect \in Requests)
    BY <1>4 DEF IInv, KeyKept
  <2>. QED
    BY <1>1, <1>2, <1>3, <1>4, <2>1, <2>2, Stored, TellKeeps
<1>5. CASE ~(key.status = "pending" /\ key.lease = r /\ requests[r].uses # "none")
  <2>1. UNCHANGED key
    BY <1>5 DEF Complete
  <2>. QED
    BY <1>1, <1>2, <1>3, <2>1, SameKey, TellKeeps
<1>. QED
  BY <1>4, <1>5

\* Of a refusal nothing has to be stored.
LEMMA RefusalSound ==
    ASSUME NEW status \in Statuses(handler), status \in {0, 404, 409, 422, 429, 503},
           UNCHANGED <<operation, effect>>
    PROVE  /\ Saying(status, "nothing") \in Sayings
           /\ ~Success(Saying(status, "nothing"))
           /\ Sound(Saying(status, "nothing"))'
<1>1. Saying(status, "nothing") \in Sayings /\ Saying(status, "nothing").status = status
  BY DEF Saying, Sayings
<1>2. status \notin 200 .. 299
  OBVIOUS
<1>3. ~Success(Saying(status, "nothing")) /\ ~Success(Saying(status, "nothing"))'
  BY <1>1, <1>2 DEF Success
<1>4. Saying(status, "nothing").status \in Statuses(handler)'
  BY <1>1 DEF handler
<1>. QED
  BY <1>1, <1>3, <1>4 DEF Sound

\* A request runs under a key that is there.
LEMMA RunUnderKey ==
    ASSUME IInv, NEW r \in Requests,
           UNCHANGED runs \/ (requests[r].pc = "run" /\ Ran(r))
    PROVE  key.status = "none" => runs' = 0
<1>1. requests[r].pc = "run" /\ requests[r].uses # "none" => key.status # "none"
  BY DEF IInv, RequestKept
<1>2. key.status = "none" => runs = 0
  BY DEF IInv, KeyKept
<1>. QED
  BY <1>1, <1>2 DEF Ran

\* A run that refuses and leaves everything as it is.
LEMMA RefusingKeeps ==
    ASSUME IInv, NEW r \in Requests, requests[r].pc \in {"run", "read back"},
           NEW status \in Statuses(handler), status \in {0, 404, 409, 422, 429, 503},
           Conclude(r, Saying(status, "nothing")),
           UNCHANGED runs \/ (requests[r].pc = "run" /\ Ran(r)),
           UNCHANGED <<operation, key, effect, failures>>
    PROVE  IInv'
<1>1. KeyKept'
  <2>1. handler' = handler
    BY DEF handler
  <2>2. Sound(key.stored) => Sound(key.stored)'
    BY <2>1 DEF Sound, Success
  <2>. QED
    BY <2>1, <2>2, RunUnderKey, ZenonT(40) DEF KeyKept, IInv
<1>2. key' \in Key /\ (key.lease # "nobody" <=> key.status = "pending")'
  BY DEF IInv, TypeOK
<1>3. effect' \in Requests \cup {"nothing", "another"}
  BY DEF IInv, TypeOK
<1>4. PICK said : said = Saying(status, "nothing")
  OBVIOUS
<1>5. said \in Sayings /\ ~Success(said) /\ Sound(said)'
  BY <1>4, RefusalSound
<1>. QED
  BY <1>1, <1>2, <1>3, <1>4, <1>5, ConcludeKeeps, ZenonT(40)

\* The handler refuses.
LEMMA RejectKeeps == ASSUME IInv, NEW r \in Requests, Reject(r) PROVE IInv'
<1>1. PICK status \in handler.refusals : Conclude(r, Saying(status, "nothing"))
  BY DEF Reject
<1>2. status \in Statuses(handler)
  BY DEF Statuses
<1>3. status \in {0, 404, 409, 422, 429, 503}
  BY HandlerFacts DEF HandlerOK, IInv, TypeOK
<1>4. requests[r].pc = "run" /\ Ran(r) /\ UNCHANGED <<operation, key, effect, failures>>
  BY DEF Reject
<1>. QED
  BY <1>1, <1>2, <1>3, <1>4, RefusingKeeps

\* The reservation is another's by now.
LEMMA LostReservationKeeps ==
    ASSUME IInv, NEW r \in Requests, LostReservation(r) PROVE IInv'
<1>1. handler.again \in {0, 404, 409, 422}
  BY HandlerFacts DEF HandlerOK, IInv, TypeOK
<1>2. handler.again \in Statuses(handler)
  BY HandlerFacts DEF Statuses, HandlerOK, LostReservation, UnderKey, IInv, TypeOK
<1>3. /\ requests[r].pc = "run" /\ Ran(r) /\ UNCHANGED <<operation, key, effect, failures>>
      /\ Conclude(r, Saying(handler.again, "nothing"))
  BY DEF LostReservation
<1>4. PICK status : status = handler.again
  OBVIOUS
<1>5. status \in Statuses(handler) /\ status \in {0, 404, 409, 422, 429, 503}
  BY <1>1, <1>2, <1>4
<1>6. Conclude(r, Saying(status, "nothing"))
  BY <1>3, <1>4
<1>. QED
  BY <1>3, <1>5, <1>6, RefusingKeeps

\* What is stored for the key stays true of an effect that is made when there
\* is none, and of one that does not count.
LEMMA EffectKeeps ==
    ASSUME IInv, handler.stores = "once" => effect = "nothing" \/ effect' = effect,
           ~(operation = "createPermission" /\ effect' \in Requests),
           UNCHANGED <<operation, key>>, key.status = "none" => runs' = 0
    PROVE  KeyKept'
<1>1. handler' = handler
  BY DEF handler
<1>2. Sound(key.stored) => Sound(key.stored)'
  BY <1>1 DEF Sound, Success
<1>. QED
  BY <1>1, <1>2 DEF KeyKept, IInv

\* The handler reads, does again, or finds done what it was to do.
LEMMA AnswerKeeps == ASSUME IInv, NEW r \in Requests, Answer(r) PROVE IInv'
<1>1. requests[r].pc = "run" /\ Ran(r) /\ UNCHANGED <<operation, key, effect, failures>>
  BY DEF Answer
<1>2. HandlerOK(operation, handler)
  BY HandlerFacts DEF IInv, TypeOK
<1>3. handler' = handler
  BY <1>1 DEF handler
<1>4. CASE handler.stores = "once" /\ effect # "nothing" /\ handler.again # 0
  <2>1. PICK status : status = handler.again
    OBVIOUS
  <2>2. status \in Statuses(handler) /\ status \in {0, 404, 409, 422, 429, 503}
    BY <1>2, <1>4, <2>1 DEF Statuses, HandlerOK
  <2>3. Conclude(r, Saying(status, "nothing"))
    BY <1>4, <2>1 DEF Answer
  <2>. QED
    BY <1>1, <2>2, <2>3, RefusingKeeps
<1>5. ASSUME NEW of \in Requests \cup {"nothing", "another"},
             handler.stores = "once" => of = effect /\ effect # "nothing" /\ handler.again = 0,
             Conclude(r, Saying(handler.ok, of))
      PROVE  IInv'
  <2>1. PICK said : said = Saying(handler.ok, of)
    OBVIOUS
  <2>2. said \in Sayings /\ said.status \in Statuses(handler) /\ said.of = of
    BY <1>2, <2>1 DEF HandlerOK, Saying, Sayings, Statuses
  <2>3. Sound(said)'
    BY <1>1, <1>3, <1>5, <2>2 DEF Sound
  <2>4. operation # "createPermission"
    BY <1>2, <1>5 DEF HandlerOK
  <2>5. KeyKept'
    BY <1>1, <2>4, RunUnderKey, EffectKeeps
  <2>6. key' \in Key /\ (key.lease # "nobody" <=> key.status = "pending")'
    BY <1>1 DEF IInv, TypeOK
  <2>7. effect' \in Requests \cup {"nothing", "another"}
    BY <1>1 DEF IInv, TypeOK
  <2>. QED
    BY <1>1, <1>5, <2>1, <2>2, <2>3, <2>4, <2>5, <2>6, <2>7, ConcludeKeeps
<1>6. effect \in Requests \cup {"nothing", "another"}
  BY DEF IInv, TypeOK
<1>. QED
  BY <1>4, <1>5, <1>6 DEF Answer

\* What it was to do is done, for the first time.
LEMMA DoKeeps == ASSUME IInv, NEW r \in Requests, Do(r) PROVE IInv'
<1>1. /\ requests[r].pc = "run" /\ Ran(r) /\ UNCHANGED <<operation, key, failures>>
      /\ effect = "nothing" /\ effect' = As(r) /\ ~UnderKey(r)
  BY DEF Do
<1>2. HandlerOK(operation, handler)
  BY HandlerFacts DEF IInv, TypeOK
<1>3. handler' = handler
  BY <1>1 DEF handler
<1>4. As(r) \in Requests \cup {"another"} /\ As(r) # "nothing"
  BY RequestsAssumption DEF As
<1>5. PICK said : said = Saying(handler.ok, As(r))
  OBVIOUS
<1>6. said \in Sayings /\ said.status \in Statuses(handler) /\ said.of = As(r)
  BY <1>2, <1>4, <1>5 DEF HandlerOK, Saying, Sayings, Statuses
<1>7. Sound(said)'
  BY <1>1, <1>3, <1>4, <1>6 DEF Sound
<1>8. KeyKept'
  <2>1. ~(operation = "createPermission" /\ effect' \in Requests)
    BY <1>1, RequestsAssumption DEF UnderKey, As
  <2>. QED
    BY <1>1, <2>1, RunUnderKey, EffectKeeps
<1>9. key' \in Key /\ (key.lease # "nobody" <=> key.status = "pending")'
  BY <1>1 DEF IInv, TypeOK
<1>10. CASE Conclude(r, said)
  BY <1>1, <1>4, <1>6, <1>7, <1>8, <1>9, <1>10, ConcludeKeeps DEF UnderKey
<1>11. CASE /\ operation = "createObligationProposal"
            /\ requests' = [requests EXCEPT ![r].pc = "read back", ![r].result = said]
            /\ Silent
  <2>. DEFINE q == [requests[r] EXCEPT !.pc = "read back", !.result = said]
  <2>1. requests[r] \in Request /\ RequestKept(r) /\ runs \in 0 .. 2
    BY DEF IInv, TypeOK
  <2>2. q \in Request /\ q.pc = "read back" /\ q.uses = requests[r].uses /\ q.result = said
    BY <1>6, <2>1 DEF Request
  <2>3. requests' = [requests EXCEPT ![r] = q] /\ reply' = NoReply /\ settles' = FALSE
    BY <1>11 DEF Silent
  <2>. HIDE DEF q
  <2>4. runs' \in 0 .. 2 /\ (runs' = runs \/ (runs' = runs + 1 /\ Running(r)))
    BY <1>1, <2>1 DEF Ran, Running
  <2>5. TypeOK'
    BY <1>1, <1>4, <2>2, <2>3, <2>4, SilenceTyped DEF IInv, TypeOK
  <2>6. requests'[r] = q
    BY <2>3 DEF IInv, TypeOK
  <2>7. RequestKept(r)'
    BY <1>1, <1>3, <1>7, <1>11, <2>1, <2>2, <2>6 DEF RequestKept, Running
  <2>8. ReplyKept'
    BY <1>3, <2>3, SilenceTyped DEF ReplyKept
  <2>. QED
    BY <1>1, <1>8, <2>2, <2>3, <2>4, <2>5, <2>7, <2>8, StepKeeps
<1>. QED
  BY <1>5, <1>10, <1>11 DEF Do

\* The permission is stored together with the response that names it.
LEMMA StorePermissionKeeps ==
    ASSUME IInv, NEW r \in Requests, StorePermission(r) PROVE IInv'
<1>1. /\ requests[r].pc = "run" /\ Ran(r) /\ UNCHANGED <<operation, failures>>
      /\ effect = "nothing" /\ effect' = r /\ operation = "createPermission"
      /\ key.status = "pending"
  BY DEF StorePermission, UnderKey
<1>2. HandlerOK(operation, handler)
  BY HandlerFacts DEF IInv, TypeOK
<1>3. handler' = handler
  BY <1>1 DEF handler
<1>4. PICK said : said = Saying(handler.ok, r)
  OBVIOUS
<1>5. Conclude(r, said)
  BY <1>4 DEF StorePermission
<1>6. said \in Sayings /\ said.status \in Statuses(handler) /\ said.of = r
  BY <1>2, <1>4 DEF HandlerOK, Saying, Sayings, Statuses
<1>7. said = Saying(201, r)
  BY <1>1, <1>2, <1>4 DEF HandlerOK
<1>8. r # "nothing" /\ 0 \in 0 .. Lease
  BY RequestsAssumption
<1>9. Sound(said)'
  BY <1>1, <1>3, <1>6, <1>8 DEF Sound
<1>. DEFINE k == [key EXCEPT !.status = "done", !.lease = "nobody", !.left = 0, !.stored = said]
<1>10. key' = k
  BY <1>4 DEF StorePermission
<1>11. key \in Key
  BY DEF IInv, TypeOK
<1>12. /\ k \in Key /\ k.status = "done" /\ k.lease = "nobody" /\ k.left = 0
       /\ k.stored = said
  BY <1>6, <1>8, <1>11 DEF Key
<1>. HIDE DEF k
<1>13. Sound(key.stored)'
  BY <1>3, <1>9, <1>10, <1>12 DEF Sound
<1>14. KeyKept'
  BY <1>1, <1>3, <1>7, <1>10, <1>12, <1>13 DEF KeyKept
<1>15. effect' \in Requests \cup {"nothing", "another"}
  BY <1>1
<1>. QED
  BY <1>1, <1>5, <1>6, <1>9, <1>10, <1>12, <1>14, <1>15, ConcludeKeeps

\* What was made is read again for the reply, or is not, when the party's
\* budget is used up.
LEMMA ReadBackKeeps == ASSUME IInv, NEW r \in Requests, ReadBack(r) PROVE IInv'
<1>1. requests[r].pc = "read back" /\ UNCHANGED <<operation, key, effect, runs, failures>>
  BY DEF ReadBack
<1>2. CASE Conclude(r, Saying(429, "nothing"))
  <2>1. 429 \in Statuses(handler)
    BY DEF Statuses
  <2>2. 429 \in {0, 404, 409, 422, 429, 503}
    OBVIOUS
  <2>. QED
    BY <1>1, <1>2, <2>1, <2>2, RefusingKeeps, ZenonT(40)
<1>3. CASE Conclude(r, requests[r].result)
  <2>1. PICK said : said = requests[r].result
    OBVIOUS
  <2>2. said \in Sayings /\ Sound(said) /\ operation # "createPermission"
    BY <1>1, <2>1 DEF IInv, TypeOK, Request, RequestKept
  <2>3. Sound(said)'
    BY <1>1, <2>2 DEF Sound, Success, handler
  <2>4. effect' \in Requests \cup {"nothing", "another"}
    BY <1>1 DEF IInv, TypeOK
  <2>. QED
    BY <1>1, <1>3, <2>1, <2>2, <2>3, <2>4, SameKey, ConcludeKeeps
<1>. QED
  BY <1>2, <1>3 DEF ReadBack

\* A request that dies leaves everything as it is.
LEMMA FailKeeps == ASSUME IInv, NEW r \in Requests, Fail(r) PROVE IInv'
<1>1. Reply(r, 500) /\ UNCHANGED <<operation, key, effect, runs>>
  BY DEF Fail
<1>2. 500 \in Answers(handler)
  BY DEF Answers
<1>3. failures \in 0 .. MaxFailures
  BY DEF IInv, TypeOK
<1>4. failures' \in 0 .. MaxFailures
  BY <1>3, RequestsAssumption DEF Fail
<1>. QED
  BY <1>1, <1>2, <1>4, ReplyKeeps

\* What happens beside the requests.
LEMMA BesideKeeps ==
    ASSUME IInv, TypeOK', UNCHANGED <<operation, runs, requests>>, Silent,
           key'.status = key.status,
           handler.stores = "once" /\ effect # "nothing" => effect' = effect,
           KeyKept'
    PROVE  IInv'
<1>1. handler' = handler
  BY DEF handler
<1>2. ASSUME NEW r \in Requests
      PROVE  RequestKept(r)'
  <2>1. RequestKept(r)
    BY DEF IInv
  <2>2. Sound(requests[r].result) => Sound(requests[r].result)'
    BY <1>1 DEF Sound, Success
  <2>3. Success(requests[r].result)' <=> Success(requests[r].result)
    BY DEF Success
  <2>. QED
    BY <1>1, <2>1, <2>2, <2>3 DEF RequestKept, Running
<1>3. ReplyKept'
  BY <1>1, SilenceTyped DEF ReplyKept, Silent
<1>4. RunsAlone' /\ RunOnce'
  BY <1>1 DEF IInv, RunsAlone, RunOnce, Running
<1>. QED
  BY <1>2, <1>3, <1>4 DEF IInv

\* The same is done elsewhere, or what was found is over.
LEMMA ElsewhereKeeps == ASSUME IInv, DoneElsewhere \/ CertificateOver PROVE IInv'
<1>1. UNCHANGED <<operation, key, runs, requests, failures>> /\ Silent
      /\ effect' \in {"nothing", "another"}
  BY DEF DoneElsewhere, CertificateOver
<1>2. handler.stores = "once" => effect = "nothing"
  BY DEF DoneElsewhere, CertificateOver
<1>3. ~(operation = "createPermission" /\ effect' \in Requests)
  BY <1>1, RequestsAssumption
<1>4. KeyKept'
  <2>1. key.status = "none" => runs = 0
    BY DEF IInv, KeyKept
  <2>. QED
    BY <1>1, <1>2, <1>3, <2>1, EffectKeeps
<1>5. TypeOK'
  BY <1>1, SilenceTyped DEF IInv, TypeOK, Silent
<1>. QED
  BY <1>1, <1>2, <1>4, <1>5, BesideKeeps

\* A lease runs out.
LEMMA TickKeeps == ASSUME IInv, Tick PROVE IInv'
<1>1. UNCHANGED <<operation, effect, runs, requests>> /\ Silent /\ key.left > 0
  BY DEF Tick
<1>. DEFINE k == [key EXCEPT !.left = key.left - 1]
<1>2. key' = k /\ key \in Key
  BY DEF Tick, IInv, TypeOK
<1>3. key.left \in 0 .. Lease
  BY <1>2 DEF Key
<1>4. key.left - 1 \in 0 .. Lease
  BY <1>1, <1>3, RequestsAssumption
<1>5. /\ k \in Key /\ k.status = key.status /\ k.lease = key.lease
  BY <1>2, <1>4 DEF Key
<1>6. failures' \in 0 .. MaxFailures
  <2>1. failures \in 0 .. MaxFailures
    BY DEF IInv, TypeOK
  <2>2. failures' = failures \/ (failures < MaxFailures /\ failures' = failures + 1)
    BY DEF Tick
  <2>. QED
    BY <2>1, <2>2, RequestsAssumption
<1>. HIDE DEF k
<1>7. TypeOK'
  BY <1>1, <1>2, <1>5, <1>6, SilenceTyped DEF IInv, TypeOK, Silent
<1>8. key.status # "done"
  <2>1. key.status = "done" => key.left = 0
    BY DEF IInv, KeyKept
  <2>. QED
    BY <1>1, <2>1
<1>9. KeyKept'
  BY <1>1, <1>2, <1>5, <1>8 DEF IInv, KeyKept
<1>. QED
  BY <1>1, <1>2, <1>5, <1>7, <1>9, BesideKeeps
-----------------------------------------------------------------------------
\* The client has sent nothing yet.
LEMMA InitKept == Init => IInv
<1>. SUFFICES ASSUME Init PROVE IInv
  OBVIOUS
<1>1. NoReply \in Sayings /\ NoReply.status \in Answers(handler)
  BY SilenceTyped
<1>2. /\ NoRequest \in Request /\ NoRequest.pc = "idle" /\ NoRequest.uses = "none"
      /\ NoKey \in Key /\ NoKey.status = "none" /\ NoKey.lease = "nobody"
  BY RequestsAssumption DEF NoRequest, NoKey, NoReply, Request, Key, Sayings
<1>3. 0 \in 0 .. MaxFailures
  BY RequestsAssumption
<1>4. TypeOK
  <2>1. requests \in [Requests -> Request]
    BY <1>2 DEF Init
  <2>2. key \in Key /\ (key.lease # "nobody" <=> key.status = "pending")
    BY <1>2 DEF Init
  <2>3. /\ operation \in Operations /\ effect = "nothing" /\ runs = 0
        /\ reply = NoReply /\ settles = FALSE /\ failures = 0
    BY DEF Init
  <2>4. settles \in BOOLEAN
    BY <2>3, Zenon
  <2>5. runs \in 0 .. 2
    BY <2>3
  <2>. QED
    BY <1>1, <1>3, <2>1, <2>2, <2>3, <2>4, <2>5 DEF TypeOK
<1>5. ASSUME NEW r \in Requests
      PROVE  RequestKept(r) /\ ~Running(r)
  <2>1. requests[r].pc = "idle" /\ requests[r].uses = "none"
    BY <1>2 DEF Init
  <2>2. ~Running(r)
    BY <2>1 DEF Running
  <2>. QED
    BY <2>1, <2>2 DEF RequestKept
<1>6. KeyKept
  BY <1>2, RequestsAssumption DEF Init, KeyKept
<1>. QED
  BY <1>1, <1>4, <1>5, <1>6 DEF Init, IInv, ReplyKept, RunsAlone, RunOnce

\* Every step keeps it.
LEMMA StepKept == IInv /\ [Next]_vars => IInv'
<1>1. SUFFICES ASSUME IInv, [Next]_vars
               PROVE  IInv'
  OBVIOUS
<1>2. CASE UNCHANGED vars
  <2>1. UNCHANGED <<operation, key, effect, runs, requests, reply, settles, failures>>
    BY <1>2 DEF vars
  <2>2. UNCHANGED handler
    BY <2>1 DEF handler
  <2>3. TypeOK'
    BY <1>1, <2>1 DEF IInv, TypeOK
  <2>4. ASSUME NEW r \in Requests
        PROVE  RequestKept(r)'
    BY <1>1, <2>1, <2>2 DEF IInv, RequestKept, Running, Sound, Success
  <2>. QED
    BY <1>1, <2>1, <2>2, <2>3, <2>4
    DEF IInv, KeyKept, ReplyKept, RunsAlone, RunOnce, Running, Sound, Success
<1>3. CASE DoneElsewhere \/ CertificateOver \/ Tick
  BY <1>1, <1>3, ElsewhereKeeps, TickKeeps
<1>4. ASSUME NEW r \in Requests,
             Send(r) \/ Refuse(r) \/ Enter(r) \/ Recover(r) \/ Progress(r) \/ Fail(r)
      PROVE  IInv'
  BY <1>1, <1>4, SendKeeps, RefuseKeeps, EnterKeeps, RecoverKeeps, FailKeeps,
     LookKeeps, TakeOverKeeps, LookAgainKeeps, CompleteFromEffectKeeps, RejectKeeps,
     AnswerKeeps, DoKeeps, StorePermissionKeeps, LostReservationKeeps, ReadBackKeeps,
     CompleteKeeps DEF Progress
<1>. QED
  BY <1>1, <1>2, <1>3, <1>4 DEF Next

\* The invariant holds in every state of every behaviour.
LEMMA Kept == Spec => []IInv
BY InitKept, StepKept, PTL DEF Spec

\* Every variable has its type.
THEOREM TypeCorrect == Spec => []TypeOK
<1>1. IInv => TypeOK
  BY DEF IInv
<1>. QED
  BY <1>1, Kept, PTL

\* A request under a key is run once, whatever dies and however often it is
\* sent, unless it may be taken over by another.
THEOREM RunCorrect == Spec => []RunOnce
<1>1. IInv => RunOnce
  BY DEF IInv
<1>. QED
  BY <1>1, Kept, PTL

\* A permission is stored with its response or not at all: no process that
\* dies between two statements leaves one without the other.
THEOREM PermissionCorrect == Spec => []PermissionWithItsResponse
<1>1. IInv => PermissionWithItsResponse
  BY HandlerFacts
  DEF IInv, KeyKept, HandlerOK, Sound, PermissionWithItsResponse, TypeOK
<1>. QED
  BY <1>1, Kept, PTL

\* What a response says is done is what is stored.
THEOREM SuccessCorrect == Spec => []SuccessIsStored
<1>1. IInv => SuccessIsStored
  BY DEF IInv, ReplyKept, Sound, SuccessIsStored
<1>. QED
  BY <1>1, Kept, PTL

\* What a request comes to, what is kept for its key and what the client reads
\* is documented for the operation, and for every one whose handler does the
\* same; but for the 500 of a failure, which settles nothing.
THEOREM AnswersCorrect == Spec => []AnswersDocumented
<1>1. ASSUME IInv, NEW o \in DOMAIN Handlers, Handlers[o] = handler
      PROVE  /\ \A said \in Outcomes : said.status \in Documented(o)
             /\ reply.status \in Documented(o) \cup {0} \/ (reply.status = 500 /\ ~ settles)
  <2>1. o \in OperationIds
    BY DEF Handlers
  <2>2. Statuses(handler) \subseteq Documented(o)
    BY <1>1, <2>1, HandlersOK DEF HandlerOK
  <2>3. ASSUME NEW said \in Outcomes
        PROVE  Sound(said)
    <3>1. ASSUME NEW r \in Requests, requests[r].pc \in {"found", "read back", "complete"}
          PROVE  Sound(requests[r].result)
      BY <1>1, <3>1 DEF IInv, RequestKept
    <3>2. key.status = "done" => Sound(key.stored)
      BY <1>1 DEF IInv, KeyKept
    <3>. QED
      BY <3>1, <3>2 DEF Outcomes
  <2>4. \A said \in Outcomes : said.status \in Documented(o)
    BY <2>2, <2>3 DEF Sound
  <2>5. CASE settles
    BY <1>1, <2>2, <2>4, <2>5 DEF IInv, ReplyKept, Sound
  <2>6. CASE ~ settles
    BY <1>1, <2>2, <2>4, <2>6 DEF IInv, ReplyKept, Answers
  <2>. QED
    BY <2>4, <2>5, <2>6
<1>2. IInv => AnswersDocumented
  BY <1>1 DEF AnswersDocumented
<1>. QED
  BY <1>2, Kept, PTL

\* A response stored for a key is never replaced: of two requests that come to
\* an answer the first to store it wins, and no lease runs on that would let a
\* third one begin.
THEOREM SettledCorrect == Spec => KeySettledOnce
<1>1. ASSUME IInv, Next, key.status = "done"
      PROVE  key' = key
  <2>1. key.left = 0
    BY <1>1 DEF IInv, KeyKept
  <2>2. CASE DoneElsewhere \/ CertificateOver \/ Tick
    <3>1. ~Tick
      BY <2>1 DEF Tick
    <3>. QED
      BY <2>2, <3>1 DEF DoneElsewhere, CertificateOver
  <2>3. ASSUME NEW r \in Requests, Enter(r) \/ TakeOver(r) \/ Complete(r)
        PROVE  key' = key
    BY <1>1, <2>3 DEF Enter, TakeOver, Complete
  <2>4. ASSUME NEW r \in Requests, CompleteFromEffect(r) \/ StorePermission(r)
        PROVE  key' = key
    BY <1>1, <2>4 DEF CompleteFromEffect, StorePermission
  <2>5. ASSUME NEW r \in Requests,
               \/ Send(r) \/ Refuse(r) \/ Recover(r) \/ Fail(r) \/ Look(r) \/ LookAgain(r)
               \/ Reject(r) \/ Answer(r) \/ Do(r) \/ LostReservation(r) \/ ReadBack(r)
        PROVE  key' = key
    BY <2>5 DEF Send, Refuse, Recover, Fail, Look, LookAgain, Reject, Answer, Do,
                LostReservation, ReadBack
  <2>. QED
    BY <1>1, <2>2, <2>3, <2>4, <2>5 DEF Next, Progress
<1>2. IInv /\ [Next]_vars => [key.status = "done" => key' = key]_vars
  BY <1>1 DEF vars
<1>. QED
  BY <1>2, Kept, PTL DEF Spec, KeySettledOnce
=============================================================================
