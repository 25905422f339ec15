# Contraflow: specifications, model checks and proofs

Contraflow nets debts. If A owes B, B owes C and C owes A, a *loop* of debts can
be reduced by the smallest of them without any money moving and without
anybody's net position changing. It does so twice over:

- **onchain**, invoices are registered in a contract and a loop of them is netted
  by one `settle` call;
- **offchain**, obligations are private: the two parties agree on one by a proposal,
  the service finds a loop, proposes a *certificate* over it, collects the signatures
  of the parties, and a ledger contract, which sees only commitments, moves every
  obligation of the loop from one commitment to the next. The database then follows
  the ledger.

Companies integrate through a developer API and are told what happens by webhooks,
sent from an *outbox* that a pipeline works through. Around this are pages that ask
a person's wallet for transactions, sign-in with a wallet, a public demo that
spends the operator's gas, a one-time gas grant, and indexes of what the contracts did.

This directory holds TLA+ models of these, checked with TLC, and proofs of nearly every safety
property the checks state, for every value of the constants, checked with TLAPS. `PROJECT.json` maps every definition to the lines it stands
for. Paths below are relative to the repository (`src/` of it is `app/`, `contracts/`,
`packages/`, ...; the application's own `src/` is inside `app/`).

## 1. Inventory of the system

| component | state it keeps | operations | what is hard about it |
|---|---|---|---|
| Invoice registry (`contracts/src/ContraflowRegistry.sol`) | `_invoices`, `_lastNonce` | `register`, `getInvoice`, `netInvoice` | order of signed attestations; unchecked subtraction |
| Invoice settler (`ContraflowSettler.sol`) | none of its own | `settle` | several registry writes, any of which may revert |
| Netting ledger (`ContraflowNettingLedger.sol`) | `_state`, `_applied` | `applyCertificate`, `stateOf`, `isApplied` | competing and repeated certificates in any order; all or nothing |
| Certificate service and store (`obligations/certificates.ts`, `db/certificates.ts`) | `netting_obligations`, `netting_certificates`, `_entries` (with the lock), `_signatures` | view, list, export, sign, decline, record a transaction, close, dispute, reply, withdraw | reads before awaits, two clocks, late answers, a ledger that anyone may call |
| Loop proposal (`obligations/proposeLoop.ts`) | what one search has read and excluded | `findAndProposeLoop` | acts on rows several awaits old; retries |
| Loop search and solver (`obligations/loopSearch.ts`, `packages/solver`) | none | neighbourhood, bounded cycle enumeration, choice of the best loop | what the caps leave out must not be the best loop, or the only one; what to report of several currencies |
| Certificate documents (`netting/`, `components/netting/partyChecks.ts`, `app/verify`) | none | build, cut a party's copy, verify | several reads of a ledger that moves on, by a node that may fail or has forgotten; copies that differ |
| Obligation proposals (`obligations/service.ts`, `db/obligations.ts`) | `netting_proposals`, `netting_obligations` | create, accept, decline, withdraw, list | two answers at once; checks that take seconds |
| Webhook pipeline (`api/webhookPipeline.ts`, `db/webhooks.ts`) | changes, events, deliveries with leases | fan out, deliver, retry | runs that die, late outcomes |
| Developer API (`api/`, `db/tenants.ts`) | tenants, keys, permissions, idempotency records | one handler per operation | repeated calls, requests that die |
| Starter grants (`attest/starterGrant.ts`) | one row per address, a counter a day | reserve, pay, record, recover | a transfer whose outcome is unknown |
| Demo (`app/demo`, `demo/`) | claims, the budget of the day, the invoices of a run | register a step, settle | the cap under concurrent claims; actions that outlive the page |
| Chain index (`chainindex/`), statistics (`stats/`) | cursor, events, nonces, totals, lock | sync, read | a lock that expires while held; a run that dies between its writes |
| Invoice action pipeline (`actions/`, `kits/unifiedBalance.ts`) | the stage a run reached | register, settle, fund what is left, resume | calls that take effect and fail |
| Sessions and sign-in (`siwe/`, `session/`, `components/wallet/`) | nonces, tokens, the revocation list; the refs of a tab | issue, consume, sign in, sign out, cancel, start over | late answers, clocks, one message presented twice |
| Wallet pages (`components/send`, `components/settle`, `app/attest`, `app/balance`) | records in the browser | send, settle, register, deposit, move | a wallet that broadcasts and does not say so; reloads |
| Private pages (`app/c`, `app/o`, `app/attest`) | what a tab holds of a party's data | load, reload | the session changes while a load waits |
| Database client, rate limiter, compliance, formatting | pool; windows; lists | | third-party services |

How they interact. A page or an API route calls the service; the service reads
the store, *awaits* an RPC call to the ledger, and writes to the store in one SQL
transaction. Nothing runs in the background for certificates: no job polls the
ledger, and a certificate is brought up to date only when one of its parties
comes to view, list, export or sign it (`syncRow`). The ledger never calls back
and knows nothing of the database, and a party that holds the signatures of a
certificate can apply it from its own wallet whatever the database says. So
each of these can happen between any two steps of a call, and the correctness of the
offchain part rests on what its transactions check again. Triggers record each
change of a proposal, obligation or certificate, and the webhook pipeline turns
these into events. The API's handlers call the same services as the pages do. The
indexes, the grants, the demo and the pages meet the rest only through the chain or
the wallet, and each is modelled with its own small environment.

What makes each component correct:

- registry and settler: the nonces of a pair are used in order, without gaps;
  netting reduces whole loops or nothing; net positions never change;
- ledger: each obligation's commitments form one unbroken chain; all or nothing;
  never back to zero;
- proposals: what is accepted is recorded, once for a document, in time and by the
  other party, and no answer says otherwise;
- certificate service: an obligation is promised to one open certificate at most
  and never held by one that is over; an open certificate's obligations stay as
  it was built; closed certificates stay closed; the database records what the ledger
  did, once, and does not give up what the ledger might still do; locks are released;
- webhook pipeline: whichever run dies where, every tenant that may read about a
  change has its event; nothing is worked on by two runs at once; what is settled
  stays settled; nothing is queued for ever;
- API: one `Idempotency-Key` runs a handler once, success is reported of what is stored,
  and a key whose operation can be recovered does not stay pending for ever;
- grants, demo, funding, wallet pages: nobody is paid, and nothing is asked of a wallet,
  twice because an answer was lost; a daily budget is not exceeded;
- indexes: what is stored up to the cursor is what the chain has up to it;
- sessions and private pages: a nonce signs in once, a signed-out token stays out, a
  tab that shows it is busy is busy, and a page shows an invoice to its own party.

## 2. The modules

| module | what it is |
|---|---|
| `LoopShape` | the simple directed cycle that both contracts and the service ask for |
| `InvoiceNetting` | *abstract*: what registry and settler promise, with no transaction inside |
| `Settlement` | registry and settler, one storage write a step; refines `InvoiceNetting` |
| `LedgerEntries` | how a certificate addresses the ledger |
| `NettingLedger` | *abstract*: what the ledger promises |
| `LedgerTransaction` | `applyCertificate`, one storage write a step; refines `NettingLedger` |
| `Certificates` | service, database, loop searches, parties and ledger together |
| `CertificatesProofs` | theorems about `Certificates`: types, locks and expiry; how the rows follow the ledger |
| `Agreements` | *abstract*: what proposing an obligation promises |
| `Proposals` | the calls about proposals, one check or statement a step; refines `Agreements` |
| `ProposalsProofs` | theorems about `Proposals`, the refinement among them |
| `WebhookPipeline` | the outbox: fan-out, delivery, lock and leases, runs that die |
| `ApiRequests` | the API's handlers and their idempotency keys |
| `StarterGrant`, `DemoRun` | the two ways the operator's money is spent |
| `InvoicePipeline` | registering, settling and funding invoices, with every resume |
| `ChainIndex`, `ProtocolStats` | the two indexers |
| `Sessions`, `SignIn` | sign-in on the server, and in one browser tab |
| `WalletPages`, `GatewayPanels` | pages that ask a wallet for transactions |
| `PrivateViews` | pages that load one party's data |
| `Parts` | what it is for components to stand side by side |
| `Contracts`, `Services`, `Pages` | the two contracts, the services that keep to themselves, and the pages with the check of a certificate, each group side by side |
| `ContractsProofs`, `ServicesProofs`, `PagesProofs` | theorems about `Contracts`, `Services` and `Pages` |
| `WebhooksProofs`, `RequestsProofs` | theorems about `WebhookPipeline` and `ApiRequests` |
| `Sums` | lemmas about sums of a function over a finite set |
| `LoopSearch` | which loop a party is proposed, of obligations and of invoices, and what it is told without one |
| `CertificateCheck` | building a certificate, and what a browser, the public verifier or the service finds of one |
| `MCSystem`, `MCSettlement`, `MCCertificates`, `MCCertificateCases`, `MCProposals`, `MCRequests`, `MCWebhooks` | small instances for TLC |

`Settlement`, `LedgerTransaction` and the modules from `StarterGrant` to `CertificateCheck` do not act
on one another. `Contracts`, `Services` and `Pages` put them side by side, and state their properties: `part` is chosen in
the initial state, and only the variables of that part are used. `MCSystem` composes the three
and explores all of it in one run. This is a sum and not a product: it says of
each part what a run of its own would say. The proofs are about the three modules, `MCSystem` only gives the constants values.
`LoopSearch` is the part "loops" of `Services`.

A definition whose comment begins *Mutant of* is a faulty variant of the one after
it. Nothing uses it; `PROJECT.json` pairs each property with a mutant, which, put
in place of the definition it varies, makes TLC report that property violated. They
show that the property depends on that piece of the code. Such a variant stands before
the definition it varies, also where its comment does not begin so.

### Settlement

State: `invoices` (`_invoices`), `lastNonce`, `now` (`block.timestamp`) and `tx`, the
`settle` call being executed with its own view of storage. `Register` is the whole
of `register`: its signers are the addresses the two signatures recover to, and
`domain` stands for the EIP-712 domain (token, contract, chain). `SettleBegin` is
passes 1 and 2 of `settle`, which read only; `NetInvoice` is one call of pass 3 to
`netInvoice`; `SettleRevert` is that call reverting, and every write so far with it;
`SettleCommit` returns. A call that fails before it writes leaves everything as it
was and is not a step. `Tick` happens between transactions.

### LedgerTransaction

State: `state` (`_state`, by the obligation *and* its two parties, as
`_obligationKey` hashes them), `applied`, `log` (the events) and `tx`. `ApplyBegin`
is the checks, with the signatures of the debtors only: in a closed loop these are
all the parties, which the refinement shows. `CompareAndSwap` is one turn of
pass 3, `ApplyRevert` a stale commitment, `ApplyCommit` the return. Hashes are
abstracted to values, so a certificate id is not bound to its contents; the instance
has two certificates of one id.

### Certificates

| in the model | in the code |
|---|---|
| `rows[o]` | a row of `netting_obligations`: `status`, `remaining`, `disputed_by`; `by` names the `blinding`, that is, the certificate that last moved the row |
| `certs[c]` | a row of `netting_certificates`: `status`, `wNet`, `deadline`; `before[o]`, the prior opening in its full view; `sigs` and `locked`, its signatures and the entries still locked |
| `signed[c]` | the parties whose wallet has made a signature, stored or not |
| `chain[o]` | every commitment the ledger has had for `o`; the last one is what `stateOf` returns |
| `now`, `chainNow` | `Date.now()` (and Postgres `now()`), and `block.timestamp` |
| `req[r]` | a running call: what it has read and where it awaits |
| `search[s]` | a running `findAndProposeLoop` |

`Start` is the read of the row by its token; `view` stands for every call that does
no more than synchronise (view, list, export, and recording a transaction hash, whose
hash changes nothing that is modelled). `QueryApplied`, `ReadEntry`, `FinalizeApplied`
and `Expire` are `syncRow`, with each await on the ledger or the database a
step of its own; then `AddSignature` or `Decline`. `CloseObligation` and `WithdrawDispute` are
one transaction each; disputing reads first, in a step of its own (`StartDispute`),
because the transaction does not check the remaining amount again.
`StartSearch` is the load of the neighbourhood, `CheckMember` the comparison of a
row with `stateOf`, `MarkOutOfSync` the exclusion, `InsertCertificate` and
`InsertRefused` the transaction that inserts, `SearchAgain` and `Reload` the next
attempt: the former keeps the rows it read, the latter reads them again and
forgets what it had excluded.

`Sign`, `ApplyOnLedger` and `ApplyUnseen` are the parties. Any party
may sign what is collecting; anybody may apply what all have signed, though the
database has abandoned it; and parties may net from an exported certificate without
the service at all (`Unseen`). A dispute cancels a collecting certificate in the
database and cannot cancel it on the ledger: the model has the certificate applied
afterwards, whose obligations are then found out of sync.

What is abstracted. A database transaction is one step: every one of them takes the row locks it
needs before it checks. Blindings are fresh random values, so a
commitment is named by the certificate that made it. A search loads its rows in one
read and chooses any loop among them: the real choice, which is `LoopSearch`'s, is one of these.
Compliance screening, party rules and maturity only narrow it. Stored signatures are
checked again before a certificate is applied, in the browser, which changes no state
here. A signature is valid for its certificate: `Start` with kind `sign` asks that
the party has signed. The latency of an RPC node is part of `MaxLag`: what it
answers is at most that much older than the server's clock. Chain time does not run ahead of the server's in the
model; if it did, deadlines would only pass sooner on the ledger.

### Proposals

| in the model | in the code |
|---|---|
| `proposals[o]` | the row of `netting_proposals`: status, proposer, who closed it and when, expiry |
| `recorded` | the rows of `netting_obligations`, with their unique constraint on document and pair |
| `calls[c]` | a running `createProposal`, `acceptProposal` or `withdrawProposal`: what it has read and where it is |

Each read and each statement is a step. The statement of an acceptance is two: it
answers from the snapshot it was started with, and changes the rows as they are once
its locks are its own. Of two acceptances at once the second therefore answers from the
unlocked state, finds nothing to change, and must read again before it reports. An answer
may be lost after its statement took effect. Text, amounts and signatures are checked by
a refusal that may come at any time. `AnswersHold` is what the callers are told, and what
`listMine` shows them, held against the rows.

### WebhookPipeline

| in the model | in the code |
|---|---|
| `changes[c]` | a row of `netting_changes`: `processed_at` as `status`, and what is left of the lease that `claimed_at` gives |
| `events[e]` | a row of `webhook_events`: `status`, `attempts`, what is left until `next_attempt_at` (`wait`) and what has passed since `created_at` (`age`); `named`, the parties in its body; `recordedFor`, which of its tenant's endpoints was set when it was recorded |
| `deliveries` | `webhook_deliveries` |
| `received` | which event has reached which endpoint |
| `access[t]` | the parties with a live read permission for `t`, while `t` is active |
| `endpoint[t]` | the row of `webhook_endpoints`; `count` tells a tenant's endpoints apart |
| `lock` | how long `LOCK_KEY` will still be set |
| `runs[r]` | a running `runWebhookPipeline`: where it is, since when, and what it holds in memory |

`RecordChange` is the triggers. A run is `StartRun` (the lock), then the statements of
`fanOutChanges` (`ClaimChanges`; for each change `ReadReaders`, one `InsertEvent` a reader,
`CompleteChange`), then those of `deliverDue` (`ClaimEvents`; for each event `CheckAccess`, `Send`,
and the two statements of `recordAttempt`, `LogDelivery` and `RecordOutcome`), then `FinishRun`.
`BreakRun` ends it anywhere: by an error, which still deletes the lock, or by being killed.
`CheckAccess` may fail, and `Send` may reach the endpoint although the run hears of an error.

Times are countdowns, so that the clock needs no bound; `Tick` lets one unit pass for all of them.
No run lives longer than `MaxRun`, the platform's limit, and `LeaseAssumption`
says that this is less than `LEASE` (5 minutes). The code does not state it: the platform's
limit is not configured for the routes that run the pipeline. `NothingHeldTwice`
and `OutcomesAreFinal` rest on it and on nothing else; the lock (60 seconds) is
modelled as shorter than a run, which it may be, so that two runs
may overlap, although a comment in `webhookPipeline.ts` says that the lock keeps them from it.

What is abstracted: a change is fanned out from rows that always exist; bodies,
signatures and rotated secrets are left out, replacing an endpoint without removing it
too; `CHANGE_BATCH` (200) is no limit; which due events a batch takes is left open.

### ApiRequests

A client asks for one operation, under one `Idempotency-Key` or none, with two requests that
may run at once. `OperationIds` are the operations of `api/operations.ts`, and `Handlers` gives the handler of each,
from `api/handlers.ts`: its scope, its statuses, what it
stores, what doing it again answers and how a key is recovered from its effect. `Operations` is the subset an instance asks for.
`key` is the row of `api_idempotency` with what is left of its lease, `effect` what is stored of
the request under the key, `reply` and `settles` the reply just given and whether it tells the client
what became of it. Taking the key over after its lease, looking for a stored effect, running the handler, and
storing the response are steps; a request may die between any two of them or outlive its lease.
`createPermission` stores its response in the same transaction as its effect, which
`PermissionWithItsResponse` is about. `Documented` are the statuses of `openapi.ts`, which has no 500. A request comes to one of these (`Outcomes`), and only
these are kept for a key; the 500 of a failure is what a client reads instead when the request came to nothing it may be told, and settles nothing
(`AnswersDocumented`). Which party a permission covers, headers and bodies are
left out.

### StarterGrant and DemoRun

`StarterGrant` is `requestStarterGrant` for several requests at once: the row of
`starter_grant_operations`, the transfer it names, the row of `addresses` and the day's counter. A
write to the database may fail with or without its effect; a transfer may be broadcast although its sender
is told that it failed. The lookup by address is case-sensitive: a row stored in lower case is
not found under the session's spelling (`GrantedBefore` has its rows in the session's).

`DemoRun` is the page with its `phase`, the two server actions, and the script in Redis
(`claims`, `spent`) that claims an operation and its worst-case cost at once. The page may be reset or
reloaded while its actions run on.

### InvoicePipeline and GatewayPanels

`InvoicePipeline` is `runSettlementPipeline` and its resumes: each call of the pipeline may fail before or
after it took effect, and `recovery` is what the error it ends with allows. The wait for a deposit
compares the confirmed balance with a target, which an earlier deposit that is confirmed late can reach as well;
the operator's earlier deposit is in the model for that reason.

`GatewayPanels` is the deposit panel and the move panel of the balance page with what they keep in
the browser. Both are mounted, so that one may start while the other prepares. A rejected request leaves a record
nothing clears by itself; a record is cleared by its owner and not by the operation it was made for; a deposit's check is
satisfied by an earlier deposit that is confirmed late, so that a further one is offered while an outcome is
unknown. `NoSecondSubmission` states what remains true. Two tabs are not modelled.

### ChainIndex and ProtocolStats

A run takes the lock (which may lapse under it), reads the saved state and the head, reads the logs of a range,
and writes: nonces, then events, then the cursor, each a step in `ChainIndex`; totals and cursor at once in
`ProtocolStats`. A run may die between two steps. `outlived` remembers that a run of the index outlived its
lock: two such runs can set a nonce back, so that `IndexIsComplete` claims the nonce only while it is false.

### Sessions and SignIn

`Sessions` is the server: nonces issued and consumed in Redis, sign-in requests (one message may be presented by
several at once), tokens that need no store, and the list of revoked ones, which may be out of
reach. `SignIn` is the provider of one tab: its refs (`pendingRef`, `completingRef`, `attemptRef`) are variables, an
attempt waits for wallets, prompts and the server, and goes on after it was abandoned. Not every branch
after an await asks `stale()` (the early returns, the catch and the `whoAmI` of `complete` do not), and the model has these as
they are.

### WalletPages and PrivateViews

`WalletPages` is one of three pages that has a wallet send a transaction; the wallet may reject, broadcast and answer, broadcast
and not answer, or broadcast after its call failed. `PrivateViews` is one of three pages that load what one
party may see; each load waits for the server and the chain, and its variables are set where the code sets them, between awaits.

### LoopSearch

| in the model | in the code |
|---|---|
| `active`, `flagged`, `rules` | the rows a search may net, what screening says, the allowlists |
| `Queries`, `LoadComplete`, `Loaded` | `loadCallerNeighbourhood`: a page of rows at a time, two hops outward, each currency by itself, within four caps |
| `neighbourhoodEdges`, `findCycles`, `findBestLoop` | the functions of these names |
| `Ball` | `distancesFrom`: who is within so many steps |
| `Walks`, `MayFollow`, `InComponent` | `dfs`, what it may go on with, and the component it keeps to |
| `findInvoiceLoopFor`, `proposeSettlement` | the same for the invoices of a party, and for those of the demo |

The variables are the world; a search is a function of it, in which nothing is awaited between reads that
matters here (`Certificates` has those). `BestLoopFound` compares what a search answers, in every state
of the world, with the loops there are by definition, those it never loaded included. A loop that is proposed is the largest one may propose, and "none", "too long" and
"blocked" are true of all the caller's loops of the lengths allowed.
Screening is of the parties in the caller's neighbourhoods (`neighbourhoodParties`, `excludedParties`, `Usable`), those on some cycle through it that is
short enough. So "too long" says that a cycle runs through the caller which none of its `FlaggedPartners` is on, the flagged parties it could share a loop with; a
flagged party further off may be on it. Invoices are screened after the neighbourhood is cut, all that are left (`Clear`). Rows, edges and cycles are sets. A walk of the solver (`Walks`, an edge longer at a time) keeps its order; what becomes of a closed one is
the set of its edges, as `recordIfNew` makes the rotations of a walk one. The order in which the solver tries the edges decides which of
equal loops it takes and which cycles a full list holds: the first is a `CHOOSE`, the second is left open
(`Lists`), so that the answer about invoices is one of a set.

### CertificateCheck

| in the model | in the code |
|---|---|
| `height`, `applied`, `superseded`, `late`, `status`, `allSigned` | the chain, what it applied under the certificate's id, the deadline, the row and its signatures; outside of the check, and moving while it runs |
| `page`, `file` | who checks, and the certificate as built, a party's copy of it, or one that differs in a field, in a term or as a whole |
| `buildCertificate`, `viewForParty`, `entryHash`, `contentHash` | the functions of these names; a hash is what it hashes |
| `Read`, `ResolveStage` | `load` and `resolveCertificateCheckStage`, or what the verifier's visitor gives it |
| `CheckContents`, `CheckEvent`, `CheckLedger` | `verifyCertificateView`: the contents, the event that binds them, in ranges of blocks, and the ledger's flag |
| `CheckOwnEntries`, `CheckCurrent` | `checkAsParty` |

The reads of one step are answered, fail or, for the call of a smart account, are rejected; a head or a
flag read in another step may be newer. `VerdictRight` says what a verdict is worth: what passes every check is what the
parties agreed on, signed and applied as far as the stage asks; what fails a check while no read failed
has something wrong with it; what has nothing wrong with it is at worst unverifiable, and that
only without a node, after a read that failed, or when its event lies below what was searched.
For the service it says that `buildCertificate` refuses exactly what the verifier would ("the proposer must never put out a
certificate it wouldn't itself verify"). What a page has checked no longer changes, so the world stands still once nothing reads it.

## 3. The runs

| run | instance | what it shows |
|---|---|---|
| `certificates` | three cases told apart by where the clock starts: two calls about a chain of certificates, one of them made without the service; a debt closed and disputed while certificates over it are signed; two searches at once | `TypeOK`, `ExpiredNeverApplied`, `RowsFollowLedger`, `AppliedIsRecorded`, `OpenCertificatesHold`, `LocksFollowCertificates`, `OutOfSyncIsReal`, `ClosedStaysClosed` |
| `certificates_progress` | under fairness, one certificate, all kinds of calls | `LocksAreReleased`, `ApplicationsAreRecorded` |
| `out_of_sync_unrecorded` | one search, a certificate proposed and applied while it runs | violated: see section 6 |
| `webhooks` | two runs, one of which may die, one change, two tenants, one of them with an endpoint that it may remove and set again | `NothingHeldTwice`, `NoReaderMissed`, `OutcomesAreFinal` |
| `webhooks_progress` | under fairness, two runs, one of which may die, one tenant whose permissions come and go | `ChangesAreFannedOut`, `EventsAreSettled` |
| `stale_event` | two runs, an endpoint that may be removed and set again | violated: see section 6 |
| `proposals` | two calls of two parties and a stranger, about two proposals of one document | `OneObligationPerDocument`, `AcceptedInTime`, `AnswersHold`, and that `Proposals` implements `Agreements` |
| `api` | two requests for one of the operations, one for each handler that differs; under fairness | `AnswersDocumented`, `RunOnce`, `PermissionWithItsResponse`, `SuccessIsStored`, `KeysAreSettled` |
| `system` | the parts side by side | `ImplementsInvoiceNetting`, `PositionsUnchanged`, `ImplementsNettingLedger`; `PaidOnce`, `SpentWithinBudget`, `ShownAsDone`, `FundedOnce`, `IndexIsComplete`, `TotalsAddUp`, `OneSessionUntilItsEnd`, `CompletingIsLive`, `NotAskedTwice`, `OwnInvoiceShown`, `NoSecondSubmission`, `BestLoopFound`, `VerdictRight` |
| `sent_twice` | the send page | violated: see section 6 |
| `leftover_payload` | the certificate page, two parties | violated: see section 6 |
| `partial_leftover` | `Settlement` with unequal invoices | violated: see section 6 |

**Bounds of Certificates.** Two parties and three obligations:
one debt of A to B (2) and two of B to A (1 and 2). Each loop uses the first, so certificates
compete for it, follow one another on it, and leave the two others in different
states; a partial reduction (2 against 1) makes a second certificate possible. Two certificates
are the least for a late answer to meet a later state; the interference of a third
needs no state the second does not give. `Lifetime`, `Grace` and `MaxLag` are 1, so that the clock can be
before the deadline, on it, within the grace period and past it, with chain time
trailing or not; `MaxTime` is 3, and 4 for liveness so that everything may expire. `MaxAttempts` is the code's 3.
`LastSearch` stops searches from starting anew. The three cases exist because two calls of every kind, two searches and
the clock together are beyond what TLC can enumerate in minutes. `Within` says what each leaves out: in the first
the clock runs, two calls view or sign, of which one at most signs (who views makes no difference and is
fixed); in the second the clock stands, one call runs and the shared debt may be closed or disputed; in the third the clock
stands, one call runs beside two searches; the certificate made without the service exists in the first only. Calls are
interchangeable, and searches are, hence the symmetry.

**Bounds of WebhookPipeline.** Two runs may exist at once: more can in the program,
but what is leased to one of them is out of reach of each other in the same way; a lock of 1, runs of at most 2 and a lease of 3 keep the order of the code's 60
seconds, its long runs and its 5 minutes; a window of 1 or 2 with delays of 1 and 2 leaves room
for two or three attempts and for giving up. One change is enough: changes are claimed and
fanned out independently of each other, and two tenants give one change two events between
which a run may die. One death leaves each lease behind that the next run has to wait for.

**Bounds of Proposals and ApiRequests.** Two calls race about two obligations of one document; three can be told apart from two only
by a third answer to one proposal, which finds it as the second does. `Lifetime` and `MaxTime` of 1 let a proposal expire while
a call about it runs. Two requests with a lease of 1 and two failures let one die or outlive its
lease, the other take over, and die in turn.

**Bounds of the parts of MCSystem.** `Settlement`: ten attestations over four parties: a triangle and a ring sharing a debt, a mutual pair,
two competing for one nonce, one that waits for its maturity, one of amount zero, one of another domain; `MaxLoop` 4
lets the ring close and the longest rejected loops appear; the code's limit of 5 is in the guard. `LedgerTransaction`:
eleven certificates over four obligations: competing, following each other, of one id, back to an old commitment,
walking a loop twice, and malformed. `StarterGrant`: three requests, three addresses one of which was granted before, one grant a day, two days.
`DemoRun`: a ring of two (the code's least is three; the steps are alike), two actions at once, one run of the page, a day's budget one short of what
a run costs, two days. `ChainIndex`: two runs, three blocks of one event, ranges of one block, one event kept, so that the index is trimmed;
`ProtocolStats`: two runs, three blocks, ranges of two. `InvoicePipeline`: three invoices, two of them in a loop or none, three resumes. `Sessions`:
two nonces, three requests, lifetimes of 2, 2 and 3, time to 5, so that each expires. `SignIn`: two accounts, three attempts. `WalletPages`: three transactions.
`PrivateViews`: two parties, four loads. `GatewayPanels`: four operations. `LoopSearch`:
twelve rows in two currencies among five parties, each of which may be there or not; loops of two or three parties and every cap small, so that each kind of answer
occurs: found in either currency, too long, too many parties, blocked, a load or a list of cycles cut short, of obligations and of invoices.
`CertificateCheck`: three debts round, one netted before and one early, one party a smart account; four blocks, ranges of two, two of them from the floor, so that the
event may lie below what is searched; some twenty files. The assumptions on the constants of the parts are in
`Contracts`, `Services` and `Pages`, which `MCSystem` extends.

`CHECK_DEADLOCK FALSE` is given in every run: calls, certificates and clocks are bounded, and a system in
which every attestation has been used, or nobody calls, rightly stops.

**Fairness** (`Certificates!FairSpec`). A call or a search that has begun takes its next step in the end
(weak fairness): they are request handlers that run to their end. Both
clocks advance (weak). And, for each open certificate, one of its parties comes
back to view it again and again (strong, since the call slots of the instance may be
busy). The last is an assumption about users and not about the code: nothing in
the program polls, and a certificate that nobody looks at keeps its locks.
No fairness is assumed of signing, applying, declining, or of searches starting.

**Fairness** (`WebhookPipeline!FairSpec`). The pipeline is started again and again (weak): after
every API request, after obligation activity, and by the cron job once a day. A run that is not
broken off goes on (weak), and time passes (weak). Nothing is assumed of endpoints: they may
fail every time. Deaths of runs are bounded by `MaxFailures`, since no pipeline gets anywhere whose runs
always die.

**Fairness** (`ApiRequests!FairSpec`). Time passes and a request that runs goes on (weak); the client, whose reply
did not settle the matter, sends again with its key, is admitted in the end, and a stored effect is found in the end when it is looked
for again and again (strong: the limiter and the database may refuse any single time). Deaths are bounded by `MaxFailures`.

## 4. What is proved

Every safety invariant and every action property that a passing run checks is a theorem too, for every
value of the constants that the assumptions below allow. Each
rests on an inductive invariant, which was checked by TLC on the instance of the run before it was proved.

| module | theorems |
|---|---|
| `CertificatesProofs` | `TypeCorrect`, `LocksCorrect` (`LocksFollowCertificates`), `ClosedForGood` (`ClosedStaysClosed`), `ExpiryCorrect` (`ExpiredNeverApplied`); `AlwaysFollowed` (`LedgerFollowed`, the invariant behind the others), `RowsCorrect` (`RowsFollowLedger`), `OutOfSyncCorrect` (`OutOfSyncIsReal`), `RecordsCorrect` (`AppliedIsRecorded`), `OpenCorrect` (`OpenCertificatesHold`) |
| `ProposalsProofs` | `AgreementsImplemented` (`ImplementsAgreements`), `DocumentsCorrect` (`OneObligationPerDocument`), `AcceptanceCorrect` (`AcceptedInTime`), `AnswersCorrect` (`AnswersHold`), and `RecordedCorrect`: an obligation is recorded exactly when its proposal is accepted, `ClosedForGood`: a proposal that is closed stays as it was closed |
| `WebhooksProofs` | `TypeCorrect`, `LeasesCorrect` (`NothingHeldTwice`), `FanOutCorrect` (`NoReaderMissed`), `OutcomesCorrect` (`OutcomesAreFinal`) |
| `RequestsProofs` | `TypeCorrect`, `RunCorrect` (`RunOnce`), `PermissionCorrect` (`PermissionWithItsResponse`), `SuccessCorrect` (`SuccessIsStored`), `AnswersCorrect` (`AnswersDocumented`), and `SettledCorrect`: a response stored for a key is never replaced |
| `ContractsProofs` | `LedgerImplemented` (`ImplementsNettingLedger`), `SettlementImplemented` (`ImplementsInvoiceNetting`), `PositionsCorrect` (`PositionsUnchanged`) |
| `ServicesProofs` | `GrantsCorrect` (`PaidOnce`), `ShownCorrect` (`ShownAsDone`), `BudgetCorrect` (`SpentWithinBudget`), `IndexCorrect` (`IndexIsComplete`), `TotalsCorrect` (`TotalsAddUp`), `PipelineCorrect` (`FundedOnce`), `SessionsCorrect` (`OneSessionUntilItsEnd`), `LoopsCorrect` (`BestLoopFound`) and `CyclesAreLoops`: the solver finds every simple loop within the length and nothing else |
| `PagesProofs` | `SigningInCorrect` (`CompletingIsLive`), `WalletCorrect` (`NotAskedTwice`), `ViewsCorrect` (`OwnInvoiceShown`), `PanelsCorrect` (`NoSecondSubmission`), `VerdictCorrect` (`VerdictRight`) |
| `Sums` | no theorem about the system: the lemmas about `SumFunctionOnSet` that `CertificatesProofs`, `ContractsProofs` and `ServicesProofs` cite |

**Assumptions.** Most say no more than that a constant is a number, that a set is finite, or that a marker (no call, no
certificate, not found) is none of the values it stands beside. Two say something about the world:

- `GraceAssumption` (`ExpiryCorrect` only): chain time trails the server's clock by no more than the grace period.
  Without it the theorem is false, and the code has no other reason for the grace period.
- `LeaseAssumption` (`WebhooksProofs`): no run of the pipeline lives as long as a lease. Nothing is assumed of the lock.

`ChecksAssumption` (`VerdictCorrect`) says which certificate is checked: one that can be netted (`buildCertificate` would not refuse it),
whose obligations are due or agreed to be netted early, of three to five parties, with the checking party on its first edge. Amounts, blindings, which
parties are smart accounts, and how the search for the event is cut into ranges are free; only a range of no block at all is excluded.
With two parties there would be no entry that the party does not see in full, and of the files those that alter such an entry would not exist.

`LoopsAssumption` (`LoopsCorrect`) says that there are finitely many rows, that what remains of one is a number, that loops have at least two rows
and at most `MaxLength`, and that the solver may list a cycle at all. The caps of the load and of the search are free.

`OperationsAssumption` says that an instance asks for operations the API has: the theorems about requests hold for any subset,
the run has one operation for each handler that differs.

**The rows and the ledger** (`CertificatesProofs`). `TypeOK` is inductive. Its part `Built` says that a certificate's amount is
at most what remained of each of its obligations; that needs `LeastInLoop`, that the
minimum of the amounts of a non-empty finite loop is one of them and bounds them all, and
`Finalized` then subtracts within the naturals because it starts from the amount the
certificate was built on and not from what the row shows. `LocksFollowCertificates` is inductive with the types: the
insert checks that no obligation of the loop is locked, and each of the four ways to close releases what the
certificate holds. `ClosedStaysClosed` follows from the types: each write to a certificate's status checks the status it leaves in the
same transaction. `ExpiredNeverApplied` is not inductive: between the answer of
`isApplied` and the write of `expired` the certificate might be applied. `GivenUpForGood` strengthens it: not only an expired certificate but one
that some running call is about to expire is unapplied and past its deadline in chain time.
It holds when the call decides because `now > deadline + Grace` and
`now <= chainNow + MaxLag`, and then stays, because the ledger refuses (`TooLateStays`, `LateIsTooLate`).

None of the other invariants is inductive, since each relates what somebody holds to what the ledger did
meanwhile. What they share is `LedgerFollowed`: every state of an obligation that a row, an open or closed certificate, or a
search still remembers is one the obligation *once had* on the ledger (`Held`), with what the certificates applied up to
then left of it. That survives every interleaving, because a late answer can only write a state of the past; that it does
not write one older than what the row shows follows from the versions being all different and each made by a certificate built on the one
before (`Grown`). `RowsFollowLedger` is then arithmetic. `OutOfSyncIsReal` needs only that what a search marks it saw differ
(`SearchHeld`), for the ledger never goes back; `AppliedIsRecorded` and `OpenCertificatesHold` are inductive on top of it, the former as
`Recorded`, the latter with the locks as well, by the kinds of change a step can make to a row (`RowStep`).

**Proposals** (`ProposalsProofs`). The inductive invariant says what a call may still rely on between its steps: what it has read of a proposal differs
from the row only in that the row may since have been closed, who it acts for is a party of the obligation other than the proposer, and
the time it took the statement at has not passed the expiry it read. The refinement follows because the one statement that changes rows checks again
everything else under its locks. `AnswersHold` adds `Truthful`, that what a call has answered is so, and stays so because nothing recorded or closed changes.

**The pipeline** (`WebhooksProofs`). Of a lease only what is left of it can be seen. The invariant sets that against the age of the run that holds it:
together they are at least what the lease was (`ChangesLeased`, `EventsLeased`), so that what a living run holds is
not due, and two runs stay apart (`Apart`). `ReadersKept` says that who could read when the readers were read has its event or is
still in the run's list. That a final status stays is from the same: the outcome a run records is of an attempt that is still the next one.

**Requests** (`RequestsProofs`). The invariant says where in its code a request may be under which key: who runs under a key that may not be taken over is alone
and is the first (`RunsAlone`), and what is about to be told or stored as a success is a doing that is stored (`Sound`). That what a request comes to is
documented is a fact about `Handlers`, by cases on the operations, and one about the request: no step comes to what its handler does not, and 500 is only ever replied.

**The contracts** (`ContractsProofs`). Each transaction works on its own view of storage. The invariant says what this view has:
the new value for what the call has been through, each of them checked against what the chain still holds, and the chain's own for all else
(`CallHeld`, `SettlingHeld`). Returning is then one step of the abstract contract: that no key is written twice, that every creditor
of a loop is a debtor (so the debtors' signatures are all the parties'), and that no invoice occurs twice in a loop follow from its shape
(`LoopKeys`, `Successors`). `PositionsUnchanged` uses the same invariant: only the return changes what is owed, and of the invoices a loop nets
each party is creditor of one and debtor of one, and the sums of a party's claims and debts fall by the same amount (`Sums`).

**The services** (`ServicesProofs`). *Grants*: per address at most one request holds the reservation (will send or has sent), and a row that says otherwise than
"none" says so of a transfer that exists; the cap is a count of the requests that passed the counter on a day. *Demo*: a claim is never given back, no two actions that
are about to broadcast have the same claim, and the reservations of all days add up to the cost of what is claimed. *Index*: what a run carries is backed by stored events up to its cursor
even if another run moved the stored one; while none outlived its lock the lock is the running one's, so the nonce it read is still the stored one.
*Totals*: whatever a refresh read, folded or saved counts each block to its own cursor once, so that it does not matter whose save comes last; `RangeIsFolded` shows
that folding a range that was returned twice or out of order counts its blocks once. *Pipeline*: a run that may still burn has not. *Sessions*: of those that hold or have used a nonce there is one, and a nonce
used is neither stored nor issued again; a sign-out is reported only when its token is listed until it expires.

**The search for loops** (`ServicesProofs`). The invariant is only that the rows are rows of the pool: what is proved is that four ways of not looking lose nothing.
*Load*: an edge of a loop through the party has an end at most half the length away along rows of the currency, so it is loaded (`LoopsAreLoaded`). *Neighbourhood*: an edge's way out,
itself and the way back fit in the length, so that it is kept (`NeighbourhoodKeepsLoops`). *Solver*: walks never meet a party again and close only
on simple loops (`WalksAreChains`); and it walks along every loop, which its components do not cut, since from
each edge one comes back to the start within as many steps as there are parties (`LoopsAreWalked`). A loop of some rows is one of all that
has only those rows (`LoopsOfRows`), so that what is found among what was loaded is what there is (`LoadedIsEnough`), in each currency. *Screening*: who could be on a loop with the party is in its
neighbourhood, so that every flagged party that matters is screened (`PartnersAreScreened`). What the search says of a
currency then follows by cases (`JudgedRight`), and of all of them because a reason is given only when no graver one was met (`GravestIsOne`).
Distances and walks are recursive functions; that they are what their recursion says is proved from the iterates of a function (`IteratesExist`).

**The pages** (`PagesProofs`). *Sign-in*: attempts are numbered as they start, so that the latest is the one `completingRef` is set for. *Wallet pages*: the send card's record is that of
the last transaction it has a hash for until that is mined; the others prepare only when nothing was asked since they were loaded, or it was rejected. *Private views*: an
invoice page sets payload and party together, and any load that begins takes "loaded" away. *Gateway*: every operation asked for is named by the record of its kind until the panel is told of its outcome.

**The check of a certificate** (`PagesProofs`). `FilesHeld` says what each of the files, whatever has been altered in it, keeps of the certificate that was built.
From it follow the two halves that do not mention the ledger: contents that pass are those of the certificate as built (`Passed`), because a content hash binds all
of its entries and each full entry binds its own commitments; and a genuine file passes them (`GenuineContents`, `BuiltProved`). The invariant of the rest, `ChecksHeld`, says of a check at each of
its steps that while nothing is found everything looked at so far was right (`NothingFound`), that nothing fails of a sound certificate unless a read did (`NoFalseAlarm`),
and that a doubt about one has a reason (`DoubtGrounded`). "Sound" is relative to where the check is (`SoundAt`): the ledger may apply or supersede the certificate between two reads, and
a check that has read the event is held to the head it read then. `Searched` connects the ranges of blocks to the history: if they are said to be complete, no block
that could hold the event is left out, which is arithmetic about division (`Division`, `Multiples`).

Where a sum or a count over a set is needed, its lemmas are proved by looking for a least counterexample (`Sums`): the
induction theorems of the library take an operator, which the provers cannot instantiate.

## 5. What is only model-checked

- Liveness (`LocksAreReleased`, `ApplicationsAreRecorded`, `ChangesAreFannedOut`, `EventsAreSettled`, `KeysAreSettled`): temporal reasoning with fairness and `ENABLED`
  is out of the prover's reach.
- The five disagreements of section 6, which are counterexamples.
- That `MCSystem` composes the parts as `Contracts`, `Services` and `Pages` do is by its definition; the theorems are about the specifications of these three.

## 6. Where documents and program disagree

- `docs/operations.md` says that an obligation out of sync has been moved by a
  certificate the database did not record. `OutOfSyncUnrecorded.cfg` shows a
  search that read a row before a certificate was proposed over it, saw the ledger
  after that certificate was applied, and marked the row while it still showed the old
  state. The certificate is then recorded as applied, and the row remains out of sync.
- `app/src/db/tenantWebhook.ts` says that queued events go with the endpoint, so that a later one
  never receives stale ones. `StaleEvent.cfg` shows a run that holds an event when
  the endpoint is removed: its attempt fails, `recordAttempt` makes the suppressed event
  pending again, and the next endpoint receives it. A condition `AND status = 'pending'` in
  that update would exclude it.
  While no other endpoint is set the event is given to no run (`claimDueEvents` joins the
  endpoints), which alone could mark it failed: it stays pending. `EventsAreSettled` therefore
  leaves out the events of a removed endpoint.
- `docs/gitbook/using-the-app.md` says that an interrupted send is asked about, so that it cannot be sent twice by
  mistake. `SentTwice.cfg` shows `SendCard` dropping its record when the wallet's call throws without
  a hash, and offering the same send again although the wallet broadcast it, or does so later.
- `SessionProvider.tsx` says that a leftover payload of one party cannot stay on screen under another's session.
  `LeftoverPayload.cfg` shows the certificate page, whose `load` sets the party at its start and the payload at its
  end: a load that was started for the first party ends after the second's has started.
- `actions/pipeline.ts` says that `settle` always extinguishes the invoices of a loop. `PartialLeftover.cfg` shows
  a loop of unequal invoices: `settle` nets the smallest from each, and the larger ones stay active with the rest,
  which the pipeline neither shows as dangling nor funds.

Smaller ones, which have no run. `docs/operations.md` has `webhook_deliveries` hold each attempt's result; when a run dies
between logging an attempt and counting it, the next attempt has the same number, and `ON CONFLICT (event_id, attempt) DO NOTHING` drops its result. `signInContext.tsx` says that answers of an abandoned attempt are
ignored; some branches of the provider do not ask. When `getInvoice` fails after a demo settled, the page shows a failure.
A cycle so long that part of it is not loaded is reported as "No loop of obligations runs through you" and not as too long; one
through a flagged party too far off to be screened (`proposeLoop.ts:210`) is reported as too long, although it could not be netted.
`loopSearch.ts:27` says that reaching the cap on cycles can only make the chosen loop smaller; the search answers `search-incomplete` then (line 196) and chooses none.
`packages/solver/src/propose.ts:9` says that every cycle within bounds is enumerated; `findCycles` stops at its cap, and an invoice loop found then need not be the largest.
`openapi.ts` has no response 500 for any operation; `http.ts` answers 500 to a failure, and `docs/gitbook/reference/api.md:110` lists it.
`api.md:90` says that requests get 503 when the rate limiter is unreachable; a `POST` under an `Idempotency-Key` reads the 500 of an uncertain result
(`http.ts:158`), although nothing was begun.
`partyChecks.ts` says that only a check "that definitely failed, as opposed to one that couldn't be made" tells a party that a certificate is bad; a read of the
chain id, of an account's code or of a slot that fails inside the verifier, and a smart account's call that fails, count as failed (`Threw` and "rejects" in `CheckContents`,
`CheckLedger`), and a read that fails in `checkAsParty` itself leaves the page checking.

## 7. What is not modelled

- Cryptography (hashes, EIP-712 and EIP-1271, cookies' encryption) and formats: a signature is valid for what it was made for.
- Row locks of the database: a transaction is one step of the models, so that the deadlock between
  `finalizeApplied`, which updates obligations in loop order, and `insertCertificate`, which locks them in
  id order, is not in them. What it leaves behind is a failed call, which is.
- The providers of compliance screening, the parsing of allowlists, and the hint about open certificates that goes with "nothing to net".
- The order in which webhook batches take due events, test events, and the purge after 30 days.
- Upgrades and initialisation of the contracts; the rate limiter's windows; third-party services
  (wallet and balance SDKs, block explorer); pages and formatting beyond what is named above.
