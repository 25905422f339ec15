------------------------------- MODULE Services ------------------------------
(***************************************************************************)
(* The services of the application that keep to themselves, side by side:  *)
(* starter grants, the demo, the chain index and the statistics, the       *)
(* invoice pipeline, sessions, and the search for loops.                   *)
(***************************************************************************)
EXTENDS Parts, FiniteSets

CONSTANTS
    \* starter grants (see StarterGrant)
    Asks, Grantees, GrantedBefore, DailyGrants, LastDay, NoAsk,
    \* the demo (see DemoRun)
    Actions, RingInvoices, Runs, Budget, DemoDays,
    \* the chain index (see ChainIndex)
    Syncs, LastBlock, ChunkBlocks, MaxEvents, NoSync,
    \* the statistics (see ProtocolStats)
    Refreshes, LastStatsBlock, StatsChunk, NoRefresh,
    \* the invoice pipeline (see InvoicePipeline)
    LoopInvoices, MaxResumes,
    \* sessions (see Sessions)
    Nonces, SignIns, NonceTTL, MessageTTL, SessionTTL, EndOfTime,
    \* the search for loops (see LoopSearch)
    Pool, Caller, Currencies, Rulings, Flaggable, MinLength, MinInvoices, MaxLength, MaxVertices,
    MaxCycles, PageSize, MaxRows, MaxQueries, MaxQueryParties

ASSUME ServicesAssumption ==
    /\ IsFiniteSet(Asks) /\ NoAsk \notin Asks /\ DailyGrants \in Nat /\ LastDay \in Nat \ {0}
    /\ RingInvoices \in Nat /\ Runs \in Nat /\ Budget \in Nat /\ DemoDays \in Nat \ {0}
    /\ NoSync \notin Syncs /\ ChunkBlocks \in Nat \ {0}
    /\ LastStatsBlock \in Nat /\ StatsChunk \in Nat \ {0}
    /\ Nonces # {} /\ NonceTTL \in Nat /\ MessageTTL \in Nat /\ SessionTTL \in Nat

VARIABLES operations, transfers, granted, counted, today, asks
grantsVars == <<operations, transfers, granted, counted, today, asks>>
Grants == INSTANCE StarterGrant WITH Addresses <- Grantees

VARIABLES
    claims, spent, recorded, broadcasts, landed, day, actions, demoPage
demosVars ==
    <<claims, spent, recorded, broadcasts, landed, day, actions, demoPage>>
Demos == INSTANCE DemoRun WITH Parties <- RingInvoices, page <- demoPage

VARIABLES blocks, meta, events, nonce, indexLock, syncs, outlived
indexesVars ==
    <<blocks, meta, events, nonce, indexLock, syncs, outlived>>
Indexes == INSTANCE ChainIndex WITH chain <- blocks

VARIABLES height, saved, lastError, statsLock, refreshes, view
statsVars == <<height, saved, lastError, statsLock, refreshes, view>>
Stats == INSTANCE ProtocolStats

VARIABLES
    loop, at, registered, status, netted, funded, target, deposits, confirmed,
    burns, minted, recovery, resumes
pipelinesVars ==
    <<loop, at, registered, status, netted, funded, target, deposits,
    confirmed, burns, minted, recovery, resumes>>
Pipelines == INSTANCE InvoicePipeline WITH Invoices <- LoopInvoices

VARIABLES clock, nonces, expiries, signIns, tokens, revoked, reported
signedVars ==
    <<clock, nonces, expiries, signIns, tokens, revoked, reported>>
Signed == INSTANCE Sessions WITH now <- clock

VARIABLES active, flagged, rules
loopsVars == <<active, flagged, rules>>
Loops == INSTANCE LoopSearch

ASSUME LoopsAssumption == Loops!ConstantsAssumption

servicesVars ==
    <<grantsVars, demosVars, indexesVars, statsVars, pipelinesVars, signedVars, loopsVars>>

ServicesInit ==
    /\ \/ part = "grants" /\ Grants!Init
       \/ part # "grants" /\ Unused(operations) /\ Unused(transfers) /\ Unused(granted)
          /\ Unused(counted) /\ Unused(today) /\ Unused(asks)
    /\ \/ part = "demo" /\ Demos!Init
       \/ part # "demo" /\ Unused(claims) /\ Unused(spent) /\ Unused(recorded)
          /\ Unused(broadcasts) /\ Unused(landed) /\ Unused(day) /\ Unused(actions)
          /\ Unused(demoPage)
    /\ \/ part = "index" /\ Indexes!Init
       \/ part # "index" /\ Unused(blocks) /\ Unused(meta) /\ Unused(events) /\ Unused(nonce)
          /\ Unused(indexLock) /\ Unused(syncs) /\ Unused(outlived)
    /\ \/ part = "stats" /\ Stats!Init
       \/ part # "stats" /\ Unused(height) /\ Unused(saved) /\ Unused(lastError)
          /\ Unused(statsLock) /\ Unused(refreshes) /\ Unused(view)
    /\ \/ part = "pipeline" /\ Pipelines!Init
       \/ part # "pipeline" /\ Unused(loop) /\ Unused(at) /\ Unused(registered) /\ Unused(status)
          /\ Unused(netted) /\ Unused(funded) /\ Unused(target) /\ Unused(deposits)
          /\ Unused(confirmed) /\ Unused(burns) /\ Unused(minted) /\ Unused(recovery)
          /\ Unused(resumes)
    /\ \/ part = "sessions" /\ Signed!Init
       \/ part # "sessions" /\ Unused(clock) /\ Unused(nonces) /\ Unused(expiries)
          /\ Unused(signIns) /\ Unused(tokens) /\ Unused(revoked) /\ Unused(reported)
    /\ \/ part = "loops" /\ Loops!Init
       \/ part # "loops" /\ Unused(active) /\ Unused(flagged) /\ Unused(rules)

ServicesNext ==
    /\ UNCHANGED part
    /\ \/ part = "grants" /\ Grants!Next
       \/ part = "demo" /\ Demos!Next
       \/ part = "index" /\ Indexes!Next
       \/ part = "stats" /\ Stats!Next
       \/ part = "pipeline" /\ Pipelines!Next
       \/ part = "sessions" /\ Signed!Next
       \/ part = "loops" /\ Loops!Next
    /\ IF part = "grants" THEN TRUE ELSE UNCHANGED grantsVars
    /\ IF part = "demo" THEN TRUE ELSE UNCHANGED demosVars
    /\ IF part = "index" THEN TRUE ELSE UNCHANGED indexesVars
    /\ IF part = "stats" THEN TRUE ELSE UNCHANGED statsVars
    /\ IF part = "pipeline" THEN TRUE ELSE UNCHANGED pipelinesVars
    /\ IF part = "sessions" THEN TRUE ELSE UNCHANGED signedVars
    /\ IF part = "loops" THEN TRUE ELSE UNCHANGED loopsVars

ServicesSpec == ServicesInit /\ [][ServicesNext]_<<part, servicesVars>>

-----------------------------------------------------------------------------
\* Each property is stated, and its code behaviour described, in the module of
\* the part.

\* An address is paid its grant at most once (see StarterGrant).
PaidOnce == part = "grants" => Grants!PaidOnce

\* The day's broadcasts stay within the budget (see DemoRun).
SpentWithinBudget == part = "demo" => Demos!SpentWithinBudget

\* What the demo shows as done has landed (see DemoRun).
ShownAsDone == part = "demo" => Demos!ShownAsDone

\* No event below the cursor is missing (see ChainIndex).
IndexIsComplete == part = "index" => Indexes!IndexIsComplete

\* The totals count every block to the cursor once (see ProtocolStats).
TotalsAddUp == part = "stats" => Stats!TotalsAddUp

\* A residual is deposited for and landed once (see InvoicePipeline).
FundedOnce == part = "pipeline" => Pipelines!FundedOnce

\* A signed message gives one session, which its sign-out ends (see Sessions).
OneSessionUntilItsEnd == part = "sessions" => Signed!OneSessionUntilItsEnd

\* A party is shown the best loop there is, or why there is none (see
\* LoopSearch).
BestLoopFound == part = "loops" => Loops!BestLoopFound
=============================================================================
