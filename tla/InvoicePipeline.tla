--------------------------- MODULE InvoicePipeline ---------------------------
(***************************************************************************)
(* runSettlementPipeline: register a set of invoices one after the other,  *)
(* settle the best loop among them, and land USDC on Arc for what no loop  *)
(* reached: deposit into Gateway, wait until the confirmed balance rose by *)
(* the deposit, spend it onto Arc.  Every call may fail before or after it *)
(* took effect.  A funding that stopped halfway is resumed from its error. *)
(* An invoice is one unit, and so is an earlier deposit of the operator,   *)
(* which may be confirmed at any time; fees and the quote are left out.    *)
(***************************************************************************)
EXTENDS Naturals

CONSTANTS
    Invoices,       \* invoices of a run: 1..Invoices
    MaxResumes      \* bound on the resumed calls

VARIABLES
    loop,           \* the invoices that a loop can net, none or some
    at,             \* where the pipeline or a resumed call waits
    registered,     \* the invoices it saw registered, in order: 1..registered
    status,         \* settleStatus
    netted,         \* the invoices netted on chain
    funded,         \* the dangling invoices whose amount is being landed
    target,         \* the confirmed balance a deposit is waited for with
    deposits,       \* deposits broadcast, and those among them confirmed
    confirmed,      \* the balance Gateway confirms on the source chain
    burns,          \* transfers Circle accepted
    minted,         \* those delivered on Arc
    recovery,       \* what the error says to do: none when there is no error
    resumes

pipelineVars == <<loop, at, registered, status, netted, funded, target, deposits,
                  confirmed, burns, minted, recovery, resumes>>
settled == <<loop, registered, status, netted, funded>>
money == <<target, deposits, confirmed, burns, minted>>

Pile(n) == 1..n

Init ==
    /\ loop \in {{}, Pile(Invoices - 1)}
    /\ at = "registering" /\ registered = 0 /\ status = "not_attempted"
    /\ netted = {} /\ funded = {} /\ target = 0
    /\ deposits = [sent |-> 0, earlier |-> 1]
    /\ confirmed = 0 /\ burns = 0 /\ minted = 0
    /\ recovery = "none" /\ resumes = 0

-----------------------------------------------------------------------------
\* registerInvoice, one at a time; the first failure ends the run.
Register ==
    /\ at = "registering" /\ registered < Invoices
    /\ \/ registered' = registered + 1 /\ UNCHANGED at
       \/ at' = "done" /\ UNCHANGED registered
    /\ UNCHANGED <<loop, status, netted, funded, money, recovery, resumes>>

\* settleBestCycle: no loop, a settlement, one reverted, or an error that leaves
\* the outcome unknown, whether the transaction lands or not.
Settle ==
    /\ at = "registering" /\ registered = Invoices
    /\ \/ loop = {} /\ status' = "no_cycle" /\ UNCHANGED netted
       \/ loop # {} /\ status' = "settled" /\ netted' = loop
       \/ loop # {} /\ status' = "failed" /\ UNCHANGED netted
       \/ status' = "unknown" /\ netted' \in {netted, loop}
    /\ at' = "settled"
    /\ UNCHANGED <<loop, registered, funded, money, recovery, resumes>>

Dangling == Pile(registered) \ (IF status = "settled" THEN loop ELSE {})

\* The residual: only a run that settled, or found nothing to settle, has one.
FundableAlways == Dangling # {}
Fundable == status \in {"settled", "no_cycle"} /\ Dangling # {}

\* fundResidualViaGateway reads the balance before it deposits.
Fund ==
    /\ at = "settled"
    /\ IF Fundable
       THEN \/ /\ at' = "depositing" /\ funded' = Dangling
               /\ target' = confirmed + 1
            \/ at' = "done" /\ UNCHANGED <<funded, target>>
       ELSE at' = "done" /\ UNCHANGED <<funded, target>>
    /\ UNCHANGED <<loop, registered, status, netted, deposits, confirmed, burns, minted, recovery, resumes>>

Stop(what) == at' = "stopped" /\ recovery' = what

\* The deposit's call answers, or fails before or after it was broadcast.
Deposit ==
    /\ at = "depositing"
    /\ \/ deposits' = [deposits EXCEPT !.sent = @ + 1] /\ at' = "polling" /\ UNCHANGED recovery
       \/ deposits' \in {deposits, [deposits EXCEPT !.sent = @ + 1]} /\ Stop("await_balance")
    /\ UNCHANGED <<settled, target, confirmed, burns, minted, resumes>>

\* The polls end without the balance, or a reading of it fails.
PollFailed ==
    /\ at = "polling" /\ Stop("await_balance")
    /\ UNCHANGED <<settled, money, resumes>>

Polled ==
    /\ at = "polling" /\ confirmed >= target
    /\ at' = "spending"
    /\ UNCHANGED <<settled, money, recovery, resumes>>

\* spendOntoArc, where Circle burns and mints.  An error after the burn carries
\* the mint to retry, or does not.
Spend ==
    /\ at = "spending"
    /\ \/ Stop("manual_review") /\ UNCHANGED <<confirmed, burns, minted>>
       \/ /\ confirmed > 0
          /\ confirmed' = confirmed - 1 /\ burns' = burns + 1
          /\ \/ at' = "done" /\ minted' = minted + 1 /\ UNCHANGED recovery
             \/ Stop("manual_review") /\ minted' \in {minted, minted + 1}
             \/ Stop("retry_mint") /\ minted' \in {minted, minted + 1}
    /\ UNCHANGED <<settled, target, deposits, resumes>>

\* A mint is accepted once, however often it is retried.
Mint ==
    /\ at = "minting"
    /\ minted' \in {minted, burns}
    /\ IF minted' = burns /\ minted # burns THEN at' = "done" /\ UNCHANGED recovery
                                             ELSE Stop("retry_mint")
    /\ UNCHANGED <<settled, target, deposits, confirmed, burns, resumes>>

\* resumeFundResidualViaGateway, with the fields of the error.
Resume(next) ==
    /\ at = "stopped" /\ resumes < MaxResumes
    /\ resumes' = resumes + 1
    /\ at' = next
    /\ UNCHANGED <<settled, money, recovery>>

ResumeFunding == recovery = "await_balance" /\ Resume("polling")
ResumeMint == recovery = "retry_mint" /\ Resume("minting")

\* Gateway confirms a deposit: the pipeline's, or the earlier one.
Confirm ==
    /\ \E of \in {"sent", "earlier"} :
           deposits[of] > 0 /\ deposits' = [deposits EXCEPT ![of] = @ - 1]
    /\ confirmed' = confirmed + 1
    /\ UNCHANGED <<settled, target, burns, minted, at, recovery, resumes>>

Next ==
    \/ Register \/ Settle \/ Fund \/ Deposit \/ PollFailed \/ Polled \/ Spend
    \/ Mint \/ ResumeFunding \/ ResumeMint \/ Confirm

-----------------------------------------------------------------------------
\* Whatever fails and is resumed, Circle is asked for one transfer only and at
\* most one is delivered, also when an earlier deposit is what the poll saw
\* ("never make a second deposit to recover an ambiguous first call"), and it is
\* for invoices that no settlement reached, above all not for those of a
\* settlement whose outcome the run never learned.
FundedOnce ==
    /\ burns <= 1 /\ minted <= burns
    /\ funded \intersect netted = {}
=============================================================================
