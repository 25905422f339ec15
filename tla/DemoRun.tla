------------------------------- MODULE DemoRun -------------------------------
(***************************************************************************)
(* The public demo: a page registers the invoices of a ring one at a time  *)
(* and settles it, through server actions that spend the operator's gas.   *)
(* An action claims its operation and its worst-case cost in one script of *)
(* the store before it broadcasts; any of its other calls may fail, and it *)
(* goes on although the page that asked is gone.                           *)
(***************************************************************************)
EXTENDS Naturals, FiniteSets

CONSTANTS
    Actions,        \* server actions that run
    Parties,        \* invoices of a ring
    Runs,           \* bound on the runs of the page, each with a salt of its own
    Budget,         \* the day's budget, in the cost of a registration
    DemoDays        \* bound on the days

SettleCost == 2     \* DEMO_SETTLE_MAX_GAS, in registrations
Settle == Parties + 1
Operations == (1..Runs) \X (1..Settle)
Cost(step) == IF step = Settle THEN SettleCost ELSE 1

VARIABLES
    claims,         \* the permanent key of each operation
    spent,          \* the day's reservations
    recorded,       \* the steps whose invoice is recorded for a run
    broadcasts,     \* how often an operation was broadcast
    landed,         \* operations whose transaction succeeded
    day,
    actions,
    page

demoVars == <<claims, spent, recorded, broadcasts, landed, day, actions, page>>

NoAction == [at |-> "idle", run |-> 1, step |-> 1, on |-> 1, read |-> {}]

Init ==
    /\ claims = [o \in Operations |-> "none"]
    /\ spent = [d \in 1..DemoDays |-> 0]
    /\ recorded = [r \in 1..Runs |-> {}]
    /\ broadcasts = [o \in Operations |-> 0]
    /\ landed = {}
    /\ day = 1
    /\ actions = [c \in Actions |-> NoAction]
    /\ page = [phase |-> "idle", run |-> 0, step |-> 0, awaits |-> {}]

At(c, place) == actions[c].at = place
Go(c, place) == actions' = [actions EXCEPT ![c].at = place]
Op(c) == <<actions[c].run, actions[c].step>>
Ring(r) == {<<r, step>> : step \in 1..Parties}

-----------------------------------------------------------------------------
\* registerCycleInvoiceStep and settleProposedCycle.
Begin(c, run, step) ==
    /\ At(c, "idle")
    /\ actions' = [actions EXCEPT ![c] = [NoAction EXCEPT
           !.at = IF step = Settle THEN "binding" ELSE "inspecting", !.run = run, !.step = step]]

\* The settlement is bound to the invoices recorded for the run, all of them.
Bind(c) ==
    /\ At(c, "binding")
    /\ Go(c, IF recorded[actions[c].run] = 1..Parties THEN "inspecting" ELSE "error")
    /\ UNCHANGED <<claims, spent, recorded, broadcasts, landed, day, page>>

Found(c) ==
    CASE claims[Op(c)] = "complete" -> IF actions[c].step = Settle THEN "ok" ELSE "replaying"
      [] claims[Op(c)] = "pending" -> "error"
      [] OTHER -> IF actions[c].step = Settle THEN "proposing" ELSE "claiming"

Inspect(c) ==
    /\ At(c, "inspecting")
    /\ Go(c, Found(c))
    /\ UNCHANGED <<claims, spent, recorded, broadcasts, landed, day, page>>

Settleable(r) == Ring(r) \subseteq landed /\ <<r, Settle>> \notin landed

\* No slot is paid for when there is no settleable cycle.
Propose(c) ==
    /\ At(c, "proposing")
    /\ Go(c, IF Settleable(actions[c].run) THEN "claiming" ELSE "error")
    /\ UNCHANGED <<claims, spent, recorded, broadcasts, landed, day, page>>

\* The day is the caller's when it sends the script.
SendClaim(c) ==
    /\ At(c, "claiming")
    /\ actions' = [actions EXCEPT ![c].at = "claim sent", ![c].on = day]
    /\ UNCHANGED <<claims, spent, recorded, broadcasts, landed, day, page>>

\* The claim without looking at what is reserved already.
ClaimUnlimited(c) ==
    /\ At(c, "claim sent")
    /\ \/ /\ claims[Op(c)] # "none" /\ Go(c, Found(c)) /\ UNCHANGED <<claims, spent>>
       \/ /\ claims[Op(c)] = "none" /\ Go(c, "error") /\ UNCHANGED <<claims, spent>>
       \/ /\ claims[Op(c)] = "none"
          /\ spent' = [spent EXCEPT ![actions[c].on] = @ + Cost(actions[c].step)]
          /\ claims' = [claims EXCEPT ![Op(c)] = "pending"]
          /\ Go(c, "broadcasting") \/ Go(c, "error")
    /\ UNCHANGED <<recorded, broadcasts, landed, day, page>>

\* The script; the caller may be refused by the rate limit or not be answered.
Claim(c) ==
    /\ At(c, "claim sent")
    /\ \/ /\ claims[Op(c)] # "none" /\ Go(c, Found(c)) /\ UNCHANGED <<claims, spent>>
       \/ /\ claims[Op(c)] = "none" /\ Go(c, "error") /\ UNCHANGED <<claims, spent>>
       \/ /\ claims[Op(c)] = "none"
          /\ spent[actions[c].on] + Cost(actions[c].step) <= Budget
          /\ spent' = [spent EXCEPT ![actions[c].on] = @ + Cost(actions[c].step)]
          /\ claims' = [claims EXCEPT ![Op(c)] = "pending"]
          /\ Go(c, "broadcasting") \/ Go(c, "error")
    /\ UNCHANGED <<recorded, broadcasts, landed, day, page>>

\* settleBestCycle derives its call again before it is broadcast.
Broadcast(c) ==
    /\ At(c, "broadcasting")
    /\ actions[c].step = Settle => Settleable(actions[c].run)
    /\ broadcasts' = [broadcasts EXCEPT ![Op(c)] = @ + 1]
    /\ Go(c, "awaiting")
    /\ UNCHANGED <<claims, spent, recorded, landed, day, page>>

Land(o) ==
    /\ broadcasts[o] > 0 /\ o \notin landed
    /\ o[2] = Settle => Settleable(o[1])
    /\ landed' = landed \cup {o}
    /\ UNCHANGED <<claims, spent, recorded, broadcasts, day, actions, page>>

\* A receipt that is not waited for.
AwaitNothing(c) ==
    /\ At(c, "awaiting")
    /\ Go(c, IF actions[c].step = Settle THEN "completing" ELSE "remembering")
    /\ UNCHANGED <<claims, spent, recorded, broadcasts, landed, day, page>>

AwaitReceipt(c) ==
    /\ At(c, "awaiting") /\ Op(c) \in landed
    /\ Go(c, IF actions[c].step = Settle THEN "completing" ELSE "remembering")
    /\ UNCHANGED <<claims, spent, recorded, broadcasts, landed, day, page>>

\* rememberDemoRunInvoiceId reads the list and writes it back; a failure is
\* swallowed.
ReadRecorded(c) ==
    /\ At(c, "remembering") \/ At(c, "replaying")
    /\ actions' = [actions EXCEPT ![c].read = recorded[actions[c].run],
                       ![c].at = IF At(c, "remembering") THEN "recording" ELSE "rerecording"]
    /\ UNCHANGED <<claims, spent, recorded, broadcasts, landed, day, page>>

WriteRecorded(c) ==
    /\ At(c, "recording") \/ At(c, "rerecording")
    /\ Go(c, IF At(c, "recording") THEN "completing" ELSE "ok")
    /\ \/ recorded' = [recorded EXCEPT ![actions[c].run] = actions[c].read \cup {actions[c].step}]
       \/ UNCHANGED recorded
    /\ UNCHANGED <<claims, spent, broadcasts, landed, day, page>>

Complete(c) ==
    /\ At(c, "completing")
    /\ Go(c, "ok")
    /\ claims' = [claims EXCEPT ![Op(c)] = "complete"] \/ UNCHANGED claims
    /\ UNCHANGED <<spent, recorded, broadcasts, landed, day, page>>

\* A call throws, a transaction reverts or its outcome stays unknown.
Fail(c) ==
    /\ actions[c].at \in {"binding", "inspecting", "proposing", "claiming", "broadcasting", "awaiting"}
    /\ Go(c, "error")
    /\ UNCHANGED <<claims, spent, recorded, broadcasts, landed, day, page>>

-----------------------------------------------------------------------------
\* The page, which awaits each of its actions.
RunFixture(c) ==
    /\ page.phase \in {"idle", "done"} /\ page.run < Runs
    /\ Begin(c, page.run + 1, 1)
    /\ page' = [phase |-> "running", run |-> page.run + 1, step |-> 1, awaits |-> {c}]
    /\ UNCHANGED <<claims, spent, recorded, broadcasts, landed, day>>

SettleClick(c) ==
    /\ page.phase = "readyToSettle"
    /\ Begin(c, page.run, Settle)
    /\ page' = [page EXCEPT !.phase = "settling", !.awaits = {c}]
    /\ UNCHANGED <<claims, spent, recorded, broadcasts, landed, day>>

Registered(c) ==
    /\ page.phase = "running" /\ c \in page.awaits
    /\ \/ /\ At(c, "ok") /\ page.step < Parties
          /\ actions' = [actions EXCEPT ![c] = [NoAction EXCEPT
                 !.at = "inspecting", !.run = page.run, !.step = page.step + 1]]
          /\ page' = [page EXCEPT !.step = @ + 1]
       \/ /\ At(c, "ok") /\ page.step = Parties
          /\ actions' = [actions EXCEPT ![c] = NoAction]
          /\ page' = [page EXCEPT !.phase = "proposing", !.awaits = {}]
       \/ /\ At(c, "error")
          /\ actions' = [actions EXCEPT ![c] = NoAction]
          /\ page' = [page EXCEPT !.phase = "idle", !.awaits = {}]
    /\ UNCHANGED <<claims, spent, recorded, broadcasts, landed, day>>

ProposeCycle ==
    /\ page.phase = "proposing"
    /\ \/ Settleable(page.run) /\ page' = [page EXCEPT !.phase = "readyToSettle"]
       \/ page' = [page EXCEPT !.phase = "idle"]
    /\ UNCHANGED <<claims, spent, recorded, broadcasts, landed, day, actions>>

Settled(c) ==
    /\ page.phase = "settling" /\ c \in page.awaits
    /\ \/ At(c, "ok") /\ page' = [page EXCEPT !.phase = "done", !.awaits = {}]
       \/ At(c, "error") /\ page' = [page EXCEPT !.phase = "settleFailed", !.awaits = {}]
    /\ actions' = [actions EXCEPT ![c] = NoAction]
    /\ UNCHANGED <<claims, spent, recorded, broadcasts, landed, day>>

\* The user resets a failed page or loads it anew; its actions go on.
Reset ==
    /\ page.phase # "idle"
    /\ page' = [page EXCEPT !.phase = "idle", !.awaits = {}]
    /\ UNCHANGED <<claims, spent, recorded, broadcasts, landed, day, actions>>

Forget(c) ==
    /\ At(c, "ok") \/ At(c, "error")
    /\ c \notin page.awaits
    /\ actions' = [actions EXCEPT ![c] = NoAction]
    /\ UNCHANGED <<claims, spent, recorded, broadcasts, landed, day, page>>

\* Anyone may send an action of the run again.
Repeat(c, step) ==
    /\ page.run > 0
    /\ Begin(c, page.run, step)
    /\ UNCHANGED <<claims, spent, recorded, broadcasts, landed, day, page>>

\* Two hours pass without a registration, or the day ends.
Expire(r) ==
    /\ recorded[r] # {} /\ recorded' = [recorded EXCEPT ![r] = {}]
    /\ UNCHANGED <<claims, spent, broadcasts, landed, day, actions, page>>

NextDay ==
    /\ day < DemoDays /\ day' = day + 1
    /\ UNCHANGED <<claims, spent, recorded, broadcasts, landed, actions, page>>

Next ==
    \/ \E c \in Actions :
          \/ Bind(c) \/ Inspect(c) \/ Propose(c) \/ SendClaim(c) \/ Claim(c) \/ Broadcast(c)
          \/ AwaitReceipt(c) \/ ReadRecorded(c) \/ WriteRecorded(c) \/ Complete(c) \/ Fail(c)
          \/ RunFixture(c) \/ SettleClick(c) \/ Registered(c) \/ Settled(c) \/ Forget(c)
          \/ \E step \in 1..Settle : Repeat(c, step)
    \/ \E o \in Operations : Land(o)
    \/ \E r \in 1..Runs : Expire(r)
    \/ ProposeCycle \/ Reset \/ NextDay

-----------------------------------------------------------------------------
\* Whatever fails, races or is sent again, no operation is broadcast twice and
\* what is broadcast costs no more than was reserved within the days' budgets.
SpentWithinBudget ==
    LET out == {o \in Operations : broadcasts[o] > 0}
        settlements == {o \in out : o[2] = Settle} IN
    /\ \A o \in out : broadcasts[o] = 1
    /\ Cardinality(out \ settlements) + SettleCost * Cardinality(settlements) <= Budget * day

\* The page shows a ring as settled only when its settlement landed, and a
\* settlement is broadcast only for a ring all of whose invoices landed.
ShownAsDone ==
    /\ page.phase = "done" => <<page.run, Settle>> \in landed
    /\ \A r \in 1..Runs : broadcasts[<<r, Settle>>] > 0 => Ring(r) \subseteq landed
=============================================================================
