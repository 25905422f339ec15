---------------------------- MODULE GatewayPanels ----------------------------
(***************************************************************************)
(* The balance page: the deposit panel and the move panel, both mounted,   *)
(* each with one handler.  A record of the operation is kept in the        *)
(* browser before the wallet is asked for anything and outlives a reload.  *)
(* An operation may be rejected, take effect without the call answering,   *)
(* or be answered; Circle burns the moved amount and mints it on Arc, and  *)
(* an error may carry the mint to retry or the transfer to follow.         *)
(* Amounts are units of one deposit; the fees are left out.                *)
(***************************************************************************)
EXTENDS Naturals

CONSTANT MaxOps         \* bound on the deposits and moves the page asks for

Kinds == {"deposit", "move"}

VARIABLES
    ops,            \* what the wallet was asked for and what became of it
    asked,          \* how many
    told,           \* those whose outcome a panel took as known
    records,        \* the browser's record of each kind
    handlers,       \* where the handler of each panel waits
    confirmed       \* the balance Gateway confirms on the source chain

panelVars == <<ops, asked, told, records, handlers, confirmed>>

NoRecord == [state |-> "none", op |-> 0, target |-> 0]
Unknown(target) == [state |-> "submission_unknown", op |-> asked + 1, target |-> target]
NoOp == [kind |-> "none", state |-> "none"]

Init ==
    /\ ops = [n \in 1..MaxOps |-> NoOp] /\ asked = 0 /\ told = {}
    /\ records = [k \in Kinds |-> NoRecord]
    /\ handlers = [k \in Kinds |-> "idle"]
    /\ confirmed = 0

Wait(k, place) == handlers' = [handlers EXCEPT ![k] = place]
Record(k, record) == records' = [records EXCEPT ![k] = record]
Mark(n, state) == ops' = [ops EXCEPT ![n].state = state]
Current(k) == ops[records[k].op]
Clear(k) ==
    /\ told' = told \union {records[k].op}
    /\ Record(k, NoRecord)
    /\ Wait(k, "idle")

-----------------------------------------------------------------------------
\* The guard of handleDeposit and handleMove: neither kind has a record.  A
\* move is reviewed only against a confirmed balance that covers it.
SubmitUnchecked(k) ==
    /\ handlers[k] = "idle"
    /\ k = "move" => confirmed > 0
    /\ Wait(k, "preparing")
    /\ UNCHANGED <<ops, asked, told, records, confirmed>>

Submit(k) ==
    /\ handlers[k] = "idle"
    /\ \A other \in Kinds : records[other] = NoRecord
    /\ k = "move" => confirmed > 0
    /\ Wait(k, "preparing")
    /\ UNCHANGED <<ops, asked, told, records, confirmed>>

\* The network, the account or the reading of the balance fails, or the record
\* cannot be saved: nothing was asked.
NotAsked(k) ==
    /\ handlers[k] = "preparing"
    /\ Wait(k, "idle")
    /\ UNCHANGED <<ops, asked, told, records, confirmed>>

\* The balance before a deposit is read, the record is saved, the call made.
Ask(k) ==
    /\ handlers[k] = "preparing" /\ asked < MaxOps
    /\ Record(k, Unknown(confirmed + 1))
    /\ asked' = asked + 1
    /\ ops' = [ops EXCEPT ![asked + 1] = [kind |-> k, state |-> "asked"]]
    /\ Wait(k, "asking")
    /\ UNCHANGED <<told, confirmed>>

\* A deposit answers once its transaction was sent, a move once it is minted.
Answered(k) ==
    /\ handlers[k] = "asking"
    /\ IF k = "deposit" THEN Current(k).state \in {"sent", "confirmed"}
                        ELSE Current(k).state = "minted"
    /\ Clear(k)
    /\ UNCHANGED <<ops, asked, confirmed>>

\* gatewayMoveRecoveryFromError: once Circle has burned the amount the error
\* may carry the mint's attestation or the id of the transfer, or neither.
Recoveries(k) ==
    {"submission_unknown"} \union
        (IF k = "move" /\ Current(k).state \in {"burned", "minted"}
         THEN {"retry_mint", "forwarder_pending"} ELSE {})

\* The call failed, which a rejection by the person does as well.
Unanswered(k) ==
    /\ handlers[k] = "asking"
    /\ \E state \in Recoveries(k) : Record(k, [records[k] EXCEPT !.state = state])
    /\ Wait(k, "idle")
    /\ UNCHANGED <<ops, asked, told, confirmed>>

\* handleCheckDeposit: the confirmed balance has reached the record's target.
CheckDeposit ==
    /\ handlers["deposit"] = "idle" /\ records["deposit"] # NoRecord
    /\ confirmed >= records["deposit"].target
    /\ Clear("deposit")
    /\ UNCHANGED <<ops, asked, confirmed>>

RetryMint ==
    /\ handlers["move"] = "idle" /\ records["move"].state = "retry_mint"
    /\ Record("move", [records["move"] EXCEPT !.state = "mint_retry_submitting"])
    /\ Wait("move", "minting")
    /\ UNCHANGED <<ops, asked, told, confirmed>>

RetryAnswered ==
    /\ handlers["move"] = "minting" /\ Current("move").state = "minted"
    /\ Clear("move")
    /\ UNCHANGED <<ops, asked, confirmed>>

\* A fatal error leaves the outcome unknown, any other may be retried.
RetryFailed ==
    /\ handlers["move"] = "minting"
    /\ \E state \in {"submission_unknown", "retry_mint"} :
           Record("move", [records["move"] EXCEPT !.state = state])
    /\ Wait("move", "idle")
    /\ UNCHANGED <<ops, asked, told, confirmed>>

\* handleCheckForwarder clears the record of a delivered transfer only.
CheckForwarder ==
    /\ handlers["move"] = "idle" /\ records["move"].state = "forwarder_pending"
    /\ Current("move").state = "minted"
    /\ Clear("move")
    /\ UNCHANGED <<ops, asked, confirmed>>

Reload ==
    /\ handlers' = [k \in Kinds |-> "idle"]
    /\ UNCHANGED <<ops, asked, told, records, confirmed>>

-----------------------------------------------------------------------------
\* The wallet, the source chain and Circle.
Progress(n) ==
    /\ UNCHANGED <<asked, told, records, handlers>>
    /\ \/ ops[n].state = "asked" /\ Mark(n, "rejected") /\ UNCHANGED confirmed
       \/ ops[n].state = "asked" /\ Mark(n, "sent") /\ UNCHANGED confirmed
       \/ ops[n].kind = "deposit" /\ ops[n].state = "sent"
          /\ Mark(n, "confirmed") /\ confirmed' = confirmed + 1
       \/ ops[n].kind = "move" /\ ops[n].state = "sent" /\ confirmed > 0
          /\ Mark(n, "burned") /\ confirmed' = confirmed - 1
       \/ ops[n].state = "burned" /\ Mark(n, "minted") /\ UNCHANGED confirmed

Next ==
    \/ \E k \in Kinds : Submit(k) \/ NotAsked(k) \/ Ask(k) \/ Answered(k) \/ Unanswered(k)
    \/ CheckDeposit \/ RetryMint \/ RetryAnswered \/ RetryFailed \/ CheckForwarder
    \/ Reload
    \/ \E n \in 1..asked : Progress(n)

-----------------------------------------------------------------------------
\* A deposit is asked for only after the panel was told the outcome of every
\* earlier one, and a move only after every earlier one was minted, whatever
\* was reloaded or failed in between: submitting again could pay twice.
NoSecondSubmission ==
    \A m, n \in 1..asked :
        (m < n /\ ops[m].kind = ops[n].kind) =>
            m \in told /\ (ops[m].kind = "move" => ops[m].state = "minted")
=============================================================================
