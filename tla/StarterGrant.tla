----------------------------- MODULE StarterGrant ----------------------------
(***************************************************************************)
(* The one-time gas grant: the operator pays a signed-in address once.     *)
(* Requests run at once, any of them may end anywhere, and a transfer may  *)
(* have been broadcast although its sender was told that it failed.  A     *)
(* transfer is named by the request that sends it.                         *)
(***************************************************************************)
EXTENDS Naturals, FiniteSets

CONSTANTS
    Asks,           \* requests for a grant
    Addresses,      \* addresses that sign in
    GrantedBefore,  \* those granted before operations were recorded
    DailyGrants,    \* grants within a day's spend cap
    LastDay,        \* bound on the days
    NoAsk           \* no transfer

VARIABLES
    operations,     \* starter_grant_operations: a row per address
    transfers,      \* what became of the transfer of each request
    granted,        \* addresses: the transfer each address was granted by
    counted,        \* the counter of each day's grants
    today,
    asks            \* the requests that run

grantVars == <<operations, transfers, granted, counted, today, asks>>

Init ==
    /\ operations = [a \in Addresses |-> IF a \in GrantedBefore
                         THEN [status |-> "confirmed", tx |-> NoAsk]
                         ELSE [status |-> "none", tx |-> NoAsk]]
    /\ transfers = [k \in Asks |-> "none"]
    /\ granted = [a \in Addresses |-> NoAsk]
    /\ counted = [d \in 1..LastDay |-> 0]
    /\ today = 1
    /\ asks = [k \in Asks |-> [at |-> "idle", to |-> NoAsk, day |-> 0]]

At(k, place) == asks[k].at = place
To(k) == asks[k].to
Go(k, place) == asks' = [asks EXCEPT ![k].at = place]

-----------------------------------------------------------------------------
\* The statements on the two tables, on the row of one address.
SetOperation(a, status, tx) == operations' = [operations EXCEPT ![a] = [status |-> status, tx |-> tx]]
Kept(write) == write \/ UNCHANGED <<operations, granted>>

reserve(a) == SetOperation(a, "reserved", NoAsk) /\ UNCHANGED granted

markSubmitted(a, k) ==
    IF operations[a].status \in {"reserved", "unknown", "submitted"}
    THEN SetOperation(a, "submitted", k) /\ UNCHANGED granted
    ELSE UNCHANGED <<operations, granted>>

markUnknown(a, k) ==
    IF operations[a].status \in {"reserved", "submitted", "unknown"}
    THEN SetOperation(a, "unknown", IF k = NoAsk THEN operations[a].tx ELSE k) /\ UNCHANGED granted
    ELSE UNCHANGED <<operations, granted>>

markReverted(a) ==
    IF operations[a].status \notin {"none", "confirmed"}
    THEN SetOperation(a, "reverted", operations[a].tx) /\ UNCHANGED granted
    ELSE UNCHANGED <<operations, granted>>

complete(a, k) ==
    /\ granted' = [granted EXCEPT ![a] = k]
    /\ IF operations[a].status \in {"reserved", "submitted", "unknown", "confirmed"}
       THEN SetOperation(a, "confirmed", k)
       ELSE UNCHANGED operations

-----------------------------------------------------------------------------
\* requestStarterGrant, one call to the database, the limiter or the chain at
\* a time; every write to the database may fail, with or without its effect.
Ask(k, a) ==
    /\ At(k, "idle")
    /\ asks' = [asks EXCEPT ![k] = [at |-> "reading", to |-> a, day |-> 0]]
    /\ UNCHANGED <<operations, transfers, granted, counted, today>>

\* Grants made since operations are recorded are stored under the lower case
\* of the address and not found under the session's spelling of it.
ReadGranted(k) ==
    /\ At(k, "reading")
    /\ Go(k, IF To(k) \in GrantedBefore THEN "already" ELSE "read")
    /\ UNCHANGED <<operations, transfers, granted, counted, today>>

ReadOperation(k) ==
    /\ At(k, "read")
    /\ Go(k, LET operation == operations[To(k)] IN
             CASE operation.status = "none" -> "limiting"
               [] operation.status = "confirmed" -> "already"
               [] operation.status \in {"submitted", "unknown"} /\ operation.tx # NoAsk -> "reconciling"
               [] OTHER -> "refused")
    /\ UNCHANGED <<operations, transfers, granted, counted, today>>

\* A receipt that is not there yet, or a failed call, only says to wait.
Reconcile(k) ==
    /\ At(k, "reconciling")
    /\ LET tx == operations[To(k)].tx IN
       \/ Go(k, "refused") /\ UNCHANGED <<operations, granted>>
       \/ transfers[tx] = "success" /\ complete(To(k), tx) /\ Go(k, "already")
       \/ transfers[tx] = "reverted" /\ markReverted(To(k)) /\ Go(k, "refused")
    /\ UNCHANGED <<transfers, counted, today>>

\* The grant is counted before it is made, and stays counted if it fails.
CountGrant(k) ==
    /\ At(k, "limiting")
    /\ \/ Go(k, "refused") /\ UNCHANGED counted     \* the limiter refuses
       \/ /\ counted' = [counted EXCEPT ![today] = @ + 1]
          /\ asks' = [asks EXCEPT ![k].day = today,
                          ![k].at = IF counted[today] + 1 > DailyGrants THEN "refused" ELSE "reserving"]
    /\ UNCHANGED <<operations, transfers, granted, today>>

\* A reservation whose row was read before it was made by another request.
ReserveOverwriting(k) ==
    /\ At(k, "reserving")
    /\ reserve(To(k)) /\ Go(k, "sending")
    /\ UNCHANGED <<transfers, counted, today>>

Reserve(k) ==
    /\ At(k, "reserving")
    /\ \/ operations[To(k)].status = "none" /\ reserve(To(k)) /\ Go(k, "sending")
       \/ operations[To(k)].status # "none" /\ Go(k, "refused") /\ UNCHANGED <<operations, granted>>
    /\ UNCHANGED <<transfers, counted, today>>

\* A call that fails may have broadcast the transfer.
Send(k) ==
    /\ At(k, "sending")
    /\ \/ transfers' = [transfers EXCEPT ![k] = "pending"] /\ Go(k, "submitting")
       \/ transfers' = [transfers EXCEPT ![k] = "pending"] /\ Go(k, "lost")
       \/ UNCHANGED transfers /\ Go(k, "lost")
    /\ UNCHANGED <<operations, granted, counted, today>>

RecordUnknown(k) ==
    /\ At(k, "lost") \/ At(k, "unrecorded")
    /\ Kept(markUnknown(To(k), IF At(k, "lost") THEN NoAsk ELSE k))
    /\ Go(k, "refused")
    /\ UNCHANGED <<transfers, counted, today>>

RecordSubmitted(k) ==
    /\ At(k, "submitting")
    /\ \/ markSubmitted(To(k), k) /\ Go(k, "waiting")
       \/ Kept(markSubmitted(To(k), k)) /\ Go(k, "unrecorded")
    /\ UNCHANGED <<transfers, counted, today>>

\* completeStarterGrant only for a receipt that says success.
AwaitReceipt(k) ==
    /\ At(k, "waiting")
    /\ \/ Go(k, "refused") /\ UNCHANGED <<operations, granted>>
       \/ transfers[k] = "success" /\ complete(To(k), k) /\ Go(k, "granted")
       \/ transfers[k] = "reverted" /\ Kept(markReverted(To(k))) /\ Go(k, "refused")
    /\ UNCHANGED <<transfers, counted, today>>

\* The process ends, or a call to the chain or to a store throws.
Die(k) ==
    /\ asks[k].at \notin {"idle", "already", "refused", "granted"}
    /\ Go(k, "refused")
    /\ UNCHANGED <<operations, transfers, granted, counted, today>>

Mine(k) ==
    /\ transfers[k] = "pending"
    /\ \E outcome \in {"success", "reverted"} : transfers' = [transfers EXCEPT ![k] = outcome]
    /\ UNCHANGED <<operations, granted, counted, today, asks>>

NextDay ==
    /\ today < LastDay /\ today' = today + 1
    /\ UNCHANGED <<operations, transfers, granted, counted, asks>>

Next ==
    \/ \E k \in Asks :
          \/ \E a \in Addresses : Ask(k, a)
          \/ ReadGranted(k) \/ ReadOperation(k) \/ Reconcile(k) \/ CountGrant(k)
          \/ Reserve(k) \/ Send(k) \/ RecordUnknown(k) \/ RecordSubmitted(k)
          \/ AwaitReceipt(k) \/ Die(k) \/ Mine(k)
    \/ NextDay

-----------------------------------------------------------------------------
\* However requests race, fail and are made again, nothing is sent to an
\* address twice, no day's counted grants pay out more than its cap, and who is
\* told that the address has its grant is told the truth.
PaidOnce ==
    LET sent == {k \in Asks : transfers[k] # "none"}
        paid == {To(k) : k \in {j \in sent : transfers[j] = "success"}}
    IN  /\ \A j, k \in sent : To(j) = To(k) => j = k
        /\ \A d \in 1..LastDay : Cardinality({k \in sent : asks[k].day = d}) <= DailyGrants
        /\ \A k \in Asks : asks[k].at \in {"already", "granted"} => To(k) \in paid \cup GrantedBefore
        /\ \A a \in Addresses :
              /\ granted[a] # NoAsk => transfers[granted[a]] = "success" /\ To(granted[a]) = a
              /\ operations[a].status = "reverted" => a \notin paid
=============================================================================
