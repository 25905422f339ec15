----------------------------- MODULE WalletPages -----------------------------
(***************************************************************************)
(* A page that has the person's own wallet send a transaction: the settle  *)
(* card, the invoice a counterparty registers, or the send card.  The      *)
(* wallet may reject, broadcast and answer, broadcast and not answer, or   *)
(* broadcast after its call has failed; a receipt may not be seen; the     *)
(* page may be reloaded at any await.  The send card keeps a record in the *)
(* browser, the other two leave it to the chain to refuse a repetition.    *)
(***************************************************************************)
EXTENDS Naturals

CONSTANT MaxWrites      \* bound on the transactions the page asks for

Settle == "SettleLoopCard"
Register == "LandingClient"
Send == "SendCard"

VARIABLES
    page,           \* which of the pages it is
    phase,          \* what it shows
    handler,        \* where its handler waits
    writes,         \* how many transactions it has asked for
    loadedAt,       \* and had when it was last loaded
    txs,            \* what became of each of them
    hashes,         \* those whose hash the wallet returned
    record          \* the send card's record: none, a guard, or a hash

pageVars == <<page, phase, handler, writes, loadedAt, txs, hashes, record>>

NoRecord == [kind |-> "none", tx |-> 0]
Guard == [kind |-> "guard", tx |-> 0]
Hash(n) == [kind |-> "hash", tx |-> n]

Init ==
    /\ page \in {Settle, Register, Send}
    /\ phase = "ready" /\ handler = "idle"
    /\ writes = 0 /\ loadedAt = 0
    /\ txs = [n \in 1..MaxWrites |-> "none"] /\ hashes = {}
    /\ record = NoRecord

Tx == txs[writes]
SetTx(n, state) == txs' = [txs EXCEPT ![n] = state]
Wait(place) == handler' = place
End(shown) == handler' = "idle" /\ phase' = shown
Landed == \E n \in 1..writes : txs[n] = "landed"

-----------------------------------------------------------------------------
\* A click: settle with its inFlight ref, handleSignAndRegister, handleSend
\* while nothing is pending.  A loop that was netted is found no more, and the
\* link of an invoice that was registered is stale.
Click ==
    /\ phase = "ready" /\ handler = "idle"
    /\ IF page = Send THEN record = NoRecord ELSE ~Landed
    /\ phase' = "busy"
    /\ Wait("preparing")
    /\ UNCHANGED <<page, writes, loadedAt, txs, record, hashes>>

\* The grant, the wallet's account and network, the simulation or the server's
\* check, before anything is asked of the wallet.
NotPrepared ==
    /\ handler = "preparing" /\ End("ready")
    /\ UNCHANGED <<page, writes, loadedAt, txs, record, hashes>>

\* The loop was netted meanwhile, or could not be looked up: settle refreshes.
LoopGone ==
    /\ page = Settle /\ handler = "preparing" /\ End("none")
    /\ UNCHANGED <<page, writes, loadedAt, txs, record, hashes>>

AskWallet ==
    /\ handler = "preparing" /\ writes < MaxWrites
    /\ Wait("asking")
    /\ writes' = writes + 1
    /\ SetTx(writes + 1, "asked")
    /\ record' = IF page = Send THEN Guard ELSE record
    /\ UNCHANGED <<page, phase, loadedAt, hashes>>

\* The person rejects: the pages read it off the error.
Rejected ==
    /\ handler = "asking" /\ Tx = "asked"
    /\ SetTx(writes, "rejected")
    /\ End("ready")
    /\ record' = IF page = Send THEN NoRecord ELSE record
    /\ UNCHANGED <<page, writes, loadedAt, hashes>>

HashReturned ==
    /\ handler = "asking" /\ Tx \in {"sent", "landed", "reverted"}
    /\ Wait("confirming")
    /\ record' = IF page = Send THEN Hash(writes) ELSE record
    /\ hashes' = hashes \union {writes}
    /\ UNCHANGED <<page, phase, writes, loadedAt, txs>>

\* The wallet's call fails in any other way, whether it has broadcast or not:
\* writeAttempted makes the first two pages stop, the send card takes it that
\* nothing left the wallet.
CallFailedReady ==
    /\ handler = "asking" /\ End("ready")
    /\ record' = IF page = Send THEN NoRecord ELSE record
    /\ UNCHANGED <<page, writes, loadedAt, txs, hashes>>

CallFailed ==
    /\ handler = "asking"
    /\ IF page = Send THEN End("ready") /\ record' = NoRecord
       ELSE End("pending") /\ UNCHANGED record
    /\ UNCHANGED <<page, writes, loadedAt, txs, hashes>>

\* The receipt, and that no receipt came, or what follows it failed.
Receipt ==
    /\ handler = "confirming" /\ Tx \in {"landed", "reverted"}
    /\ End(IF Tx = "landed" THEN "done" ELSE IF page = Send THEN "ready" ELSE "reverted")
    /\ record' = IF page = Send /\ Tx = "landed" THEN NoRecord ELSE record
    /\ UNCHANGED <<page, writes, loadedAt, txs, hashes>>

ReceiptNotSeen ==
    /\ handler = "confirming"
    /\ End(IF page = Send THEN "ready" ELSE "pending")
    /\ UNCHANGED <<page, writes, loadedAt, txs, record, hashes>>

\* The send card's "Check status" and "Clear".
CheckPending ==
    /\ record.kind = "hash" /\ handler = "idle"
    /\ txs[record.tx] \in {"landed", "reverted"}
    /\ record' = NoRecord
    /\ phase' = IF txs[record.tx] = "landed" THEN "done" ELSE phase
    /\ UNCHANGED <<page, handler, writes, loadedAt, txs, hashes>>

ClearPending ==
    /\ record.kind = "guard" /\ handler = "idle"
    /\ record' = NoRecord
    /\ UNCHANGED <<page, phase, handler, writes, loadedAt, txs, hashes>>

\* A reload; what the wallet was asked stays asked.
Reload ==
    /\ phase # "done"
    /\ End("ready")
    /\ loadedAt' = writes
    /\ UNCHANGED <<page, writes, txs, record, hashes>>

-----------------------------------------------------------------------------
\* The wallet and the chain, which nets a loop and registers an invoice once.
Broadcast(n) == txs[n] = "asked" /\ SetTx(n, "sent") /\ UNCHANGED <<page, phase, handler, writes, loadedAt, record, hashes>>

Mine(n) ==
    /\ txs[n] = "sent"
    /\ \/ SetTx(n, "reverted")
       \/ (page = Send \/ ~Landed) /\ SetTx(n, "landed")
    /\ UNCHANGED <<page, phase, handler, writes, loadedAt, record, hashes>>

Next ==
    \/ CheckPending \/ ClearPending
    \/ Click \/ NotPrepared \/ LoopGone \/ AskWallet \/ Rejected \/ HashReturned
    \/ CallFailed \/ Receipt \/ ReceiptNotSeen \/ Reload
    \/ \E n \in 1..MaxWrites : Broadcast(n) \/ Mine(n)

-----------------------------------------------------------------------------
\* A transaction whose hash the wallet returned is mined before the page asks
\* for another one: "Check the transaction before trying again".  For the send
\* card that holds across reloads, for its record outlives them; the settle
\* card and the invoice page, as long as they are not reloaded, ask again only
\* if the wallet rejected what it was asked before, whatever failed.
NotAskedTwice ==
    /\ page = Send =>
         \A n \in hashes : n < writes => txs[n] \in {"landed", "reverted"}
    /\ page # Send =>
         \A n \in loadedAt + 1..writes : n < writes => txs[n] = "rejected"

\* "so it can't be sent twice by mistake" (docs/gitbook/using-the-app.md): of
\* one transfer the person wants, started again only after the page said that
\* it did not go through, or is safe to clear, no two land.
SentOnce ==
    page = Send =>
      \A m, n \in 1..MaxWrites : (txs[m] = "landed" /\ txs[n] = "landed") => m = n
=============================================================================
