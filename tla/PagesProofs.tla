---------------------------- MODULE PagesProofs -----------------------------
(***************************************************************************)
(* Theorems about the pages that keep to themselves, and about the check   *)
(* of a certificate. Each part has an inductive invariant of its own; the  *)
(* parts that were not chosen do not move.                                 *)
(***************************************************************************)
EXTENDS Pages, Integers, Sequences, FiniteSets, FiniteSetTheorems,
        SequenceTheorems, TLAPS

-----------------------------------------------------------------------------
(* Signing in.                                                             *)

\* Attempts are numbered as they are started, so the one that runs under the
\* latest number is the one completingRef is set for; numbers given out by a
\* cancellation belong to no attempt.
TabsHeld ==
    /\ attemptRef \in 0 .. MaxAttempts
    /\ DOMAIN attempts = 1 .. MaxAttempts
    /\ \A n \in 1 .. MaxAttempts : n > attemptRef => attempts[n] = Tabs!NotStarted
    /\ Tabs!CompletingIsLive

\* An attempt moves on: it still runs, or it has ended, and if it was the latest
\* it has cleared completingRef.
LEMMA AttemptMoves ==
    ASSUME TabsHeld, NEW n \in 1 .. MaxAttempts, Tabs!Running(n), attemptRef' = attemptRef,
           NEW place, attempts' = [attempts EXCEPT ![n].at = place],
           \/ place \notin {"none", "over"} /\ completingRef' = completingRef
           \/ /\ place = "over"
              /\ completingRef' = IF Tabs!Current(n) THEN FALSE ELSE completingRef
    PROVE  TabsHeld'
<1>1. attempts[n] # Tabs!NotStarted
  BY DEF Tabs!Running, Tabs!NotStarted
<1>2. /\ DOMAIN attempts' = 1 .. MaxAttempts
      /\ \A m \in 1 .. MaxAttempts \ {n} : attempts'[m] = attempts[m]
      /\ attempts'[n].at = place
  BY DEF TabsHeld
<1>3. \A m \in 1 .. MaxAttempts \ {n} : Tabs!Running(m)' <=> Tabs!Running(m)
  BY <1>2 DEF Tabs!Running
<1>4. \A m \in 1 .. MaxAttempts : Tabs!Current(m)' <=> Tabs!Current(m)
  BY DEF Tabs!Current
<1>. QED
  BY <1>1, <1>2, <1>3, <1>4 DEF TabsHeld, Tabs!CompletingIsLive, Tabs!Current, Tabs!Running

LEMMA TabsInit ==
    ASSUME Tabs!Init
    PROVE  TabsHeld
<1>1. /\ attemptRef = 0 /\ completingRef = FALSE
      /\ attempts = [n \in 1 .. MaxAttempts |-> Tabs!NotStarted]
  BY DEF Tabs!Init, Tabs!Fresh
<1>2. \A n \in 1 .. MaxAttempts : attempts[n] = Tabs!NotStarted /\ ~ Tabs!Running(n)
  BY <1>1 DEF Tabs!Running, Tabs!NotStarted
<1>3. Tabs!CompletingIsLive
  BY <1>1, <1>2 DEF Tabs!CompletingIsLive
<1>. QED
  BY <1>1, <1>2, <1>3, PagesAssumption DEF TabsHeld

LEMMA TabsStep ==
    ASSUME TabsHeld, Tabs!Next
    PROVE  TabsHeld'
<1>1. ASSUME UNCHANGED <<completingRef, attemptRef, attempts>>
      PROVE  TabsHeld'
  BY <1>1 DEF TabsHeld, Tabs!CompletingIsLive, Tabs!Current, Tabs!Running
<1>2. ASSUME \/ Tabs!OpenMenu \/ Tabs!CloseMenu \/ Tabs!StartWallet \/ Tabs!SendEmailCode
             \/ Tabs!LoginAsked \/ Tabs!SubmitEmailCode \/ Tabs!LoginFails \/ Tabs!Mounted
      PROVE  TabsHeld'
  BY <1>1, <1>2 DEF Tabs!OpenMenu, Tabs!CloseMenu, Tabs!StartWallet, Tabs!SendEmailCode,
       Tabs!LoginAsked, Tabs!SubmitEmailCode, Tabs!LoginFails, Tabs!Mounted, Tabs!refs
<1>3. ASSUME NEW account, Tabs!Complete(account)
      PROVE  TabsHeld'
  <2>1. CASE ~ (pendingRef /\ ~ completingRef)
    BY <1>1, <1>3, <2>1 DEF Tabs!Complete
  <2>2. CASE pendingRef /\ ~ completingRef
    <3>1. PICK next : next = attemptRef + 1
      OBVIOUS
    <3>2. /\ attemptRef < MaxAttempts /\ completingRef' = TRUE /\ attemptRef' = next
          /\ attempts' = [attempts EXCEPT ![next] = [at |-> "picking", account |-> account]]
      BY <1>3, <2>2, <3>1 DEF Tabs!Complete
    <3>3. next \in 1 .. MaxAttempts /\ next > attemptRef
      BY PagesAssumption, <3>1, <3>2 DEF TabsHeld
    <3>4. /\ DOMAIN attempts' = 1 .. MaxAttempts /\ attempts'[next].at = "picking"
          /\ \A n \in 1 .. MaxAttempts : n > next => attempts'[n] = attempts[n] /\ n > attemptRef
      BY PagesAssumption, <3>1, <3>2, <3>3 DEF TabsHeld
    <3>. QED
      BY <3>2, <3>3, <3>4 DEF TabsHeld, Tabs!CompletingIsLive, Tabs!Current, Tabs!Running
  <2>. QED
    BY <2>1, <2>2
<1>4. CASE Tabs!Cancel
  <2>1. PICK next : next = attemptRef + 1
    OBVIOUS
  <2>2. attemptRef < MaxAttempts /\ attemptRef' = next /\ completingRef' = FALSE /\ attempts' = attempts
    BY <1>4, <2>1 DEF Tabs!Cancel
  <2>3. /\ next \in 1 .. MaxAttempts
        /\ \A n \in 1 .. MaxAttempts : n >= next => n > attemptRef
    BY PagesAssumption, <2>1, <2>2 DEF TabsHeld
  <2>4. \A n \in 1 .. MaxAttempts : n >= next => attempts[n] = Tabs!NotStarted
    BY <2>3 DEF TabsHeld
  <2>5. \A n \in 1 .. MaxAttempts : ~ (Tabs!Current(n)' /\ Tabs!Running(n)')
    BY <2>2, <2>3, <2>4 DEF Tabs!Current, Tabs!Running, Tabs!NotStarted
  <2>6. Tabs!CompletingIsLive'
    BY <2>2, <2>5 DEF Tabs!CompletingIsLive
  <2>7. \A n \in 1 .. MaxAttempts : n > next => attempts'[n] = Tabs!NotStarted
    BY <2>2, <2>3, <2>4
  <2>. QED
    BY <2>2, <2>3, <2>6, <2>7 DEF TabsHeld
<1>5. CASE Tabs!SignOut
  <2>1. /\ attemptRef' = 0 /\ completingRef' = FALSE
        /\ attempts' = [n \in 1 .. MaxAttempts |-> Tabs!NotStarted]
    BY <1>5 DEF Tabs!SignOut, Tabs!Fresh
  <2>2. \A n \in 1 .. MaxAttempts : attempts'[n] = Tabs!NotStarted /\ ~ Tabs!Running(n)'
    BY <2>1 DEF Tabs!Running, Tabs!NotStarted
  <2>3. Tabs!CompletingIsLive'
    BY <2>1, <2>2 DEF Tabs!CompletingIsLive
  <2>. QED
    BY <2>1, <2>2, <2>3, PagesAssumption DEF TabsHeld
<1>6. ASSUME NEW n \in 1 .. MaxAttempts,
             \/ Tabs!PickWallet(n) \/ Tabs!Fail(n) \/ Tabs!AskWhoAmI(n) \/ Tabs!Signed(n)
             \/ Tabs!ServerSignIn(n) \/ Tabs!Answered(n)
      PROVE  TabsHeld'
  <2>1. Tabs!Running(n)
    BY <1>6 DEF Tabs!PickWallet, Tabs!Fail, Tabs!AskWhoAmI, Tabs!Signed, Tabs!ServerSignIn,
                Tabs!Answered, Tabs!Running
  <2>2. ASSUME Tabs!Finish(n)
        PROVE  TabsHeld'
    <3>1. /\ attempts' = [attempts EXCEPT ![n].at = "over"] /\ attemptRef' = attemptRef
          /\ completingRef' = IF Tabs!Current(n) THEN FALSE ELSE completingRef
      BY <2>2 DEF Tabs!Finish, Tabs!Go
    <3>. QED
      BY <2>1, <3>1, AttemptMoves
  <2>3. ASSUME UNCHANGED Tabs!refs, NEW place \in {"attached", "prompted", "sent", "accepted", "refused"},
               Tabs!Go(n, place)
        PROVE  TabsHeld'
    <3>1. /\ attempts' = [attempts EXCEPT ![n].at = place] /\ attemptRef' = attemptRef
          /\ completingRef' = completingRef
      BY <2>3 DEF Tabs!Go, Tabs!refs
    <3>. QED
      BY <2>1, <3>1, AttemptMoves
  <2>4. CASE Tabs!PickWallet(n)
    BY <2>3, <2>4 DEF Tabs!PickWallet
  <2>5. CASE Tabs!Fail(n)
    BY <2>2, <2>5 DEF Tabs!Fail
  <2>6. CASE Tabs!AskWhoAmI(n)
    BY <2>2, <2>3, <2>6 DEF Tabs!AskWhoAmI
  <2>7. CASE Tabs!Signed(n)
    BY <2>2, <2>3, <2>7 DEF Tabs!Signed
  <2>8. CASE Tabs!ServerSignIn(n)
    BY <2>3, <2>8 DEF Tabs!ServerSignIn
  <2>9. CASE Tabs!Answered(n)
    BY <2>2, <2>9 DEF Tabs!Answered
  <2>. QED
    BY <1>6, <2>4, <2>5, <2>6, <2>7, <2>8, <2>9
<1>. QED
  BY <1>2, <1>3, <1>4, <1>5, <1>6 DEF Tabs!Next

\* The provider believes an attempt is running exactly while its latest one runs:
\* an abandoned attempt that ends late neither lets a third begin beside the
\* second nor leaves the button dead.
THEOREM SigningInCorrect == PagesSpec => []CompletingIsLive
<1>1. PagesInit => (part = "signing in" => TabsHeld)
  BY TabsInit DEF PagesInit
<1>2. (part = "signing in" => TabsHeld) /\ [PagesNext]_<<part, pagesVars>>
         => (part = "signing in" => TabsHeld)'
  <2>1. ASSUME part = "signing in" => TabsHeld, UNCHANGED <<part, pagesVars>>
        PROVE  (part = "signing in" => TabsHeld)'
    BY <2>1 DEF pagesVars, tabsVars, TabsHeld, Tabs!CompletingIsLive, Tabs!Current, Tabs!Running
  <2>2. ASSUME part = "signing in" => TabsHeld, PagesNext
        PROVE  (part = "signing in" => TabsHeld)'
    BY <2>2, TabsStep DEF PagesNext
  <2>. QED
    BY <2>1, <2>2
<1>3. (part = "signing in" => TabsHeld) => CompletingIsLive
  BY DEF CompletingIsLive, TabsHeld
<1>. QED
  BY <1>1, <1>2, <1>3, PTL DEF PagesSpec

-----------------------------------------------------------------------------
(* A wallet that sends.                                                    *)

Mined(n) == txs[n] \in {"landed", "reverted"}

\* The send card prepares only with no record, and drops the record of a
\* transaction with a hash only when that is mined; the other pages prepare, and
\* say they are ready, only when the wallet rejected the last transaction since
\* they were loaded.
SendHeld ==
    /\ record \in {Wallet!NoRecord, Wallet!Guard, Wallet!Hash(writes)}
    /\ \A n \in hashes : Mined(n) \/ (n = writes /\ record = Wallet!Hash(writes))
    /\ handler = "preparing" => record = Wallet!NoRecord
    /\ handler = "asking" => record = Wallet!Guard
    /\ handler = "confirming" => record = Wallet!Hash(writes)

ReadyHeld ==
    /\ \A n \in 1 .. MaxWrites : (n > loadedAt /\ n < writes) => txs[n] = "rejected"
    /\ handler = "preparing" \/ (handler = "idle" /\ phase = "ready") =>
          writes = loadedAt \/ txs[writes] = "rejected"

WalletHeld ==
    /\ writes \in 0 .. MaxWrites /\ loadedAt \in 0 .. writes
    /\ DOMAIN txs = 1 .. MaxWrites
    /\ \A n \in hashes : n \in 1 .. writes
    /\ handler \in {"asking", "confirming"} => writes # 0
    /\ walletPage = Wallet!Send => SendHeld
    /\ walletPage # Wallet!Send => ReadyHeld

LEMMA WalletInit ==
    ASSUME Wallet!Init
    PROVE  WalletHeld
BY PagesAssumption DEF Wallet!Init, WalletHeld, SendHeld, ReadyHeld

\* What became of a transaction that was mined or rejected is final, and a page
\* whose wallet and chain go on stays as it was.
LEMMA TxMoves ==
    ASSUME WalletHeld, NEW n \in 1 .. MaxWrites, txs[n] \in {"asked", "sent"},
           NEW outcome, txs' = [txs EXCEPT ![n] = outcome],
           UNCHANGED <<walletPage, phase, handler, writes, loadedAt, record, hashes>>
    PROVE  WalletHeld'
<1>1. /\ DOMAIN txs' = DOMAIN txs
      /\ \A m \in 1 .. MaxWrites : Mined(m) \/ txs[m] = "rejected" => txs'[m] = txs[m]
  BY DEF WalletHeld, Mined
<1>2. \A m \in hashes : m \in 1 .. MaxWrites
  BY PagesAssumption DEF WalletHeld
<1>3. CASE walletPage = Wallet!Send
  <2>1. SendHeld'
    BY <1>1, <1>2, <1>3 DEF WalletHeld, SendHeld, Mined, Wallet!Hash
  <2>. QED
    BY <1>1, <1>3, <2>1 DEF WalletHeld
<1>4. CASE walletPage # Wallet!Send
  <2>1. writes # loadedAt => writes \in 1 .. MaxWrites
    BY PagesAssumption DEF WalletHeld
  <2>2. ReadyHeld'
    BY <1>1, <1>4, <2>1 DEF WalletHeld, ReadyHeld
  <2>. QED
    BY <1>1, <1>4, <2>2 DEF WalletHeld
<1>. QED
  BY <1>3, <1>4

LEMMA WalletStep ==
    ASSUME WalletHeld, Wallet!Next
    PROVE  WalletHeld'
<1>. USE DEF Wallet!NoRecord, Wallet!Guard, Wallet!Hash
<1>1. CASE Wallet!CheckPending
  <2>1. /\ record.kind = "hash" /\ handler = "idle" /\ txs[record.tx] \in {"landed", "reverted"}
        /\ record' = Wallet!NoRecord /\ phase' = (IF txs[record.tx] = "landed" THEN "done" ELSE phase)
        /\ UNCHANGED <<walletPage, handler, writes, loadedAt, txs, hashes>>
    BY <1>1 DEF Wallet!CheckPending
  <2>2. walletPage = Wallet!Send => SendHeld'
    BY <2>1 DEF WalletHeld, SendHeld, Mined
  <2>3. walletPage # Wallet!Send => ReadyHeld'
    BY <2>1 DEF WalletHeld, ReadyHeld
  <2>. QED
    BY <2>1, <2>2, <2>3 DEF WalletHeld
<1>2. CASE Wallet!ClearPending
  BY <1>2 DEF Wallet!ClearPending, WalletHeld, SendHeld, ReadyHeld, Mined
<1>3. CASE Wallet!Click
  BY <1>3 DEF Wallet!Click, Wallet!Wait, WalletHeld, SendHeld, ReadyHeld, Mined
<1>4. CASE Wallet!NotPrepared
  BY <1>4 DEF Wallet!NotPrepared, Wallet!End, WalletHeld, SendHeld, ReadyHeld, Mined
<1>5. CASE Wallet!LoopGone
  BY <1>5 DEF Wallet!LoopGone, Wallet!End, WalletHeld, SendHeld, ReadyHeld, Mined
<1>6. CASE Wallet!AskWallet
  <2>1. PICK next : next = writes + 1
    OBVIOUS
  <2>2. /\ handler = "preparing" /\ writes < MaxWrites /\ handler' = "asking" /\ writes' = next
        /\ txs' = [txs EXCEPT ![next] = "asked"]
        /\ record' = (IF walletPage = Wallet!Send THEN Wallet!Guard ELSE record)
        /\ UNCHANGED <<walletPage, phase, loadedAt, hashes>>
    BY <1>6, <2>1 DEF Wallet!AskWallet, Wallet!Wait, Wallet!SetTx
  <2>3. /\ next \in 1 .. MaxWrites /\ loadedAt \in 0 .. next /\ next # 0
        /\ \A n \in 1 .. MaxWrites : (n > loadedAt /\ n < next) => (n < writes \/ (n = writes /\ n # loadedAt))
        /\ \A n \in hashes : n \in 1 .. next /\ n \in 1 .. MaxWrites /\ n # next
    BY PagesAssumption, <2>1, <2>2 DEF WalletHeld
  <2>4. DOMAIN txs' = 1 .. MaxWrites /\ \A n \in 1 .. MaxWrites : n # next => txs'[n] = txs[n]
    BY <2>2 DEF WalletHeld
  <2>5. walletPage = Wallet!Send => SendHeld'
    BY <2>2, <2>3, <2>4 DEF WalletHeld, SendHeld, Mined
  <2>6. walletPage # Wallet!Send => ReadyHeld'
    <3>1. SUFFICES ASSUME walletPage # Wallet!Send
                   PROVE  ReadyHeld'
      OBVIOUS
    <3>2. \A n \in 1 .. MaxWrites : (n > loadedAt /\ n < next) => txs[n] = "rejected" /\ n # next
      BY <2>2, <2>3, <3>1 DEF WalletHeld, ReadyHeld
    <3>. QED
      BY <2>2, <2>4, <3>2 DEF ReadyHeld
  <2>. QED
    BY <2>2, <2>3, <2>4, <2>5, <2>6 DEF WalletHeld
<1>7. CASE Wallet!Rejected
  <2>1. /\ handler = "asking" /\ txs[writes] = "asked" /\ handler' = "idle" /\ phase' = "ready"
        /\ txs' = [txs EXCEPT ![writes] = "rejected"]
        /\ record' = (IF walletPage = Wallet!Send THEN Wallet!NoRecord ELSE record)
        /\ UNCHANGED <<walletPage, writes, loadedAt, hashes>>
    BY <1>7 DEF Wallet!Rejected, Wallet!Tx, Wallet!SetTx, Wallet!End
  <2>2. writes \in 1 .. MaxWrites /\ \A n \in hashes : n \in 1 .. MaxWrites
    BY PagesAssumption, <2>1 DEF WalletHeld
  <2>3. /\ DOMAIN txs' = 1 .. MaxWrites /\ txs'[writes] = "rejected"
        /\ \A n \in 1 .. MaxWrites : n # writes => txs'[n] = txs[n]
    BY <2>1, <2>2 DEF WalletHeld
  <2>4. walletPage = Wallet!Send => SendHeld'
    <3>1. walletPage = Wallet!Send => \A n \in hashes : n # writes /\ Mined(n)
      BY <2>1, <2>2 DEF WalletHeld, SendHeld, Mined
    <3>. QED
      BY <2>1, <2>2, <2>3, <3>1 DEF SendHeld, Mined
  <2>5. walletPage # Wallet!Send => ReadyHeld'
    BY <2>1, <2>2, <2>3 DEF WalletHeld, ReadyHeld
  <2>. QED
    BY <2>1, <2>3, <2>4, <2>5 DEF WalletHeld
<1>8. CASE Wallet!HashReturned
  <2>1. /\ handler = "asking" /\ handler' = "confirming" /\ hashes' = hashes \union {writes}
        /\ record' = (IF walletPage = Wallet!Send THEN Wallet!Hash(writes) ELSE record)
        /\ UNCHANGED <<walletPage, phase, writes, loadedAt, txs>>
    BY <1>8 DEF Wallet!HashReturned, Wallet!Wait
  <2>2. \A n \in hashes' : n \in 1 .. writes
    BY <2>1 DEF WalletHeld
  <2>3. walletPage = Wallet!Send => SendHeld'
    BY <2>1 DEF WalletHeld, SendHeld, Mined
  <2>4. walletPage # Wallet!Send => ReadyHeld'
    BY <2>1 DEF WalletHeld, ReadyHeld
  <2>. QED
    BY <2>1, <2>2, <2>3, <2>4 DEF WalletHeld
<1>9. CASE Wallet!CallFailed
  BY <1>9 DEF Wallet!CallFailed, Wallet!End, WalletHeld, SendHeld, ReadyHeld, Mined
<1>10. CASE Wallet!Receipt
  <2>1. /\ handler = "confirming" /\ handler' = "idle" /\ Mined(writes)
        /\ phase' = (IF txs[writes] = "landed" THEN "done" ELSE IF walletPage = Wallet!Send THEN "ready" ELSE "reverted")
        /\ record' \in {record, Wallet!NoRecord}
        /\ UNCHANGED <<walletPage, writes, loadedAt, txs, hashes>>
    BY <1>10 DEF Wallet!Receipt, Wallet!End, Wallet!Tx, Mined
  <2>2. walletPage = Wallet!Send => SendHeld'
    BY <2>1 DEF WalletHeld, SendHeld, Mined
  <2>3. walletPage # Wallet!Send => ReadyHeld'
    BY <2>1 DEF WalletHeld, ReadyHeld
  <2>. QED
    BY <2>1, <2>2, <2>3 DEF WalletHeld
<1>11. CASE Wallet!ReceiptNotSeen
  BY <1>11 DEF Wallet!ReceiptNotSeen, Wallet!End, WalletHeld, SendHeld, ReadyHeld, Mined
<1>12. CASE Wallet!Reload
  <2>1. /\ handler' = "idle" /\ phase' = "ready" /\ loadedAt' = writes
        /\ UNCHANGED <<walletPage, writes, txs, record, hashes>>
    BY <1>12 DEF Wallet!Reload, Wallet!End
  <2>2. writes \in 0 .. writes /\ \A n \in 1 .. MaxWrites : ~ (n > writes /\ n < writes)
    BY PagesAssumption DEF WalletHeld
  <2>3. walletPage = Wallet!Send => SendHeld'
    BY <2>1 DEF WalletHeld, SendHeld, Mined
  <2>4. walletPage # Wallet!Send => ReadyHeld'
    BY <2>1, <2>2 DEF WalletHeld, ReadyHeld
  <2>. QED
    BY <2>1, <2>2, <2>3, <2>4 DEF WalletHeld
<1>13. ASSUME NEW n \in 1 .. MaxWrites, Wallet!Broadcast(n) \/ Wallet!Mine(n)
       PROVE  WalletHeld'
  <2>1. CASE Wallet!Broadcast(n)
    BY <2>1, TxMoves DEF Wallet!Broadcast, Wallet!SetTx
  <2>2. CASE Wallet!Mine(n)
    BY <2>2, TxMoves DEF Wallet!Mine, Wallet!SetTx
  <2>. QED
    BY <1>13, <2>1, <2>2
<1>. QED
  BY <1>1, <1>2, <1>3, <1>4, <1>5, <1>6, <1>7, <1>8, <1>9, <1>10, <1>11, <1>12, <1>13
     DEF Wallet!Next

\* A transaction whose hash the wallet returned is mined before the send card
\* asks for another one, reloaded or not; the settle card and the invoice page
\* ask again, as long as they are not reloaded, only after a rejection.
THEOREM WalletCorrect == PagesSpec => []NotAskedTwice
<1>1. PagesInit => (part = "wallet" => WalletHeld)
  BY WalletInit DEF PagesInit
<1>2. (part = "wallet" => WalletHeld) /\ [PagesNext]_<<part, pagesVars>>
         => (part = "wallet" => WalletHeld)'
  <2>1. ASSUME part = "wallet" => WalletHeld, UNCHANGED <<part, pagesVars>>
        PROVE  (part = "wallet" => WalletHeld)'
    BY <2>1 DEF pagesVars, walletVars, WalletHeld, SendHeld, ReadyHeld, Mined, Wallet!Hash
  <2>2. ASSUME part = "wallet" => WalletHeld, PagesNext
        PROVE  (part = "wallet" => WalletHeld)'
    BY <2>2, WalletStep DEF PagesNext
  <2>. QED
    BY <2>1, <2>2
<1>3. WalletHeld => Wallet!NotAskedTwice
  <2>1. SUFFICES ASSUME WalletHeld
                 PROVE  Wallet!NotAskedTwice
    OBVIOUS
  <2>2. \A n \in loadedAt + 1 .. writes : n \in 1 .. MaxWrites /\ n > loadedAt
    BY PagesAssumption, <2>1 DEF WalletHeld
  <2>3. \A n \in hashes : n < writes => n # writes
    BY PagesAssumption, <2>1 DEF WalletHeld
  <2>. QED
    BY <2>1, <2>2, <2>3 DEF WalletHeld, SendHeld, ReadyHeld, Mined, Wallet!NotAskedTwice
<1>. QED
  BY <1>1, <1>2, <1>3, PTL DEF PagesSpec, NotAskedTwice

-----------------------------------------------------------------------------
(* What one party may see.                                                 *)

\* Every load of an invoice page that ends well sets the payload together with
\* the party it was loaded for, and any load that begins takes "loaded" away.
ViewsHeld == viewPage = Views!Invoice /\ stage = "loaded" => content = loadedFor

LEMMA ViewsStep ==
    ASSUME ViewsHeld, Views!Next
    PROVE  ViewsHeld'
<1>. USE DEF Views!Invoice, Views!Certificate, Views!Proposal
<1>1. ASSUME NEW v, Views!SessionChanges(v)
      PROVE  ViewsHeld'
  BY <1>1 DEF Views!SessionChanges, Views!StartLoad, ViewsHeld
<1>2. CASE Views!LoadAgain
  BY <1>2 DEF Views!LoadAgain, ViewsHeld
<1>3. ASSUME NEW k, Views!RetryQuietly(k)
      PROVE  ViewsHeld'
  BY <1>3 DEF Views!RetryQuietly, ViewsHeld
<1>4. ASSUME NEW k, Views!LoadFails(k) \/ Views!LinkLoaded(k)
      PROVE  ViewsHeld'
  BY <1>4 DEF Views!LoadFails, Views!LinkLoaded, ViewsHeld
<1>5. ASSUME NEW k, Views!ServerAnswered(k)
      PROVE  ViewsHeld'
  BY <1>5 DEF Views!ServerAnswered, ViewsHeld
<1>6. ASSUME NEW k, Views!Checked(k)
      PROVE  ViewsHeld'
  BY <1>6 DEF Views!Checked, ViewsHeld
<1>. QED
  BY <1>1, <1>2, <1>3, <1>4, <1>5, <1>6 DEF Views!Next

\* An invoice page shows one party's payload to no other, in whatever order the
\* answers of an earlier session's load and of this one's come.
THEOREM ViewsCorrect == PagesSpec => []OwnInvoiceShown
<1>1. PagesInit => (part = "views" => ViewsHeld)
  BY DEF PagesInit, Views!Init, ViewsHeld
<1>2. (part = "views" => ViewsHeld) /\ [PagesNext]_<<part, pagesVars>>
         => (part = "views" => ViewsHeld)'
  <2>1. ASSUME part = "views" => ViewsHeld, UNCHANGED <<part, pagesVars>>
        PROVE  (part = "views" => ViewsHeld)'
    BY <2>1 DEF pagesVars, viewsVars, ViewsHeld
  <2>2. ASSUME part = "views" => ViewsHeld, PagesNext
        PROVE  (part = "views" => ViewsHeld)'
    BY <2>2, ViewsStep DEF PagesNext
  <2>. QED
    BY <2>1, <2>2
<1>3. (part = "views" => ViewsHeld) => OwnInvoiceShown
  BY DEF OwnInvoiceShown, Views!OwnInvoiceShown, Views!Rendered, ViewsHeld
<1>. QED
  BY <1>1, <1>2, <1>3, PTL DEF PagesSpec

-----------------------------------------------------------------------------
(* The balance page.                                                       *)

OpStates == {"none", "asked", "rejected", "sent", "confirmed", "burned", "minted"}
RecordStates == {"none", "submission_unknown", "retry_mint", "mint_retry_submitting", "forwarder_pending"}
Op == [kind : Panels!Kinds \cup {"none"}, state : OpStates]
Panel == [state : RecordStates, op : Nat, target : Nat]
Places == {"idle", "preparing", "asking", "minting"}

\* A record names an operation of its kind, and every operation asked for is
\* named by the record of its kind until the panel is told of its outcome; a
\* move's outcome is that it was minted.
PanelsHeld ==
    /\ asked \in 0 .. MaxOps /\ gatewayConfirmed \in Nat
    /\ ops \in [1 .. MaxOps -> Op]
    /\ records \in [Panels!Kinds -> Panel] /\ handlers \in [Panels!Kinds -> Places]
    /\ \A n \in told : n \in 1 .. asked
    /\ \A n \in 1 .. asked :
          /\ ops[n].kind \in Panels!Kinds
          /\ n \notin told => /\ records[ops[n].kind] # Panels!NoRecord
                              /\ records[ops[n].kind].op = n
          /\ n \in told /\ ops[n].kind = "move" => ops[n].state = "minted"
    /\ \A k \in Panels!Kinds :
          /\ records[k] # Panels!NoRecord =>
                records[k].op \in 1 .. asked /\ ops[records[k].op].kind = k
          /\ handlers[k] = "preparing" => records[k] = Panels!NoRecord
          /\ handlers[k] \in {"asking", "minting"} => records[k] # Panels!NoRecord
    /\ Panels!NoSecondSubmission

LEMMA PanelsInit ==
    ASSUME Panels!Init
    PROVE  PanelsHeld
BY PagesAssumption DEF Panels!Init, Panels!NoOp, Panels!NoRecord, Panel, Op, OpStates, RecordStates, Places, PanelsHeld, Panels!NoSecondSubmission

\* The panel is told of the outcome of the operation its record names.
LEMMA ClearHeld ==
    ASSUME PanelsHeld, NEW k \in Panels!Kinds, records[k] # Panels!NoRecord, Panels!Clear(k),
           k = "move" => Panels!Current(k).state = "minted",
           UNCHANGED <<ops, asked, gatewayConfirmed>>
    PROVE  PanelsHeld'
<1>1. PICK m \in 1 .. asked : m = records[k].op /\ ops[m].kind = k
  BY DEF PanelsHeld
<1>2. /\ told' = told \cup {m} /\ records' = [records EXCEPT ![k] = Panels!NoRecord]
      /\ handlers' = [handlers EXCEPT ![k] = "idle"]
      /\ k = "move" => ops[m].state = "minted"
  BY <1>1 DEF Panels!Clear, Panels!Record, Panels!Wait, Panels!Current
<1>3. /\ records'[k] = Panels!NoRecord /\ handlers'[k] = "idle"
      /\ \A j \in Panels!Kinds \ {k} : records'[j] = records[j] /\ handlers'[j] = handlers[j]
  BY <1>2 DEF PanelsHeld
<1>4. /\ records' \in [Panels!Kinds -> Panel] /\ handlers' \in [Panels!Kinds -> Places]
  BY <1>2 DEF PanelsHeld, Panel, RecordStates, Places, Panels!NoRecord
<1>5. ASSUME NEW n \in 1 .. asked
      PROVE  /\ n \notin told' => records'[ops[n].kind] # Panels!NoRecord /\ records'[ops[n].kind].op = n
             /\ n \in told' /\ ops[n].kind = "move" => ops[n].state = "minted"
  <2>1. CASE n \in told'
    BY <1>1, <1>2, <2>1 DEF PanelsHeld
  <2>2. CASE n \notin told'
    <3>1. /\ n \notin told /\ n # m /\ ops[n].kind \in Panels!Kinds
          /\ records[ops[n].kind] # Panels!NoRecord /\ records[ops[n].kind].op = n
      BY <1>2, <2>2 DEF PanelsHeld
    <3>2. ops[n].kind # k
      BY <1>1, <3>1
    <3>. QED
      BY <1>3, <2>2, <3>1, <3>2
  <2>. QED
    BY <2>1, <2>2
<1>6. Panels!NoSecondSubmission'
  <2>1. \A p, q \in 1 .. asked : (p < q /\ ops[p].kind = ops[q].kind) =>
                                   p \in told' /\ (ops[p].kind = "move" => ops[p].state = "minted")
    BY <1>2 DEF PanelsHeld, Panels!NoSecondSubmission
  <2>. QED
    BY <2>1 DEF Panels!NoSecondSubmission
<1>7. ASSUME NEW j \in Panels!Kinds
      PROVE  /\ records'[j] # Panels!NoRecord => records'[j].op \in 1 .. asked /\ ops[records'[j].op].kind = j
             /\ handlers'[j] = "preparing" => records'[j] = Panels!NoRecord
             /\ handlers'[j] \in {"asking", "minting"} => records'[j] # Panels!NoRecord
  <2>1. CASE j = k
    BY <1>3, <2>1
  <2>2. CASE j # k
    BY <1>3, <2>2 DEF PanelsHeld
  <2>. QED
    BY <2>1, <2>2
<1>8. \A n \in told' : n \in 1 .. asked
  BY <1>1, <1>2 DEF PanelsHeld
<1>9. /\ asked \in 0 .. MaxOps /\ gatewayConfirmed \in Nat /\ ops \in [1 .. MaxOps -> Op]
      /\ \A n \in 1 .. asked : ops[n].kind \in Panels!Kinds
  BY DEF PanelsHeld
<1>. QED
  BY <1>4, <1>5, <1>6, <1>7, <1>8, <1>9 DEF PanelsHeld

\* A record changes what it says of the operation it names.
LEMMA RecordHeld ==
    ASSUME PanelsHeld, NEW k \in Panels!Kinds, records[k] # Panels!NoRecord,
           NEW state \in RecordStates, records' = [records EXCEPT ![k] = [records[k] EXCEPT !.state = state]],
           NEW place \in Places, place # "preparing", handlers' = [handlers EXCEPT ![k] = place],
           UNCHANGED <<ops, asked, told, gatewayConfirmed>>
    PROVE  PanelsHeld'
<1>1. PICK old : old = records[k]
  OBVIOUS
<1>2. PICK new : new = [old EXCEPT !.state = state]
  OBVIOUS
<1>3. old \in Panel /\ old.op \in 1 .. asked /\ ops[old.op].kind = k
  BY <1>1 DEF PanelsHeld
<1>4. new \in Panel /\ new.op = old.op
  BY <1>2, <1>3 DEF Panel, RecordStates
<1>5. new # Panels!NoRecord
  BY <1>3, <1>4 DEF Panels!NoRecord
<1>6. records' = [records EXCEPT ![k] = new]
  BY <1>1, <1>2
<1>7. /\ records' \in [Panels!Kinds -> Panel] /\ handlers' \in [Panels!Kinds -> Places]
      /\ records'[k] = new /\ handlers'[k] = place
      /\ \A j \in Panels!Kinds \ {k} : records'[j] = records[j] /\ handlers'[j] = handlers[j]
  BY <1>4, <1>6 DEF PanelsHeld, Places
<1>8. \A j \in Panels!Kinds : /\ records'[j].op = records[j].op
                              /\ records'[j] = Panels!NoRecord <=> records[j] = Panels!NoRecord
                              /\ handlers'[j] \in {"preparing", "asking", "minting"} =>
                                    j = k \/ handlers'[j] = handlers[j]
  BY <1>1, <1>4, <1>5, <1>7
<1>. QED
  BY <1>5, <1>7, <1>8 DEF PanelsHeld, Panels!NoSecondSubmission

LEMMA AskHeld ==
    ASSUME PanelsHeld, NEW k \in Panels!Kinds, Panels!Ask(k)
    PROVE  PanelsHeld'
<1>1. PICK next : next = asked + 1
  OBVIOUS
<1>2. PICK op : op = [kind |-> k, state |-> "asked"]
  OBVIOUS
<1>3. PICK new : new = [state |-> "submission_unknown", op |-> next, target |-> gatewayConfirmed + 1]
  OBVIOUS
<1>4. /\ handlers[k] = "preparing" /\ asked < MaxOps /\ asked' = next
      /\ records' = [records EXCEPT ![k] = new] /\ ops' = [ops EXCEPT ![next] = op]
      /\ handlers' = [handlers EXCEPT ![k] = "asking"]
      /\ UNCHANGED <<told, gatewayConfirmed>>
  BY <1>1, <1>2, <1>3 DEF Panels!Ask, Panels!Record, Panels!Wait, Panels!Unknown
<1>5. /\ next \in 1 .. MaxOps /\ 1 .. next = 1 .. asked \cup {next} /\ next \notin 1 .. asked
      /\ next # 0 /\ next \in Nat /\ asked \in Nat
  BY PagesAssumption, <1>1, <1>4 DEF PanelsHeld
<1>6. /\ op \in Op /\ op.kind = k
      /\ op.state = "asked"
  BY <1>2 DEF Op, OpStates
<1>7. new \in Panel /\ new.op = next /\ new # Panels!NoRecord
  BY <1>3, <1>5 DEF PanelsHeld, Panel, RecordStates, Panels!NoRecord
<1>8. /\ ops' \in [1 .. MaxOps -> Op]
      /\ records' \in [Panels!Kinds -> Panel] /\ handlers' \in [Panels!Kinds -> Places]
      /\ records'[k] = new /\ handlers'[k] = "asking"
      /\ \A j \in Panels!Kinds \ {k} : records'[j] = records[j] /\ handlers'[j] = handlers[j]
      /\ ops'[next] = op
      /\ \A n \in 1 .. asked : ops'[n] = ops[n]
  BY <1>4, <1>5, <1>6, <1>7 DEF PanelsHeld, Places
<1>9. \A n \in 1 .. asked : ops[n].kind = k => n \in told
  BY <1>4 DEF PanelsHeld
<1>10. ASSUME NEW n \in 1 .. next
       PROVE  /\ ops'[n].kind \in Panels!Kinds
              /\ n \notin told => /\ records'[ops'[n].kind] # Panels!NoRecord
                                  /\ records'[ops'[n].kind].op = n
              /\ n \in told /\ ops'[n].kind = "move" /\ n # next => ops'[n].state = "minted"
  <2>1. CASE n = next
    BY <1>6, <1>7, <1>8, <2>1
  <2>2. CASE n \in 1 .. asked
    BY <1>8, <1>9, <2>2 DEF PanelsHeld
  <2>. QED
    BY <1>5, <2>1, <2>2
<1>11. ASSUME NEW j \in Panels!Kinds
       PROVE  /\ records'[j] # Panels!NoRecord => records'[j].op \in 1 .. next /\ ops'[records'[j].op].kind = j
              /\ handlers'[j] = "preparing" => records'[j] = Panels!NoRecord
              /\ handlers'[j] \in {"asking", "minting"} => records'[j] # Panels!NoRecord
  <2>1. CASE j = k
    BY <1>5, <1>6, <1>7, <1>8, <2>1
  <2>2. CASE j # k
    <3>1. records[j] # Panels!NoRecord => records[j].op \in 1 .. asked /\ ops[records[j].op].kind = j
      BY DEF PanelsHeld
    <3>2. records'[j] = records[j] /\ handlers'[j] = handlers[j]
      BY <1>8, <2>2
    <3>. QED
      BY <1>5, <1>8, <3>1, <3>2 DEF PanelsHeld
  <2>. QED
    BY <2>1, <2>2
<1>12. Panels!NoSecondSubmission'
  <2>1. ASSUME NEW m \in 1 .. next, NEW n \in 1 .. next, m < n, ops'[m].kind = ops'[n].kind
        PROVE  m \in told /\ (ops'[m].kind = "move" => ops'[m].state = "minted")
    <3>1. m \in 1 .. asked
      BY <1>1, <1>5, <2>1
    <3>2. CASE n = next
      BY <1>6, <1>8, <1>9, <2>1, <3>1, <3>2 DEF PanelsHeld
    <3>3. CASE n \in 1 .. asked
      BY <1>8, <2>1, <3>1, <3>3 DEF PanelsHeld, Panels!NoSecondSubmission
    <3>. QED
      BY <1>5, <3>2, <3>3
  <2>. QED
    BY <1>4, <2>1 DEF Panels!NoSecondSubmission
<1>13. /\ asked' \in 0 .. MaxOps /\ gatewayConfirmed' \in Nat
       /\ \A n \in told : n \in 1 .. next /\ n # next
  BY <1>4, <1>5, PagesAssumption DEF PanelsHeld
<1>14. \A n \in told : ops'[n].kind = "move" => ops'[n].state = "minted"
  BY <1>10, <1>13
<1>. QED
  BY <1>4, <1>8, <1>10, <1>11, <1>12, <1>13, <1>14 DEF PanelsHeld

\* The wallet, the source chain and Circle take an operation on; what was minted
\* stays so.
LEMMA ProgressHeld ==
    ASSUME PanelsHeld, NEW n \in 1 .. asked, Panels!Progress(n)
    PROVE  PanelsHeld'
<1>1. PICK state \in OpStates : ops' = [ops EXCEPT ![n].state = state]
  BY DEF Panels!Progress, Panels!Mark, OpStates
<1>2. ops[n].state # "minted" /\ UNCHANGED <<asked, told, records, handlers>> /\ gatewayConfirmed' \in Nat
  BY DEF Panels!Progress, PanelsHeld
<1>3. PICK old : old = ops[n]
  OBVIOUS
<1>4. PICK new : new = [old EXCEPT !.state = state]
  OBVIOUS
<1>5. n \in 1 .. MaxOps /\ \A m \in 1 .. asked : m \in 1 .. MaxOps
  BY PagesAssumption DEF PanelsHeld
<1>6. /\ old \in Op
      /\ new \in Op /\ new.kind = old.kind
  <2>1. old \in Op
    BY <1>3, <1>5 DEF PanelsHeld
  <2>. QED
    BY <1>4, <2>1 DEF Op
<1>7. ops' = [ops EXCEPT ![n] = new]
  BY <1>1, <1>3, <1>4
<1>8. /\ ops' \in [1 .. MaxOps -> Op]
      /\ \A m \in 1 .. MaxOps : ops'[m].kind = ops[m].kind
      /\ \A m \in 1 .. MaxOps : ops[m].state = "minted" => ops'[m].state = "minted"
  BY <1>2, <1>3, <1>5, <1>6, <1>7 DEF PanelsHeld
<1>9. Panels!NoSecondSubmission'
  BY <1>2, <1>5, <1>8 DEF PanelsHeld, Panels!NoSecondSubmission
<1>. QED
  BY <1>2, <1>5, <1>8, <1>9 DEF PanelsHeld

\* A handler waits somewhere else, and nothing else changes.
LEMMA WaitHeld ==
    ASSUME PanelsHeld, NEW k \in Panels!Kinds,
           \/ handlers' = [handlers EXCEPT ![k] = "idle"]
           \/ handlers' = [handlers EXCEPT ![k] = "preparing"] /\ records[k] = Panels!NoRecord
           \/ handlers' = [j \in Panels!Kinds |-> "idle"],
           UNCHANGED <<ops, asked, told, records, gatewayConfirmed>>
    PROVE  PanelsHeld'
<1>1. /\ handlers' \in [Panels!Kinds -> Places]
      /\ \A j \in Panels!Kinds : handlers'[j] = handlers[j] \/ handlers'[j] = "idle"
                                    \/ (handlers'[j] = "preparing" /\ records[j] = Panels!NoRecord)
  BY DEF PanelsHeld, Places
<1>. QED
  BY <1>1 DEF PanelsHeld, Panels!NoSecondSubmission

LEMMA PanelsStep ==
    ASSUME PanelsHeld, Panels!Next
    PROVE  PanelsHeld'
<1>1. "deposit" \in Panels!Kinds /\ "move" \in Panels!Kinds
  BY DEF Panels!Kinds
<1>2. ASSUME NEW k \in Panels!Kinds, Panels!Submit(k)
      PROVE  PanelsHeld'
  BY <1>2, WaitHeld DEF Panels!Submit, Panels!Wait
<1>3. ASSUME NEW k \in Panels!Kinds, Panels!NotAsked(k)
      PROVE  PanelsHeld'
  BY <1>3, WaitHeld DEF Panels!NotAsked, Panels!Wait
<1>4. ASSUME NEW k \in Panels!Kinds, Panels!Answered(k)
      PROVE  PanelsHeld'
  <2>1. records[k] # Panels!NoRecord
    BY <1>4 DEF Panels!Answered, PanelsHeld
  <2>2. k = "move" => Panels!Current(k).state = "minted"
    BY <1>4 DEF Panels!Answered
  <2>. QED
    BY <1>4, <2>1, <2>2, ClearHeld DEF Panels!Answered
<1>5. ASSUME NEW k \in Panels!Kinds, Panels!Unanswered(k)
      PROVE  PanelsHeld'
  <2>1. records[k] # Panels!NoRecord
    BY <1>5 DEF Panels!Unanswered, PanelsHeld
  <2>2. PICK state \in RecordStates : records' = [records EXCEPT ![k] = [records[k] EXCEPT !.state = state]]
    BY <1>5 DEF Panels!Unanswered, Panels!Recoveries, Panels!Record, RecordStates
  <2>. QED
    BY <1>5, <2>1, <2>2, RecordHeld DEF Panels!Unanswered, Panels!Wait, Places
<1>6. CASE Panels!CheckDeposit
  BY <1>1, <1>6, ClearHeld DEF Panels!CheckDeposit
<1>7. CASE Panels!RetryMint
  <2>1. records["move"] # Panels!NoRecord
    BY <1>7 DEF Panels!RetryMint, Panels!NoRecord
  <2>. QED
    BY <1>1, <1>7, <2>1, RecordHeld DEF Panels!RetryMint, Panels!Wait, Panels!Record, RecordStates, Places
<1>8. CASE Panels!RetryAnswered
  <2>1. records["move"] # Panels!NoRecord
    BY <1>1, <1>8 DEF Panels!RetryAnswered, PanelsHeld
  <2>. QED
    BY <1>1, <1>8, <2>1, ClearHeld DEF Panels!RetryAnswered
<1>9. CASE Panels!RetryFailed
  <2>1. records["move"] # Panels!NoRecord
    BY <1>1, <1>9 DEF Panels!RetryFailed, PanelsHeld
  <2>2. PICK state \in RecordStates :
           records' = [records EXCEPT !["move"] = [records["move"] EXCEPT !.state = state]]
    BY <1>9 DEF Panels!RetryFailed, Panels!Record, RecordStates
  <2>. QED
    BY <1>1, <1>9, <2>1, <2>2, RecordHeld DEF Panels!RetryFailed, Panels!Wait, Places
<1>10. CASE Panels!CheckForwarder
  <2>1. records["move"] # Panels!NoRecord
    BY <1>10 DEF Panels!CheckForwarder, Panels!NoRecord
  <2>. QED
    BY <1>1, <1>10, <2>1, ClearHeld DEF Panels!CheckForwarder
<1>11. CASE Panels!Reload
  BY <1>1, <1>11, WaitHeld DEF Panels!Reload
<1>. QED
  BY <1>2, <1>3, <1>4, <1>5, <1>6, <1>7, <1>8, <1>9, <1>10, <1>11, AskHeld, ProgressHeld
     DEF Panels!Next

\* A deposit is asked for only after the panel was told the outcome of every
\* earlier one, and a move only after every earlier one was minted, whatever was
\* reloaded or failed in between.
THEOREM PanelsCorrect == PagesSpec => []NoSecondSubmission
<1>1. PagesInit => (part = "gateway" => PanelsHeld)
  BY PanelsInit DEF PagesInit
<1>2. (part = "gateway" => PanelsHeld) /\ [PagesNext]_<<part, pagesVars>>
         => (part = "gateway" => PanelsHeld)'
  <2>1. ASSUME part = "gateway" => PanelsHeld, UNCHANGED <<part, pagesVars>>
        PROVE  (part = "gateway" => PanelsHeld)'
    BY <2>1 DEF pagesVars, panelsVars, PanelsHeld, Panels!NoSecondSubmission
  <2>2. ASSUME part = "gateway" => PanelsHeld, PagesNext
        PROVE  (part = "gateway" => PanelsHeld)'
    BY <2>2, PanelsStep DEF PagesNext
  <2>. QED
    BY <2>1, <2>2
<1>3. (part = "gateway" => PanelsHeld) => NoSecondSubmission
  BY DEF NoSecondSubmission, PanelsHeld
<1>. QED
  BY <1>1, <1>2, <1>3, PTL DEF PagesSpec

-----------------------------------------------------------------------------
(* The check of a certificate.                                             *)
(* What was built, and what every file there is keeps of it; what passing  *)
(* the contents implies, and what of a genuine file passes them; and the   *)
(* invariant of a check as it goes on while the ledger moves.              *)

\* The loop that is checked can be netted.
LEMMA LoopFacts ==
    /\ DOMAIN CheckedLoop = 1 .. Len(CheckedLoop) /\ Len(CheckedLoop) \in Nat
    /\ 1 \in DOMAIN CheckedLoop /\ 2 \in DOMAIN CheckedLoop
    /\ 2 < Len(CheckedLoop) /\ Len(CheckedLoop) <= 5
    /\ CheckedNet \in Nat /\ 0 < CheckedNet
    /\ \A i \in DOMAIN CheckedLoop :
          /\ CheckedLoop[i] \in Checks!Item
          /\ CheckedLoop[i].obligation \in Checks!Obligation
          /\ CheckedLoop[i].remaining \in Nat /\ CheckedLoop[i].blinding \in Nat
          /\ CheckedLoop[i].obligation.amount \in Nat
          /\ CheckedNet <= CheckedLoop[i].remaining
          /\ CheckedLoop[i].remaining <= CheckedLoop[i].obligation.amount
          /\ CheckedLoop[i].blinding = 0 => CheckedLoop[i].remaining = CheckedLoop[i].obligation.amount
          /\ CheckedLoop[i].obligation.currency = Checks!Currency
          /\ Checks!Due(CheckedLoop[i].obligation)
    /\ Checks!Involves(CheckedLoop[1].obligation, Me)
    /\ ~ Checks!loopShapeProblem([i \in DOMAIN CheckedLoop |-> CheckedLoop[i].obligation])
<1>1. /\ CheckedLoop \in Seq(Checks!Item) /\ CheckedNet \in Nat /\ Len(CheckedLoop) > 2
      /\ ~ Checks!BuildProblem(CheckedLoop, CheckedNet, Checks!Currency)
      /\ \A i \in DOMAIN CheckedLoop : Checks!Due(CheckedLoop[i].obligation)
      /\ Checks!Involves(CheckedLoop[1].obligation, Me)
  BY ChecksAssumption DEF Checks!ConstantsAssumption
<1>2. DOMAIN CheckedLoop = 1 .. Len(CheckedLoop) /\ Len(CheckedLoop) \in Nat
      /\ \A i \in DOMAIN CheckedLoop : CheckedLoop[i] \in Checks!Item
  BY <1>1
<1>3. /\ ~ Checks!loopShapeProblem([i \in DOMAIN CheckedLoop |-> CheckedLoop[i].obligation])
      /\ ~ (CheckedNet <= 0)
      /\ \A i \in DOMAIN CheckedLoop :
            /\ CheckedLoop[i].obligation.currency = Checks!Currency
            /\ ~ (CheckedLoop[i].remaining > CheckedLoop[i].obligation.amount)
            /\ ~ (CheckedLoop[i].blinding = 0
                    /\ CheckedLoop[i].remaining # CheckedLoop[i].obligation.amount)
            /\ ~ (CheckedNet > CheckedLoop[i].remaining)
  BY <1>1, Zenon DEF Checks!BuildProblem, Checks!ZeroBlinding
<1>4. \A i \in DOMAIN CheckedLoop :
          /\ CheckedLoop[i].obligation \in Checks!Obligation
          /\ CheckedLoop[i].remaining \in Nat /\ CheckedLoop[i].blinding \in Nat
  BY <1>2 DEF Checks!Item
<1>5. \A i \in DOMAIN CheckedLoop : CheckedLoop[i].obligation.amount \in Nat
  BY <1>4 DEF Checks!Obligation
<1>6. Len(CheckedLoop) <= 5
  <2>. DEFINE debts == [i \in DOMAIN CheckedLoop |-> CheckedLoop[i].obligation]
  <2>1. Len(debts) = Len(CheckedLoop)
    BY <1>2
  <2>2. Len(debts) \in 2 .. 5
    BY <1>3 DEF Checks!loopShapeProblem
  <2>3. PICK k : k = Len(CheckedLoop) /\ k \in 2 .. 5
    BY <2>1, <2>2, Zenon
  <2>4. k <= 5
    BY <2>3
  <2>. QED
    BY <2>3, <2>4, Zenon
<1>. QED
  BY <1>1, <1>2, <1>3, <1>4, <1>5, <1>6

\* Whether debts make a loop depends on who owes whom.
LEMMA ShapeSame ==
    ASSUME NEW k \in Nat, NEW s, NEW t, DOMAIN s = 1 .. k, DOMAIN t = 1 .. k,
           s = [i \in DOMAIN s |-> s[i]], t = [i \in DOMAIN t |-> t[i]],
           \A i \in 1 .. k : s[i].debtor = t[i].debtor /\ s[i].creditor = t[i].creditor
    PROVE  /\ Len(s) = k /\ Len(t) = k
           /\ Checks!loopShapeProblem(s) <=> Checks!loopShapeProblem(t)
<1>1. Len(s) = k /\ Len(t) = k
  <2>. DEFINE S == {s[i] : i \in 1 .. k} \cup {t[i] : i \in 1 .. k}
  <2>1. s \in [1 .. k -> S] /\ t \in [1 .. k -> S]
    OBVIOUS
  <2>. HIDE DEF S
  <2>2. s \in Seq(S) /\ t \in Seq(S)
    BY <2>1
  <2>. QED
    BY <2>1, <2>2
<1>2. Checks!SimpleLoop(s) <=> Checks!SimpleLoop(t)
  <2>1. \A i \in 1 .. k : Checks!NextIndex(i, k) \in 1 .. k
    BY DEF Checks!NextIndex
  <2>2. Checks!PathClosed(s) <=> Checks!PathClosed(t)
    BY <1>1, <2>1 DEF Checks!PathClosed
  <2>3. Checks!DebtorsDistinct(s) <=> Checks!DebtorsDistinct(t)
    BY DEF Checks!DebtorsDistinct
  <2>. QED
    BY <2>2, <2>3 DEF Checks!SimpleLoop
<1>. QED
  BY <1>1, <1>2, Zenon DEF Checks!loopShapeProblem

\* What buildCertificate makes of a loop.
MadeOf(made, items, n, currency) ==
    /\ made = [domain |-> made.domain, currency |-> made.currency, wNet |-> made.wNet,
               certificate |-> made.certificate, signatures |-> made.signatures,
               entries |-> made.entries]
    /\ made.domain = Checks!ThisLedger /\ made.currency = currency /\ made.wNet = n
    /\ made.certificate = [certificateId |-> 1, deadline |-> 1,
                           entries |-> made.certificate.entries,
                           contentHash |-> made.certificate.contentHash]
    /\ made.certificate.entries =
          [i \in DOMAIN items |-> Checks!EntryOf(Checks!Document(items[i], n, 10 + i))]
    /\ made.signatures = [i \in DOMAIN items |-> Checks!NoSignature]
    /\ made.entries =
          [i \in DOMAIN items |-> [kind |-> "full", document |-> Checks!Document(items[i], n, 10 + i)]]
    /\ made.certificate.contentHash =
          Checks!contentHash(currency, n,
             [i \in DOMAIN items |-> Checks!entryHash(Checks!Document(items[i], n, 10 + i),
                                                     Checks!ThisLedger)])

\* buildCertificate makes the parts named in MadeOf.
LEMMA BuiltParts ==
    ASSUME NEW items, NEW n, NEW currency, NEW made,
           made = Checks!buildCertificate(items, n, currency)
    PROVE  MadeOf(made, items, n, currency)
<1>. DEFINE docs == [i \in DOMAIN items |-> Checks!Document(items[i], n, 10 + i)]
            edges == [i \in DOMAIN docs |-> Checks!EntryOf(docs[i])]
            digests == [i \in DOMAIN docs |-> Checks!entryHash(docs[i], Checks!ThisLedger)]
            signed == [i \in DOMAIN docs |-> Checks!NoSignature]
            full == [i \in DOMAIN docs |-> [kind |-> "full", document |-> docs[i]]]
            cert == [certificateId |-> 1, deadline |-> 1, entries |-> edges,
                     contentHash |-> Checks!contentHash(currency, n, digests)]
<1>1. made = [domain |-> Checks!ThisLedger, currency |-> currency, wNet |-> n,
              certificate |-> cert, signatures |-> signed, entries |-> full]
  BY Zenon DEF Checks!buildCertificate
<1>2. /\ edges = [i \in DOMAIN items |-> Checks!EntryOf(Checks!Document(items[i], n, 10 + i))]
      /\ signed = [i \in DOMAIN items |-> Checks!NoSignature]
      /\ full = [i \in DOMAIN items |-> [kind |-> "full", document |-> Checks!Document(items[i], n, 10 + i)]]
      /\ digests = [i \in DOMAIN items |-> Checks!entryHash(Checks!Document(items[i], n, 10 + i),
                                                          Checks!ThisLedger)]
  OBVIOUS
<1>. HIDE DEF edges, digests, signed, full
<1>3. cert = [certificateId |-> 1, deadline |-> 1, entries |-> cert.entries,
              contentHash |-> cert.contentHash]
      /\ cert.entries = edges /\ cert.contentHash = Checks!contentHash(currency, n, digests)
  OBVIOUS
<1>. HIDE DEF cert
<1>4. /\ made.certificate = cert /\ made.entries = full /\ made.signatures = signed
      /\ made.domain = Checks!ThisLedger /\ made.currency = currency /\ made.wNet = n
  BY <1>1
<1>. QED
  BY <1>1, <1>2, <1>3, <1>4, Zenon DEF MadeOf

\* What it makes of a debt.
LEMMA DocumentParts ==
    ASSUME NEW item, NEW n, NEW fresh, NEW doc, doc = Checks!Document(item, n, fresh), NEW id,
           id = Checks!obligationId(item.obligation, Checks!ThisLedger)
    PROVE  /\ doc = [obligation |-> doc.obligation, debtorSignature |-> doc.debtorSignature,
                     creditorSignature |-> doc.creditorSignature,
                     remainingBefore |-> doc.remainingBefore, blindingBefore |-> doc.blindingBefore,
                     remainingAfter |-> doc.remainingAfter, blindingAfter |-> doc.blindingAfter]
           /\ doc.obligation = item.obligation
           /\ doc.debtorSignature = Checks!Signature(item.obligation.debtor, id)
           /\ doc.creditorSignature = Checks!Signature(item.obligation.creditor, id)
           /\ doc.remainingBefore = item.remaining /\ doc.blindingBefore = item.blinding
           /\ doc.remainingAfter = item.remaining - n /\ doc.blindingAfter = fresh
           /\ Checks!EntryOf(doc).obligationId = id
           /\ Checks!EntryOf(doc).debtor = item.obligation.debtor
           /\ Checks!EntryOf(doc).creditor = item.obligation.creditor
           /\ Checks!EntryOf(doc).priorCommitment =
                 Checks!priorCommitmentOf(id, item.remaining, item.blinding)
           /\ Checks!EntryOf(doc).nextCommitment = Checks!commitment(id, item.remaining - n, fresh)
<1>1. doc = [obligation |-> item.obligation,
             debtorSignature |-> Checks!Signature(item.obligation.debtor, id),
             creditorSignature |-> Checks!Signature(item.obligation.creditor, id),
             remainingBefore |-> item.remaining, blindingBefore |-> item.blinding,
             remainingAfter |-> item.remaining - n, blindingAfter |-> fresh]
  BY Zenon DEF Checks!Document
<1>2. /\ doc = [obligation |-> doc.obligation, debtorSignature |-> doc.debtorSignature,
                creditorSignature |-> doc.creditorSignature,
                remainingBefore |-> doc.remainingBefore, blindingBefore |-> doc.blindingBefore,
                remainingAfter |-> doc.remainingAfter, blindingAfter |-> doc.blindingAfter]
      /\ doc.obligation = item.obligation
      /\ doc.debtorSignature = Checks!Signature(item.obligation.debtor, id)
      /\ doc.creditorSignature = Checks!Signature(item.obligation.creditor, id)
      /\ doc.remainingBefore = item.remaining /\ doc.blindingBefore = item.blinding
      /\ doc.remainingAfter = item.remaining - n /\ doc.blindingAfter = fresh
  BY <1>1
<1>. QED
  BY <1>2 DEF Checks!EntryOf

\* The document of a debt of the loop, and what was hashed of it.
DocumentOf(i) == Checks!Document(CheckedLoop[i], CheckedNet, 10 + i)
HashOf(i) == Checks!entryHash(DocumentOf(i), Checks!ThisLedger)

\* A copy of a certificate that shows some of its entries.
ViewOf(f, made) ==
    /\ f = [domain |-> f.domain, currency |-> f.currency, wNet |-> f.wNet,
            certificate |-> f.certificate, signatures |-> f.signatures, entries |-> f.entries]
    /\ f.domain = made.domain /\ f.currency = made.currency /\ f.wNet = made.wNet
    /\ f.certificate = made.certificate
    /\ f.entries = [i \in DOMAIN CheckedLoop |-> f.entries[i]]
    /\ \A i \in DOMAIN CheckedLoop :
          \/ f.entries[i] = made.entries[i]
          \/ /\ f.entries[i] = [kind |-> "hash",
                                entryHash |-> Checks!entryHash(made.entries[i].document, made.domain)]
             /\ ~ Checks!Involves(made.certificate.entries[i], Me)

\* Nothing of the debts of others.
OwnShown(f, made) ==
    \A i \in DOMAIN CheckedLoop :
        \/ Checks!Involves(made.certificate.entries[i], Me)
        \/ f.entries[i].kind = "hash"

\* viewForParty shows its party what it is on, and the hash of the rest.
LEMMA ViewHeld ==
    ASSUME NEW items, NEW n, NEW currency, NEW made, DOMAIN items = DOMAIN CheckedLoop,
           made = Checks!buildCertificate(items, n, currency)
    PROVE  /\ ViewOf(made, made)
           /\ ViewOf(Checks!viewForParty(made, Me), made)
           /\ OwnShown(Checks!viewForParty(made, Me), made)
           /\ Checks!viewForParty(made, Me).signatures = made.signatures
<1>. DEFINE docs == [i \in DOMAIN items |->
                        [kind |-> "full", document |-> Checks!Document(items[i], n, 10 + i)]]
<1>0. /\ made = [domain |-> made.domain, currency |-> made.currency, wNet |-> made.wNet,
                 certificate |-> made.certificate, signatures |-> made.signatures,
                 entries |-> made.entries]
      /\ made.entries = docs
  <2>1. MadeOf(made, items, n, currency)
    BY BuiltParts
  <2>. QED
    BY <2>1, Zenon DEF MadeOf
<1>1. ViewOf(made, made)
  <2>1. made.entries = [i \in DOMAIN CheckedLoop |-> made.entries[i]]
    BY <1>0
  <2>. QED
    BY <1>0, <2>1, Zenon DEF ViewOf
<1>2. ASSUME NEW f, f = Checks!viewForParty(made, Me)
      PROVE  ViewOf(f, made) /\ OwnShown(f, made) /\ f.signatures = made.signatures
  <2>. DEFINE seen == [i \in DOMAIN made.entries |->
                           IF Checks!Involves(made.certificate.entries[i], Me) THEN made.entries[i]
                           ELSE [kind |-> "hash",
                                 entryHash |-> Checks!viewEntryHash(made.entries[i], made.domain)]]
  <2>1. f = [made EXCEPT !.entries = seen]
    BY <1>2, Zenon DEF Checks!viewForParty
  <2>2. /\ made = [domain |-> made.domain, currency |-> made.currency, wNet |-> made.wNet,
                   certificate |-> made.certificate, signatures |-> made.signatures,
                   entries |-> made.entries]
        /\ DOMAIN made.entries = DOMAIN CheckedLoop
        /\ \A i \in DOMAIN CheckedLoop :
              made.entries[i].kind = "full"
    BY <1>0
  <2>3. \A i \in DOMAIN CheckedLoop :
           Checks!viewEntryHash(made.entries[i], made.domain) =
              Checks!entryHash(made.entries[i].document, made.domain)
    BY <2>2 DEF Checks!viewEntryHash
  <2>4. /\ DOMAIN seen = DOMAIN CheckedLoop
        /\ seen = [i \in DOMAIN CheckedLoop |-> seen[i]]
        /\ \A i \in DOMAIN CheckedLoop :
             \/ seen[i] = made.entries[i] /\ Checks!Involves(made.certificate.entries[i], Me)
             \/ /\ seen[i] = [kind |-> "hash",
                               entryHash |-> Checks!entryHash(made.entries[i].document, made.domain)]
                /\ ~ Checks!Involves(made.certificate.entries[i], Me)
    <3>1. DOMAIN seen = DOMAIN CheckedLoop
      BY <2>2
    <3>2. seen = [i \in DOMAIN CheckedLoop |-> seen[i]]
      BY <3>1
    <3>3. ASSUME NEW i \in DOMAIN CheckedLoop
          PROVE  seen[i] = IF Checks!Involves(made.certificate.entries[i], Me) THEN made.entries[i]
                            ELSE [kind |-> "hash",
                                  entryHash |-> Checks!entryHash(made.entries[i].document, made.domain)]
      BY <2>2, <2>3, Zenon
    <3>. QED
      BY <3>1, <3>2, <3>3, Zenon
  <2>. HIDE DEF seen
  <2>5. /\ f = [domain |-> made.domain, currency |-> made.currency, wNet |-> made.wNet,
                certificate |-> made.certificate, signatures |-> made.signatures, entries |-> seen]
    BY <2>1, <2>2
  <2>6. /\ f.domain = made.domain /\ f.currency = made.currency /\ f.wNet = made.wNet
        /\ f.certificate = made.certificate /\ f.signatures = made.signatures /\ f.entries = seen
    BY <2>5
  <2>7. ViewOf(f, made)
    BY <2>4, <2>5, <2>6, Zenon DEF ViewOf
  <2>. QED
    BY <2>4, <2>6, <2>7 DEF OwnShown
<1>. QED
  BY <1>1, <1>2

\* The same with the signatures of its debtors over what was built.
SignatureOf(i) ==
    Checks!Signature(CheckedLoop[i].obligation.debtor, Checks!certificateDigest(Checks!Built))

\* The certificate that was built, part by part.
LEMMA BuiltEntries ==
    /\ Checks!Built.domain = Checks!ThisLedger /\ Checks!Built.currency = Checks!Currency
    /\ Checks!Built.wNet = CheckedNet
    /\ Checks!Built.certificate =
          [certificateId |-> 1, deadline |-> 1, entries |-> Checks!Built.certificate.entries,
           contentHash |-> Checks!Built.certificate.contentHash]
    /\ Checks!Built.certificate.entries =
          [i \in DOMAIN CheckedLoop |-> Checks!EntryOf(DocumentOf(i))]
    /\ Checks!Built.signatures = [i \in DOMAIN CheckedLoop |-> Checks!NoSignature]
    /\ Checks!Built.entries =
          [i \in DOMAIN CheckedLoop |-> [kind |-> "full", document |-> DocumentOf(i)]]
    /\ Checks!Built.certificate.contentHash =
          Checks!contentHash(Checks!Currency, CheckedNet, [i \in DOMAIN CheckedLoop |-> HashOf(i)])
<1>1. Checks!Built = Checks!buildCertificate(CheckedLoop, CheckedNet, Checks!Currency)
  BY DEF Checks!Built
<1>. QED
  <2>1. MadeOf(Checks!Built, CheckedLoop, CheckedNet, Checks!Currency)
    BY <1>1, BuiltParts
  <2>. QED
    BY <2>1, Zenon DEF MadeOf, DocumentOf, HashOf

\* withSignatures adds the signatures and leaves the rest.
LEMMA SignedHeld ==
    ASSUME NEW v, ViewOf(v, Checks!Built), v.signatures = Checks!Built.signatures
    PROVE  /\ ViewOf(Checks!withSignatures(v), Checks!Built)
           /\ Checks!withSignatures(v).signatures = [i \in DOMAIN CheckedLoop |-> SignatureOf(i)]
<1>. DEFINE by == [i \in DOMAIN v.signatures |->
                      Checks!Signature(v.certificate.entries[i].debtor, Checks!certificateDigest(v))]
            f == Checks!withSignatures(v)
<1>1. f = [v EXCEPT !.signatures = by]
  BY Zenon DEF Checks!withSignatures
<1>2. Checks!certificateDigest(v) = Checks!certificateDigest(Checks!Built)
  BY DEF ViewOf, Checks!certificateDigest
<1>3. \A i \in DOMAIN CheckedLoop : v.certificate.entries[i].debtor = CheckedLoop[i].obligation.debtor
  BY BuiltEntries, DocumentParts DEF ViewOf, DocumentOf
<1>4. by = [i \in DOMAIN CheckedLoop |-> SignatureOf(i)]
  BY <1>2, <1>3, BuiltEntries DEF SignatureOf
<1>. HIDE DEF by, f
<1>5. f = [domain |-> v.domain, currency |-> v.currency, wNet |-> v.wNet,
           certificate |-> v.certificate, signatures |-> by, entries |-> v.entries]
  BY <1>1 DEF ViewOf
<1>6. /\ f.domain = v.domain /\ f.currency = v.currency /\ f.wNet = v.wNet
      /\ f.certificate = v.certificate /\ f.signatures = by /\ f.entries = v.entries
  BY <1>5
<1>7. ViewOf(f, Checks!Built) /\ f.signatures = [i \in DOMAIN CheckedLoop |-> SignatureOf(i)]
  BY <1>4, <1>5, <1>6, Zenon DEF ViewOf
<1>. QED
  BY <1>7 DEF f

\* A genuine file shows what was built, with every debtor's signature.
LEMMA GenuineHeld ==
    ASSUME NEW f \in Checks!Genuine
    PROVE  /\ ViewOf(f, Checks!Built)
           /\ f.signatures = [i \in DOMAIN CheckedLoop |-> SignatureOf(i)]
<1>1. Checks!Built = Checks!buildCertificate(CheckedLoop, CheckedNet, Checks!Currency)
      /\ Checks!Mine = Checks!viewForParty(Checks!Built, Me)
  BY DEF Checks!Built, Checks!Mine
<1>2. /\ ViewOf(Checks!Built, Checks!Built)
      /\ ViewOf(Checks!Mine, Checks!Built) /\ Checks!Mine.signatures = Checks!Built.signatures
  BY <1>1, ViewHeld
<1>. QED
  BY <1>2, SignedHeld DEF Checks!Genuine

-----------------------------------------------------------------------------
\* What every file there is keeps of the certificate that was built: in the
\* entries its party is on, what they start from; what the signatures are over;
\* and the debtor's signature on every document that is shown.
PriorOf(i) == Checks!Built.certificate.entries[i].priorCommitment
BlindedPrior(i) ==
    Checks!commitment(Checks!obligationId(CheckedLoop[i].obligation, Checks!ThisLedger),
                      CheckedLoop[i].remaining, 9)
MyDebt(i) == Checks!Involves(Checks!Built.certificate.entries[i], Me)
EntryHeld(entry, i) ==
    /\ entry = [obligationId |-> entry.obligationId, debtor |-> entry.debtor,
                creditor |-> entry.creditor, priorCommitment |-> entry.priorCommitment,
                nextCommitment |-> entry.nextCommitment]
    /\ entry.priorCommitment \in {PriorOf(i), BlindedPrior(i)}
    /\ Checks!Involves(entry, Me)
CertificateHeld(certificate) ==
    /\ DOMAIN certificate.entries = DOMAIN CheckedLoop
    /\ \A i \in DOMAIN CheckedLoop : MyDebt(i) => EntryHeld(certificate.entries[i], i)
SignaturesHeld(signatures) ==
    /\ 1 \in DOMAIN signatures
    /\ \A i \in DOMAIN signatures :
          signatures[i] # Checks!NoSignature
             => signatures[i].of = Checks!certificateDigest(Checks!Built)
ShownHeld(seen, i) ==
    seen.kind = "full" => seen.document.debtorSignature = DocumentOf(i).debtorSignature
EntriesHeld(entries) ==
    /\ DOMAIN entries = DOMAIN CheckedLoop
    /\ \A i \in DOMAIN CheckedLoop : ShownHeld(entries[i], i)
FileHeld(f) ==
    /\ f = [domain |-> f.domain, currency |-> f.currency, wNet |-> f.wNet,
            certificate |-> f.certificate, signatures |-> f.signatures, entries |-> f.entries]
    /\ CertificateHeld(f.certificate) /\ SignaturesHeld(f.signatures) /\ EntriesHeld(f.entries)
    /\ \/ f.certificate = Checks!Built.certificate
       \/ \A i \in DOMAIN CheckedLoop : f.entries[i].kind = "full" => MyDebt(i)

\* EntryOf makes a record of the entry's five fields.
LEMMA EntryFields ==
    ASSUME NEW doc
    PROVE  LET entry == Checks!EntryOf(doc) IN
           entry = [obligationId |-> entry.obligationId, debtor |-> entry.debtor,
                    creditor |-> entry.creditor, priorCommitment |-> entry.priorCommitment,
                    nextCommitment |-> entry.nextCommitment]
BY DEF Checks!EntryOf

\* A copy of the certificate, or of one built of the same debts.
LEMMA CopyHeld ==
    ASSUME NEW made, NEW f, ViewOf(f, made),
           DOMAIN made.certificate.entries = DOMAIN CheckedLoop,
           \A i \in DOMAIN CheckedLoop :
              /\ EntryHeld(made.certificate.entries[i], i) \/ ~ MyDebt(i)
              /\ made.entries[i].document.debtorSignature = DocumentOf(i).debtorSignature,
           f.signatures = [i \in DOMAIN CheckedLoop |-> SignatureOf(i)],
           \/ made.certificate = Checks!Built.certificate
           \/ \A i \in DOMAIN CheckedLoop : f.entries[i].kind = "full" => MyDebt(i)
    PROVE  FileHeld(f)
<1>1. CertificateHeld(f.certificate)
  BY DEF CertificateHeld, ViewOf
<1>2. SignaturesHeld(f.signatures)
  BY LoopFacts DEF SignaturesHeld, SignatureOf, Checks!Signature
<1>3. EntriesHeld(f.entries)
  <2>1. DOMAIN f.entries = DOMAIN CheckedLoop
    BY DEF ViewOf
  <2>2. ASSUME NEW i \in DOMAIN CheckedLoop
        PROVE  ShownHeld(f.entries[i], i)
    <3>1. \/ f.entries[i] = made.entries[i]
          \/ f.entries[i] = [kind |-> "hash",
                             entryHash |-> Checks!entryHash(made.entries[i].document, made.domain)]
      BY DEF ViewOf
    <3>. QED
      BY <3>1 DEF ShownHeld
  <2>. QED
    BY <2>1, <2>2 DEF EntriesHeld
<1>. QED
  BY <1>1, <1>2, <1>3 DEF FileHeld, ViewOf

\* The entries of the certificate that was built, as far as they name the
\* party.
LEMMA OwnEntries ==
    /\ DOMAIN Checks!Built.certificate.entries = DOMAIN CheckedLoop
    /\ \A i \in DOMAIN CheckedLoop :
          LET id == Checks!obligationId(CheckedLoop[i].obligation, Checks!ThisLedger)
              entry == Checks!Built.certificate.entries[i]
          IN
          /\ entry = Checks!EntryOf(DocumentOf(i))
          /\ entry.debtor = CheckedLoop[i].obligation.debtor
          /\ entry.creditor = CheckedLoop[i].obligation.creditor
          /\ entry.obligationId = id
          /\ PriorOf(i) = Checks!priorCommitmentOf(id, CheckedLoop[i].remaining, CheckedLoop[i].blinding)
          /\ entry.nextCommitment = Checks!commitment(id, CheckedLoop[i].remaining - CheckedNet, 10 + i)
          /\ MyDebt(i) => EntryHeld(entry, i)
          /\ MyDebt(i) <=> Checks!Involves(CheckedLoop[i].obligation, Me)
          /\ Checks!Built.entries[i] = [kind |-> "full", document |-> DocumentOf(i)]
<1>1. /\ DOMAIN Checks!Built.certificate.entries = DOMAIN CheckedLoop
      /\ \A i \in DOMAIN CheckedLoop :
            /\ Checks!Built.certificate.entries[i] = Checks!EntryOf(DocumentOf(i))
            /\ Checks!Built.entries[i] = [kind |-> "full", document |-> DocumentOf(i)]
  BY BuiltEntries
<1>2. ASSUME NEW i \in DOMAIN CheckedLoop, NEW id, NEW entry,
             id = Checks!obligationId(CheckedLoop[i].obligation, Checks!ThisLedger),
             entry = Checks!Built.certificate.entries[i]
      PROVE  /\ entry.debtor = CheckedLoop[i].obligation.debtor
             /\ entry.creditor = CheckedLoop[i].obligation.creditor
             /\ entry.obligationId = id
             /\ PriorOf(i) = Checks!priorCommitmentOf(id, CheckedLoop[i].remaining, CheckedLoop[i].blinding)
             /\ entry.nextCommitment = Checks!commitment(id, CheckedLoop[i].remaining - CheckedNet, 10 + i)
             /\ MyDebt(i) => EntryHeld(entry, i)
             /\ MyDebt(i) <=> Checks!Involves(CheckedLoop[i].obligation, Me)
  <2>1. entry = Checks!EntryOf(DocumentOf(i))
    BY <1>1, <1>2
  <2>2. /\ entry.debtor = CheckedLoop[i].obligation.debtor
        /\ entry.creditor = CheckedLoop[i].obligation.creditor
        /\ entry.obligationId = id
        /\ entry.priorCommitment =
              Checks!priorCommitmentOf(id, CheckedLoop[i].remaining, CheckedLoop[i].blinding)
        /\ entry.nextCommitment = Checks!commitment(id, CheckedLoop[i].remaining - CheckedNet, 10 + i)
    <3>1. PICK doc : doc = DocumentOf(i)
      OBVIOUS
    <3>2. doc = Checks!Document(CheckedLoop[i], CheckedNet, 10 + i)
      BY <3>1 DEF DocumentOf
    <3>. QED
      BY <1>2, <2>1, <3>1, <3>2, DocumentParts
  <2>3. PriorOf(i) = entry.priorCommitment /\ (MyDebt(i) <=> Checks!Involves(entry, Me))
    BY <1>2 DEF PriorOf, MyDebt
  <2>4. MyDebt(i) => EntryHeld(entry, i)
    BY <2>1, <2>3, EntryFields DEF EntryHeld
  <2>. QED
    BY <2>2, <2>3, <2>4 DEF Checks!Involves
<1>. QED
  BY <1>1, <1>2

\* The party is on two of the debts, and there is one it is not on.
LEMMA OwnTwo ==
    /\ Checks!OwnIn(Checks!Built) \subseteq DOMAIN CheckedLoop
    /\ \A i \in DOMAIN CheckedLoop : i \in Checks!OwnIn(Checks!Built) <=> MyDebt(i)
    /\ Cardinality(Checks!OwnIn(Checks!Built)) = 2
    /\ MyDebt(1)
    /\ Checks!Other \in DOMAIN CheckedLoop /\ ~ MyDebt(Checks!Other)
<1>. DEFINE n == Len(CheckedLoop)
            debts == [i \in DOMAIN CheckedLoop |-> CheckedLoop[i].obligation]
<1>1. /\ DOMAIN CheckedLoop = 1 .. n /\ n \in Nat /\ 2 < n
      /\ Checks!Involves(CheckedLoop[1].obligation, Me)
      /\ ~ Checks!loopShapeProblem(debts)
  BY LoopFacts
<1>2. Len(debts) = n
  BY LoopFacts, ShapeSame
<1>3. Checks!PathClosed(debts) /\ Checks!DebtorsDistinct(debts)
  BY <1>1, Zenon DEF Checks!loopShapeProblem, Checks!SimpleLoop
<1>. HIDE DEF n
<1>. DEFINE debtor(i) == CheckedLoop[i].obligation.debtor
            creditor(i) == CheckedLoop[i].obligation.creditor
<1>4. \A i \in 1 .. n : creditor(i) = debtor(IF i = n THEN 1 ELSE i + 1)
  <2>1. DOMAIN debts = 1 .. n /\ \A i \in 1 .. n : debts[i] = CheckedLoop[i].obligation
    BY <1>1
  <2>. HIDE DEF debts
  <2>2. \A i \in 1 .. n : debts[i].creditor = debts[Checks!NextIndex(i, n)].debtor
    BY <1>2, <1>3, <2>1, Zenon DEF Checks!PathClosed
  <2>3. \A i \in 1 .. n : Checks!NextIndex(i, n) \in 1 .. n
    BY <1>1 DEF Checks!NextIndex
  <2>4. \A i \in 1 .. n : creditor(i) = debtor(Checks!NextIndex(i, n))
    BY <2>1, <2>2, <2>3
  <2>. QED
    BY <2>4 DEF Checks!NextIndex
<1>5. \A i, j \in 1 .. n : debtor(i) = debtor(j) => i = j
  BY <1>1, <1>3 DEF Checks!DebtorsDistinct
<1>6. \A i \in 1 .. n : MyDebt(i) <=> Me = debtor(i) \/ Me = creditor(i)
  BY <1>1, OwnEntries DEF Checks!Involves
<1>7. Me = debtor(1) \/ Me = creditor(1)
  BY <1>1 DEF Checks!Involves
<1>. HIDE DEF debtor, creditor, debts
<1>8. PICK a \in 1 .. n, b \in 1 .. n, c \in 1 .. n :
         a # b /\ c \notin {a, b} /\ \A i \in 1 .. n : MyDebt(i) <=> i \in {a, b}
  <2>1. CASE Me = debtor(1)
    <3>1. \A i \in 1 .. n : MyDebt(i) <=> i \in {1, n}
      BY <1>1, <1>4, <1>5, <1>6, <2>1
    <3>. QED
      BY <1>1, <3>1
  <2>2. CASE Me = creditor(1)
    <3>1. \A i \in 1 .. n : MyDebt(i) <=> i \in {1, 2}
      BY <1>1, <1>4, <1>5, <1>6, <2>2
    <3>2. 1 \in 1 .. n /\ 2 \in 1 .. n /\ 3 \in 1 .. n
      BY <1>1
    <3>. QED
      BY <3>1, <3>2
  <2>. QED
    BY <1>7, <2>1, <2>2
<1>9. Checks!OwnIn(Checks!Built) = {i \in 1 .. n : MyDebt(i)}
  BY <1>1, OwnEntries DEF Checks!OwnIn, MyDebt
<1>10. Checks!OwnIn(Checks!Built) = {a, b}
  BY <1>8, <1>9
<1>11. Cardinality({a, b}) = 2
  <2>1. IsFiniteSet({a}) /\ Cardinality({a}) = 1
    BY FS_Singleton
  <2>2. Cardinality({a} \cup {b}) = Cardinality({a}) + 1
    BY <1>8, <2>1, FS_AddElement
  <2>3. {a} \cup {b} = {a, b}
    OBVIOUS
  <2>. QED
    BY <2>1, <2>2, <2>3
<1>12. Checks!Other \in DOMAIN CheckedLoop /\ Checks!Other \notin Checks!OwnIn(Checks!Built)
  <2>1. \E i \in DOMAIN CheckedLoop : i \notin Checks!OwnIn(Checks!Built)
    BY <1>1, <1>8, <1>10
  <2>. QED
    BY <2>1 DEF Checks!Other
<1>13. MyDebt(1)
  BY <1>1, <1>6, <1>7
<1>. QED
  BY <1>1, <1>9, <1>10, <1>11, <1>12, <1>13

\* The certificate that was built keeps what a file must.
LEMMA BuiltHeld ==
    /\ DOMAIN Checks!Built.certificate.entries = DOMAIN CheckedLoop
    /\ \A i \in DOMAIN CheckedLoop :
          /\ EntryHeld(Checks!Built.certificate.entries[i], i) \/ ~ MyDebt(i)
          /\ Checks!Built.entries[i].document.debtorSignature = DocumentOf(i).debtorSignature
<1>1. ASSUME NEW i \in DOMAIN CheckedLoop
      PROVE  /\ MyDebt(i) => EntryHeld(Checks!Built.certificate.entries[i], i)
             /\ Checks!Built.entries[i] = [kind |-> "full", document |-> DocumentOf(i)]
  BY OwnEntries, Zenon
<1>. QED
  <2>1. ASSUME NEW i \in DOMAIN CheckedLoop
        PROVE  Checks!Built.entries[i].document = DocumentOf(i)
    <3>1. PICK doc : doc = DocumentOf(i)
      OBVIOUS
    <3>2. Checks!Built.entries[i] = [kind |-> "full", document |-> doc]
      BY <1>1, <3>1, Zenon
    <3>. QED
      BY <3>1, <3>2
  <2>2. DOMAIN Checks!Built.certificate.entries = DOMAIN CheckedLoop
    BY OwnEntries
  <2>. QED
    BY <1>1, <2>1, <2>2, Zenon

\* The party's copy, signed.
Copy == Checks!withSignatures(Checks!Mine)

\* The party's signed copy: its own debts are shown, the others are hashed.
LEMMA CopyParts ==
    /\ FileHeld(Copy)
    /\ ViewOf(Copy, Checks!Built)
    /\ Copy.signatures = [i \in DOMAIN CheckedLoop |-> SignatureOf(i)]
    /\ \A i \in DOMAIN CheckedLoop : Copy.entries[i].kind = "full" => MyDebt(i)
    /\ Copy.entries[1] = [kind |-> "full", document |-> DocumentOf(1)]
    /\ Copy.domain = Checks!ThisLedger
<1>1. Copy \in Checks!Genuine
  BY DEF Checks!Genuine, Copy
<1>2. ViewOf(Copy, Checks!Built) /\ Copy.signatures = [i \in DOMAIN CheckedLoop |-> SignatureOf(i)]
  BY <1>1, GenuineHeld
<1>3. OwnShown(Copy, Checks!Built)
  <2>1. OwnShown(Checks!Mine, Checks!Built) /\ ViewOf(Checks!Mine, Checks!Built)
    <3>1. Checks!Built = Checks!buildCertificate(CheckedLoop, CheckedNet, Checks!Currency)
          /\ Checks!Mine = Checks!viewForParty(Checks!Built, Me)
      BY DEF Checks!Built, Checks!Mine
    <3>. QED
      BY <3>1, ViewHeld
  <2>2. Copy.entries = Checks!Mine.entries
    <3>. DEFINE by == [i \in DOMAIN Checks!Mine.signatures |->
                          Checks!Signature(Checks!Mine.certificate.entries[i].debtor,
                                           Checks!certificateDigest(Checks!Mine))]
    <3>1. Copy = [Checks!Mine EXCEPT !.signatures = by]
      BY Zenon DEF Copy, Checks!withSignatures
    <3>. HIDE DEF by
    <3>. QED
      BY <2>1, <3>1 DEF ViewOf
  <2>. QED
    BY <2>1, <2>2 DEF OwnShown
<1>4. \A i \in DOMAIN CheckedLoop : Copy.entries[i].kind = "full" => MyDebt(i)
  BY <1>3 DEF OwnShown, MyDebt
<1>5. Copy.entries[1] = [kind |-> "full", document |-> DocumentOf(1)]
  <2>1. 1 \in DOMAIN CheckedLoop /\ Checks!Involves(Checks!Built.certificate.entries[1], Me)
    BY LoopFacts, OwnTwo DEF MyDebt
  <2>2. Copy.entries[1] = Checks!Built.entries[1]
    BY <1>2, <2>1 DEF ViewOf
  <2>. QED
    BY <2>1, <2>2, OwnEntries
<1>6. FileHeld(Copy)
  BY <1>2, BuiltHeld, CopyHeld
<1>. QED
  BY <1>2, <1>4, <1>5, <1>6, BuiltEntries DEF ViewOf

\* A file is held when each of its parts is.
LEMMA AlteredFile ==
    ASSUME NEW domain, NEW currency, NEW wNet, NEW certificate, NEW signatures, NEW entries, NEW f,
           f = [domain |-> domain, currency |-> currency, wNet |-> wNet,
                certificate |-> certificate, signatures |-> signatures, entries |-> entries],
           CertificateHeld(certificate), SignaturesHeld(signatures), EntriesHeld(entries),
           \A i \in DOMAIN CheckedLoop : entries[i].kind = "full" => MyDebt(i)
    PROVE  FileHeld(f)
<1>1. /\ f.domain = domain /\ f.currency = currency /\ f.wNet = wNet
      /\ f.certificate = certificate /\ f.signatures = signatures /\ f.entries = entries
  OBVIOUS
<1>. QED
  BY <1>1, Zenon DEF FileHeld

\* One entry of a certificate is replaced.
LEMMA AlteredEntry ==
    ASSUME NEW certificate, NEW other, NEW k, NEW entry, CertificateHeld(certificate),
           k \in DOMAIN CheckedLoop, MyDebt(k) => EntryHeld(entry, k),
           other.entries = [certificate.entries EXCEPT ![k] = entry]
    PROVE  CertificateHeld(other)
BY DEF CertificateHeld

\* What is held of a certificate is about its entries only.
LEMMA SameCertificate ==
    ASSUME NEW certificate, NEW other, other.entries = certificate.entries,
           CertificateHeld(certificate)
    PROVE  CertificateHeld(other)
BY DEF CertificateHeld

\* The certificate is altered in one field.
LEMMA AlteredCertificate ==
    ASSUME NEW v, NEW c, NEW f,
           v = [domain |-> v.domain, currency |-> v.currency, wNet |-> v.wNet,
                certificate |-> c, signatures |-> v.signatures, entries |-> v.entries],
           c = [certificateId |-> c.certificateId, deadline |-> c.deadline,
                entries |-> c.entries, contentHash |-> c.contentHash],
           1 \in DOMAIN c.entries, Checks!Other \in DOMAIN c.entries,
           ~ MyDebt(Checks!Other), DOMAIN c.entries = DOMAIN CheckedLoop,
           CertificateHeld(c), SignaturesHeld(v.signatures), EntriesHeld(v.entries),
           \A i \in DOMAIN CheckedLoop : v.entries[i].kind = "full" => MyDebt(i), MyDebt(1),
           NEW x,
           \/ f = [v EXCEPT !.certificate.certificateId = x]
           \/ f = [v EXCEPT !.certificate.deadline = x]
           \/ f = [v EXCEPT !.certificate.entries[1].nextCommitment = x]
           \/ f = [v EXCEPT !.certificate.entries[1].creditor = x] /\ x = Me
           \/ f = [v EXCEPT !.certificate.entries[1].obligationId = x]
           \/ f = [v EXCEPT !.certificate.entries[Checks!Other].priorCommitment = x]
    PROVE  FileHeld(f)
<1>. DEFINE e == c.entries[1]
            With(d) == [domain |-> v.domain, currency |-> v.currency, wNet |-> v.wNet,
                        certificate |-> d, signatures |-> v.signatures, entries |-> v.entries]
<1>1. ASSUME NEW d, CertificateHeld(d)
      PROVE  FileHeld(With(d))
  BY <1>1, AlteredFile
<1>2. EntryHeld(e, 1)
  BY DEF CertificateHeld
<1>3. CASE f = [v EXCEPT !.certificate.certificateId = x]
  <2>1. f = With([certificateId |-> x, deadline |-> c.deadline, entries |-> c.entries,
                  contentHash |-> c.contentHash])
    BY <1>3
  <2>. HIDE DEF With
  <2>. QED
    BY <1>1, <2>1, SameCertificate
<1>4. CASE f = [v EXCEPT !.certificate.deadline = x]
  <2>1. f = With([certificateId |-> c.certificateId, deadline |-> x, entries |-> c.entries,
                  contentHash |-> c.contentHash])
    BY <1>4
  <2>. HIDE DEF With
  <2>. QED
    BY <1>1, <2>1, SameCertificate
<1>5. ASSUME NEW k \in DOMAIN c.entries, NEW entry, MyDebt(k) => EntryHeld(entry, k),
             f = [v EXCEPT !.certificate.entries[k] = entry]
      PROVE  FileHeld(f)
  <2>. DEFINE edges == [c.entries EXCEPT ![k] = entry]
              other == [certificateId |-> c.certificateId, deadline |-> c.deadline,
                        entries |-> edges, contentHash |-> c.contentHash]
  <2>1. f = With(other)
    BY <1>5
  <2>. HIDE DEF With
  <2>2. other.entries = edges
    OBVIOUS
  <2>. HIDE DEF other
  <2>3. CertificateHeld(other)
    BY <1>5, <2>2, AlteredEntry
  <2>. QED
    BY <1>1, <2>1, <2>3
<1>6. CASE f = [v EXCEPT !.certificate.entries[1].nextCommitment = x]
  <2>1. f = [v EXCEPT !.certificate.entries[1] = [e EXCEPT !.nextCommitment = x]]
    BY <1>6
  <2>2. EntryHeld([e EXCEPT !.nextCommitment = x], 1)
    BY <1>2 DEF EntryHeld, Checks!Involves
  <2>. QED
    BY <1>5, <2>1, <2>2
<1>7. CASE f = [v EXCEPT !.certificate.entries[1].creditor = x] /\ x = Me
  <2>1. f = [v EXCEPT !.certificate.entries[1] = [e EXCEPT !.creditor = x]]
    BY <1>7
  <2>2. EntryHeld([e EXCEPT !.creditor = x], 1)
    BY <1>2, <1>7 DEF EntryHeld, Checks!Involves
  <2>. QED
    BY <1>5, <2>1, <2>2
<1>8. CASE f = [v EXCEPT !.certificate.entries[1].obligationId = x]
  <2>1. f = [v EXCEPT !.certificate.entries[1] = [e EXCEPT !.obligationId = x]]
    BY <1>8
  <2>2. EntryHeld([e EXCEPT !.obligationId = x], 1)
    BY <1>2 DEF EntryHeld, Checks!Involves
  <2>. QED
    BY <1>5, <2>1, <2>2
<1>9. CASE f = [v EXCEPT !.certificate.entries[Checks!Other].priorCommitment = x]
  <2>1. f = [v EXCEPT !.certificate.entries[Checks!Other] =
                [c.entries[Checks!Other] EXCEPT !.priorCommitment = x]]
    BY <1>9
  <2>. QED
    BY <1>5, <2>1
<1>. QED
  BY <1>3, <1>4, <1>6, <1>7, <1>8, <1>9

\* What is shown, or signed, is altered.
LEMMA AlteredRest ==
    ASSUME NEW v, NEW f,
           v = [domain |-> v.domain, currency |-> v.currency, wNet |-> v.wNet,
                certificate |-> v.certificate, signatures |-> v.signatures, entries |-> v.entries],
           CertificateHeld(v.certificate), SignaturesHeld(v.signatures), EntriesHeld(v.entries),
           \A i \in DOMAIN CheckedLoop : v.entries[i].kind = "full" => MyDebt(i),
           1 \in DOMAIN CheckedLoop, MyDebt(1),
           v.signatures = [i \in 1 .. Len(CheckedLoop) |-> SignatureOf(i)],
           NEW x,
           \/ f = [v EXCEPT !.wNet = x] \/ f = [v EXCEPT !.currency = x] \/ f = [v EXCEPT !.domain = x]
           \/ f = [v EXCEPT !.signatures = Tail(@)]
           \/ f = [v EXCEPT !.signatures[1] = Checks!NoSignature]
           \/ \E k \in DOMAIN CheckedLoop : f = [v EXCEPT !.entries[k] = x] /\ x.kind = "hash"
           \/ f = [v EXCEPT !.entries[1] = x] /\ x.kind = "full"
              /\ x.document.debtorSignature = DocumentOf(1).debtorSignature
    PROVE  FileHeld(f)
<1>1. CASE f = [v EXCEPT !.wNet = x] \/ f = [v EXCEPT !.currency = x] \/ f = [v EXCEPT !.domain = x]
  <2>1. PICK domain, currency, wNet :
           f = [domain |-> domain, currency |-> currency, wNet |-> wNet,
                certificate |-> v.certificate, signatures |-> v.signatures, entries |-> v.entries]
    BY <1>1
  <2>. QED
    BY <2>1, AlteredFile
<1>2. ASSUME NEW signatures, SignaturesHeld(signatures), f = [v EXCEPT !.signatures = signatures]
      PROVE  FileHeld(f)
  <2>1. f = [domain |-> v.domain, currency |-> v.currency, wNet |-> v.wNet,
             certificate |-> v.certificate, signatures |-> signatures, entries |-> v.entries]
    BY <1>2
  <2>. QED
    BY <1>2, <2>1, AlteredFile
<1>3. CASE f = [v EXCEPT !.signatures = Tail(@)]
  <2>. DEFINE s == v.signatures  S == {SignatureOf(i) : i \in 1 .. Len(CheckedLoop)}
  <2>1. PICK n \in Nat : n = Len(CheckedLoop) /\ 2 < n
    BY LoopFacts
  <2>2. s = [i \in 1 .. n |-> SignatureOf(i)] /\ s \in Seq(S) /\ Len(s) = n
    BY <2>1
  <2>3. /\ Len(Tail(s)) = n - 1 /\ DOMAIN Tail(s) = 1 .. (n - 1)
        /\ \A i \in 1 .. (n - 1) : Tail(s)[i] = s[i + 1]
    BY <2>1, <2>2
  <2>. HIDE DEF s, S
  <2>4. 1 \in 1 .. (n - 1) /\ \A i \in 1 .. (n - 1) : i + 1 \in 1 .. n
    BY <2>1
  <2>5. DOMAIN s = 1 .. n
    BY <2>2
  <2>6. \A i \in 1 .. n :
           s[i] # Checks!NoSignature => s[i].of = Checks!certificateDigest(Checks!Built)
    BY <2>5 DEF SignaturesHeld, s
  <2>8. SignaturesHeld(Tail(s))
    <3>1. \A i \in 1 .. (n - 1) :
             Tail(s)[i] # Checks!NoSignature => Tail(s)[i].of = Checks!certificateDigest(Checks!Built)
      BY <2>3, <2>4, <2>6
    <3>. QED
      BY <2>3, <2>4, <3>1, Zenon DEF SignaturesHeld
  <2>7. f = [v EXCEPT !.signatures = Tail(s)]
    BY <1>3 DEF s
  <2>. QED
    BY <1>2, <2>7, <2>8
<1>4. CASE f = [v EXCEPT !.signatures[1] = Checks!NoSignature]
  <2>. DEFINE s == [v.signatures EXCEPT ![1] = Checks!NoSignature]
  <2>1. f = [v EXCEPT !.signatures = s]
    BY <1>4
  <2>2. SignaturesHeld(s)
    BY DEF SignaturesHeld
  <2>. QED
    BY <1>2, <2>1, <2>2
<1>5. ASSUME NEW k \in DOMAIN CheckedLoop, f = [v EXCEPT !.entries[k] = x],
             ShownHeld(x, k), x.kind = "full" => MyDebt(k)
      PROVE  FileHeld(f)
  <2>0. PICK others : others = [v.entries EXCEPT ![k] = x]
    OBVIOUS
  <2>1. f = [domain |-> v.domain, currency |-> v.currency, wNet |-> v.wNet,
             certificate |-> v.certificate, signatures |-> v.signatures, entries |-> others]
    BY <1>5, <2>0
  <2>2. EntriesHeld(others) /\ \A i \in DOMAIN CheckedLoop : others[i].kind = "full" => MyDebt(i)
    BY <1>5, <2>0 DEF EntriesHeld
  <2>. QED
    BY <2>1, <2>2, AlteredFile
<1>6. CASE \E k \in DOMAIN CheckedLoop : f = [v EXCEPT !.entries[k] = x] /\ x.kind = "hash"
  BY <1>5, <1>6 DEF ShownHeld
<1>7. CASE f = [v EXCEPT !.entries[1] = x] /\ x.kind = "full"
           /\ x.document.debtorSignature = DocumentOf(1).debtorSignature
  BY <1>5, <1>7 DEF ShownHeld
<1>. QED
  BY <1>1, <1>3, <1>4, <1>6, <1>7

\* Every alteration of the copy is still held.
LEMMA AlterationsHeld ==
    ASSUME NEW f \in Checks!Alterations(Copy)
    PROVE  FileHeld(f)
<1>. DEFINE c == Copy.certificate
<1>1. /\ Copy = [domain |-> Copy.domain, currency |-> Copy.currency, wNet |-> Copy.wNet,
                 certificate |-> Copy.certificate, signatures |-> Copy.signatures,
                 entries |-> Copy.entries]
      /\ CertificateHeld(c) /\ SignaturesHeld(Copy.signatures) /\ EntriesHeld(Copy.entries)
      /\ \A i \in DOMAIN CheckedLoop : Copy.entries[i].kind = "full" => MyDebt(i)
      /\ Copy.entries[1] = [kind |-> "full", document |-> DocumentOf(1)]
      /\ Copy.signatures = [i \in 1 .. Len(CheckedLoop) |-> SignatureOf(i)]
      /\ c = Checks!Built.certificate
  BY CopyParts, LoopFacts DEF FileHeld, ViewOf
<1>2. /\ c = [certificateId |-> c.certificateId, deadline |-> c.deadline,
              entries |-> c.entries, contentHash |-> c.contentHash]
      /\ DOMAIN c.entries = DOMAIN CheckedLoop
  BY <1>1, BuiltEntries
<1>3. /\ 1 \in DOMAIN CheckedLoop /\ MyDebt(1)
      /\ Checks!Other \in DOMAIN CheckedLoop /\ ~ MyDebt(Checks!Other)
  BY LoopFacts, OwnTwo
<1>. HIDE DEF c
<1>4. \/ \E x : \/ f = [Copy EXCEPT !.wNet = x] \/ f = [Copy EXCEPT !.currency = x]
                \/ f = [Copy EXCEPT !.domain = x]
      \/ \E x : \/ f = [Copy EXCEPT !.certificate.certificateId = x]
                \/ f = [Copy EXCEPT !.certificate.deadline = x]
                \/ f = [Copy EXCEPT !.certificate.entries[1].nextCommitment = x]
                \/ f = [Copy EXCEPT !.certificate.entries[1].creditor = x] /\ x = Me
                \/ f = [Copy EXCEPT !.certificate.entries[1].obligationId = x]
                \/ f = [Copy EXCEPT !.certificate.entries[Checks!Other].priorCommitment = x]
      \/ f = [Copy EXCEPT !.signatures = Tail(@)]
      \/ f = [Copy EXCEPT !.signatures[1] = Checks!NoSignature]
      \/ f = [Copy EXCEPT !.entries[Checks!Other] = [kind |-> "hash", entryHash |-> <<>>]]
      \/ f = [Copy EXCEPT !.entries[1] =
                 [kind |-> "hash", entryHash |-> Checks!viewEntryHash(@, Checks!ThisLedger)]]
      \/ \E d : /\ f = [Copy EXCEPT !.entries[1].document = d]
                /\ \E doc : /\ doc = Copy.entries[1].document
                            /\ \/ d = [doc EXCEPT !.remainingBefore = @ + 1]
                               \/ d = [doc EXCEPT !.remainingAfter = @ + 1]
                               \/ d = [doc EXCEPT !.blindingAfter = Checks!ZeroBlinding]
                               \/ d = [doc EXCEPT !.blindingBefore = 9]
                               \/ d = [doc EXCEPT !.obligation.amount = @ + 1]
                               \/ d = [doc EXCEPT !.obligation.maturity = 1]
                               \/ d = [doc EXCEPT !.creditorSignature = Checks!NoSignature]
  BY Zenon DEF Checks!Alterations
<1>5. CASE \E x : \/ f = [Copy EXCEPT !.wNet = x] \/ f = [Copy EXCEPT !.currency = x]
                  \/ f = [Copy EXCEPT !.domain = x]
  BY <1>1, <1>3, <1>5, AlteredRest DEF c
<1>6. CASE \E x : \/ f = [Copy EXCEPT !.certificate.certificateId = x]
                  \/ f = [Copy EXCEPT !.certificate.deadline = x]
                  \/ f = [Copy EXCEPT !.certificate.entries[1].nextCommitment = x]
                  \/ f = [Copy EXCEPT !.certificate.entries[1].creditor = x] /\ x = Me
                  \/ f = [Copy EXCEPT !.certificate.entries[1].obligationId = x]
                  \/ f = [Copy EXCEPT !.certificate.entries[Checks!Other].priorCommitment = x]
  <2>1. Copy = [domain |-> Copy.domain, currency |-> Copy.currency, wNet |-> Copy.wNet,
                certificate |-> c, signatures |-> Copy.signatures, entries |-> Copy.entries]
    BY <1>1, Zenon DEF c
  <2>2. 1 \in DOMAIN c.entries /\ Checks!Other \in DOMAIN c.entries
    BY <1>2, <1>3
  <2>. QED
    BY <1>1, <1>2, <1>3, <1>6, <2>1, <2>2, AlteredCertificate
<1>7. CASE f = [Copy EXCEPT !.signatures = Tail(@)] \/ f = [Copy EXCEPT !.signatures[1] = Checks!NoSignature]
  BY <1>1, <1>3, <1>7, AlteredRest DEF c
<1>8. CASE f = [Copy EXCEPT !.entries[Checks!Other] = [kind |-> "hash", entryHash |-> <<>>]]
  <2>1. PICK x : x = [kind |-> "hash", entryHash |-> <<>>]
    OBVIOUS
  <2>2. x.kind = "hash" /\ f = [Copy EXCEPT !.entries[Checks!Other] = x]
    BY <1>8, <2>1
  <2>. QED
    BY <1>1, <1>3, <2>2, AlteredRest DEF c
<1>9. CASE f = [Copy EXCEPT !.entries[1] =
                   [kind |-> "hash", entryHash |-> Checks!viewEntryHash(@, Checks!ThisLedger)]]
  <2>1. PICK x : x = [kind |-> "hash",
                      entryHash |-> Checks!viewEntryHash(Copy.entries[1], Checks!ThisLedger)]
    OBVIOUS
  <2>2. x.kind = "hash" /\ f = [Copy EXCEPT !.entries[1] = x]
    BY <1>9, <2>1
  <2>. QED
    BY <1>1, <1>3, <2>2, AlteredRest DEF c
<1>10. ASSUME NEW d, f = [Copy EXCEPT !.entries[1].document = d],
              d.debtorSignature = DocumentOf(1).debtorSignature
       PROVE  FileHeld(f)
  <2>1. PICK x : x = [kind |-> "full", document |-> d]
    OBVIOUS
  <2>2. [Copy.entries[1] EXCEPT !.document = d] = x
    <3>1. PICK doc : doc = DocumentOf(1)
      OBVIOUS
    <3>2. Copy.entries[1] = [kind |-> "full", document |-> doc]
      BY <1>1, <3>1, Zenon
    <3>. QED
      BY <2>1, <3>2
  <2>3. f = [Copy EXCEPT !.entries[1] = [Copy.entries[1] EXCEPT !.document = d]]
    BY <1>10
  <2>4. f = [Copy EXCEPT !.entries[1] = x]
    BY <2>2, <2>3, Zenon
  <2>5. x.kind = "full" /\ x.document = d
    BY <2>1
  <2>6. x.document.debtorSignature = DocumentOf(1).debtorSignature
    BY <1>10, <2>5, Zenon
  <2>. QED
    BY <1>1, <1>3, <2>4, <2>5, <2>6, AlteredRest DEF c
<1>11. ASSUME NEW d, NEW doc, doc = Copy.entries[1].document,
              \/ d = [doc EXCEPT !.remainingBefore = @ + 1]
              \/ d = [doc EXCEPT !.remainingAfter = @ + 1]
              \/ d = [doc EXCEPT !.blindingAfter = Checks!ZeroBlinding]
              \/ d = [doc EXCEPT !.blindingBefore = 9]
              \/ d = [doc EXCEPT !.obligation.amount = @ + 1]
              \/ d = [doc EXCEPT !.obligation.maturity = 1]
              \/ d = [doc EXCEPT !.creditorSignature = Checks!NoSignature]
       PROVE  d.debtorSignature = DocumentOf(1).debtorSignature
  <2>1. doc = DocumentOf(1)
    BY <1>1, <1>11
  <2>2. doc = [obligation |-> doc.obligation, debtorSignature |-> doc.debtorSignature,
               creditorSignature |-> doc.creditorSignature,
               remainingBefore |-> doc.remainingBefore, blindingBefore |-> doc.blindingBefore,
               remainingAfter |-> doc.remainingAfter, blindingAfter |-> doc.blindingAfter]
    BY <2>1, DocumentParts DEF DocumentOf
  <2>. QED
    BY <1>11, <2>1, <2>2
<1>12. CASE \E d : /\ f = [Copy EXCEPT !.entries[1].document = d]
                   /\ \E doc : /\ doc = Copy.entries[1].document
                               /\ \/ d = [doc EXCEPT !.remainingBefore = @ + 1]
                                  \/ d = [doc EXCEPT !.remainingAfter = @ + 1]
                                  \/ d = [doc EXCEPT !.blindingAfter = Checks!ZeroBlinding]
                                  \/ d = [doc EXCEPT !.blindingBefore = 9]
                                  \/ d = [doc EXCEPT !.obligation.amount = @ + 1]
                                  \/ d = [doc EXCEPT !.obligation.maturity = 1]
                                  \/ d = [doc EXCEPT !.creditorSignature = Checks!NoSignature]
  BY <1>10, <1>11, <1>12, Zenon
<1>. QED
  BY <1>4, <1>5, <1>6, <1>7, <1>8, <1>9, <1>12, Zenon

\* So is a certificate of other amounts under these signatures.
LEMMA RebuiltHeld ==
    ASSUME NEW f \in Checks!Rebuilt
    PROVE  FileHeld(f)
<1>1. PICK l, n :
         /\ f = [Checks!viewForParty(Checks!buildCertificate(l, n, Checks!Currency), Me)
                   EXCEPT !.signatures = Checks!withSignatures(Checks!Built).signatures]
         /\ \/ l = CheckedLoop
            \/ l = [CheckedLoop EXCEPT ![1].blinding = 9]
  BY Zenon DEF Checks!Rebuilt
<1>2. /\ DOMAIN l = DOMAIN CheckedLoop
      /\ \A i \in DOMAIN CheckedLoop :
            /\ l[i].obligation = CheckedLoop[i].obligation
            /\ l[i].remaining = CheckedLoop[i].remaining
            /\ l[i].blinding = CheckedLoop[i].blinding \/ l[i].blinding = 9
  BY <1>1, LoopFacts DEF Checks!Item
<1>3. PICK made : made = Checks!buildCertificate(l, n, Checks!Currency)
  OBVIOUS
<1>4. PICK v : v = Checks!viewForParty(made, Me)
  OBVIOUS
<1>5. ViewOf(v, made) /\ OwnShown(v, made)
  BY <1>2, <1>3, <1>4, ViewHeld
<1>6. Checks!withSignatures(Checks!Built).signatures = [i \in DOMAIN CheckedLoop |-> SignatureOf(i)]
  BY GenuineHeld DEF Checks!Genuine
<1>7. /\ ViewOf(f, made) /\ f.signatures = [i \in DOMAIN CheckedLoop |-> SignatureOf(i)]
      /\ f.entries = v.entries
  <2>1. PICK s : s = Checks!withSignatures(Checks!Built).signatures
    OBVIOUS
  <2>2. f = [v EXCEPT !.signatures = s]
    BY <1>1, <1>3, <1>4, <2>1, Zenon
  <2>3. f = [domain |-> v.domain, currency |-> v.currency, wNet |-> v.wNet,
             certificate |-> v.certificate, signatures |-> s, entries |-> v.entries]
    BY <1>5, <2>2 DEF ViewOf
  <2>4. /\ f.domain = v.domain /\ f.currency = v.currency /\ f.wNet = v.wNet
        /\ f.certificate = v.certificate /\ f.signatures = s /\ f.entries = v.entries
    BY <2>3
  <2>5. ViewOf(f, made)
    BY <1>5, <2>3, <2>4, Zenon DEF ViewOf
  <2>. QED
    BY <1>6, <2>1, <2>4, <2>5, Zenon
<1>8. MadeOf(made, l, n, Checks!Currency)
  BY <1>3, BuiltParts
<1>9. DOMAIN made.certificate.entries = DOMAIN CheckedLoop
  BY <1>2, <1>8 DEF MadeOf
<1>10. ASSUME NEW i \in DOMAIN CheckedLoop
       PROVE  /\ MyDebt(i) => EntryHeld(made.certificate.entries[i], i)
              /\ ~ MyDebt(i) => ~ Checks!Involves(made.certificate.entries[i], Me)
              /\ made.entries[i].document.debtorSignature = DocumentOf(i).debtorSignature
  <2>1. PICK doc : doc = Checks!Document(l[i], n, 10 + i)
    OBVIOUS
  <2>2. PICK entry : entry = Checks!EntryOf(doc)
    OBVIOUS
  <2>3. PICK id : id = Checks!obligationId(l[i].obligation, Checks!ThisLedger)
    OBVIOUS
  <2>4. made.certificate.entries[i] = entry /\ made.entries[i] = [kind |-> "full", document |-> doc]
    BY <1>2, <1>8, <2>1, <2>2, Zenon DEF MadeOf
  <2>5. /\ doc.debtorSignature = Checks!Signature(l[i].obligation.debtor, id)
        /\ entry.debtor = l[i].obligation.debtor /\ entry.creditor = l[i].obligation.creditor
        /\ entry.priorCommitment = Checks!priorCommitmentOf(id, l[i].remaining, l[i].blinding)
    BY <2>1, <2>2, <2>3, DocumentParts
  <2>6. /\ DocumentOf(i).debtorSignature = Checks!Signature(CheckedLoop[i].obligation.debtor, id)
        /\ PriorOf(i) = Checks!priorCommitmentOf(id, CheckedLoop[i].remaining, CheckedLoop[i].blinding)
        /\ MyDebt(i) <=> Checks!Involves(CheckedLoop[i].obligation, Me)
    <3>1. PICK own : own = DocumentOf(i)
      OBVIOUS
    <3>2. own.debtorSignature = Checks!Signature(CheckedLoop[i].obligation.debtor, id)
      BY <1>2, <2>3, <3>1, DocumentParts DEF DocumentOf
    <3>. QED
      BY <1>2, <2>3, <3>1, <3>2, OwnEntries
  <2>7. entry.priorCommitment \in {PriorOf(i), BlindedPrior(i)}
    <3>1. CASE l[i].blinding = CheckedLoop[i].blinding
      BY <1>2, <2>5, <2>6, <3>1
    <3>2. CASE l[i].blinding = 9
      BY <1>2, <2>3, <2>5, <3>2 DEF BlindedPrior, Checks!priorCommitmentOf, Checks!ZeroBlinding
    <3>. QED
      BY <1>2, <3>1, <3>2
  <2>8. entry = [obligationId |-> entry.obligationId, debtor |-> entry.debtor,
                 creditor |-> entry.creditor, priorCommitment |-> entry.priorCommitment,
                 nextCommitment |-> entry.nextCommitment]
    BY <2>2, EntryFields
  <2>9. Checks!Involves(entry, Me) <=> MyDebt(i)
    BY <1>2, <2>5, <2>6 DEF Checks!Involves
  <2>10. MyDebt(i) => EntryHeld(entry, i)
    BY <2>7, <2>8, <2>9, Zenon DEF EntryHeld
  <2>11. made.entries[i].document = doc
    BY <2>4
  <2>12. doc.debtorSignature = DocumentOf(i).debtorSignature
    BY <1>2, <2>5, <2>6
  <2>13. /\ MyDebt(i) => EntryHeld(made.certificate.entries[i], i)
         /\ ~ MyDebt(i) => ~ Checks!Involves(made.certificate.entries[i], Me)
    <3>1. made.certificate.entries[i] = entry
      BY <2>4
    <3>. QED
      BY <2>9, <2>10, <3>1, Zenon
  <2>14. made.entries[i].document.debtorSignature = DocumentOf(i).debtorSignature
    BY <2>11, <2>12, Zenon
  <2>. QED
    BY <2>13, <2>14, Zenon
<1>11. \A i \in DOMAIN CheckedLoop : f.entries[i].kind = "full" => MyDebt(i)
  BY <1>5, <1>7, <1>10 DEF OwnShown, EntryHeld
<1>. QED
  BY <1>7, <1>9, <1>10, <1>11, CopyHeld

\* Every file there is.
LEMMA FilesHeld ==
    ASSUME NEW f \in Checks!Files
    PROVE  FileHeld(f)
<1>1. CASE f \in Checks!Genuine
  BY <1>1, BuiltHeld, GenuineHeld, CopyHeld
<1>2. CASE f \in Checks!Alterations(Checks!withSignatures(Checks!Mine))
  BY <1>2, AlterationsHeld DEF Copy
<1>3. CASE f \in Checks!Rebuilt
  BY <1>3, RebuiltHeld
<1>. QED
  BY <1>1, <1>2, <1>3 DEF Checks!Files

-----------------------------------------------------------------------------
\* What passes the contents.
LEMMA ChecksPass ==
    /\ \A good \in BOOLEAN : Checks!Unless(good) = {} <=> good
    /\ \A signer, digest, signature, node :
          Checks!checkSignature(signer, digest, signature, node) = {}
             => signature = Checks!Signature(signer, digest)
    /\ \A statuses : Checks!combineStatuses(statuses) = {} => statuses = {}
<1>1. \A good \in BOOLEAN : Checks!Unless(good) = {} <=> good
  BY DEF Checks!Unless
<1>2. ASSUME NEW signer, NEW digest, NEW signature, NEW node,
             Checks!checkSignature(signer, digest, signature, node) = {}
      PROVE  signature = Checks!Signature(signer, digest)
  <2>. DEFINE right == signature = Checks!Signature(signer, digest)
              plain == signer \notin SmartAccounts
  <2>1. ASSUME ~ right
        PROVE  FALSE
    <3>1. (CASE right /\ plain -> {}
             [] ~ (right /\ plain) /\ node = Checks!NoClient -> {"unverifiable"}
             [] OTHER -> Checks!Unless(right /\ node = "answers")) = {}
      BY <1>2, Zenon DEF Checks!checkSignature
    <3>2. right \in BOOLEAN /\ plain \in BOOLEAN
      OBVIOUS
    <3>. HIDE DEF right, plain
    <3>. QED
      BY <2>1, <3>1, <3>2 DEF Checks!Unless
  <2>. QED
    BY <2>1
<1>3. \A statuses : Checks!combineStatuses(statuses) = {} => statuses = {}
  BY DEF Checks!combineStatuses
<1>. QED
  BY <1>1, <1>2, <1>3

\* A full entry that passes: what it shows is the debt the party knows, and its
\* entry of the certificate is made of it.
EntryPassed(v, i) ==
    LET doc == v.entries[i].document IN
    /\ doc.obligation = CheckedLoop[i].obligation
    /\ doc.blindingBefore = Checks!ZeroBlinding => doc.remainingBefore = doc.obligation.amount
    /\ doc.remainingAfter = doc.remainingBefore - v.wNet
    /\ v.certificate.entries[i] = Checks!EntryOf(doc)

\* checkFullEntry passes only such an entry: the debtor's signature binds the
\* terms, and the entry's commitments bind the amounts.
LEMMA EntryPasses ==
    ASSUME NEW f, FileHeld(f), NEW v, v.entries = f.entries, v.certificate = f.certificate,
           NEW i \in Checks!FullIn(v), NEW node,
           Checks!checkFullEntry(v, v.certificate.entries[i], v.entries[i].document, node) = {}
    PROVE  EntryPassed(v, i)
<1>1. PICK doc : doc = v.entries[i].document
  OBVIOUS
<1>2. PICK entry : entry = v.certificate.entries[i]
  OBVIOUS
<1>4. i \in DOMAIN CheckedLoop /\ v.entries[i].kind = "full"
  BY DEF Checks!FullIn, FileHeld, EntriesHeld
<1>. DEFINE id == Checks!obligationId(doc.obligation, v.domain)
            sides == /\ doc.obligation.debtor = entry.debtor
                     /\ doc.obligation.creditor = entry.creditor
            prior == /\ doc.remainingBefore <= doc.obligation.amount
                     /\ doc.blindingBefore = Checks!ZeroBlinding
                          => doc.remainingBefore = doc.obligation.amount
                     /\ Checks!priorCommitmentOf(id, doc.remainingBefore, doc.blindingBefore)
                          = entry.priorCommitment
            next == /\ doc.blindingAfter # Checks!ZeroBlinding
                    /\ Checks!commitment(id, doc.remainingAfter, doc.blindingAfter)
                         = entry.nextCommitment
            net == /\ v.wNet \in 1 .. doc.remainingBefore
                   /\ doc.remainingAfter = doc.remainingBefore - v.wNet
<1>5. /\ Checks!Unless(id = entry.obligationId) = {}
      /\ Checks!Unless(sides) = {}
      /\ Checks!combineStatuses(
            Checks!checkSignature(doc.obligation.debtor, id, doc.debtorSignature, node)
            \cup Checks!checkSignature(doc.obligation.creditor, id, doc.creditorSignature, node)) = {}
      /\ Checks!Unless(prior) = {} /\ Checks!Unless(next) = {} /\ Checks!Unless(net) = {}
  <2>1. Checks!checkFullEntry(v, entry, doc, node) = {}
    BY <1>1, <1>2
  <2>. DEFINE signed == Checks!combineStatuses(
                Checks!checkSignature(doc.obligation.debtor, id, doc.debtorSignature, node)
                \cup Checks!checkSignature(doc.obligation.creditor, id, doc.creditorSignature, node))
  <2>2. Checks!Unless(id = entry.obligationId) \cup Checks!Unless(sides) \cup signed
        \cup Checks!Unless(doc.obligation.currency = v.currency) \cup Checks!Unless(prior)
        \cup Checks!Unless(next) \cup Checks!Unless(Checks!Due(doc.obligation)) \cup Checks!Unless(net)
        = {}
    BY <2>1, Zenon DEF Checks!checkFullEntry
  <2>3. \A a, b, c, d, e, g, h, k :
           a \cup b \cup c \cup d \cup e \cup g \cup h \cup k = {}
              => a = {} /\ b = {} /\ c = {} /\ e = {} /\ g = {} /\ k = {}
    OBVIOUS
  <2>. HIDE DEF sides, prior, next, net, signed
  <2>4. /\ Checks!Unless(id = entry.obligationId) = {} /\ Checks!Unless(sides) = {} /\ signed = {}
        /\ Checks!Unless(prior) = {} /\ Checks!Unless(next) = {} /\ Checks!Unless(net) = {}
    BY <2>2, <2>3, Zenon
  <2>. QED
    BY <2>4 DEF signed
<1>6. id = entry.obligationId /\ sides /\ prior /\ next /\ net
  <2>1. /\ (id = entry.obligationId) \in BOOLEAN /\ sides \in BOOLEAN /\ prior \in BOOLEAN
        /\ next \in BOOLEAN /\ net \in BOOLEAN
    OBVIOUS
  <2>. HIDE DEF sides, prior, next, net
  <2>. QED
    BY <1>5, <2>1, ChecksPass, Zenon
<1>7. doc.debtorSignature = Checks!Signature(doc.obligation.debtor, id)
  <2>1. Checks!checkSignature(doc.obligation.debtor, id, doc.debtorSignature, node) = {}
    <3>1. (Checks!checkSignature(doc.obligation.debtor, id, doc.debtorSignature, node)
           \cup Checks!checkSignature(doc.obligation.creditor, id, doc.creditorSignature, node)) = {}
      BY <1>5, ChecksPass, Zenon
    <3>. QED
      BY <3>1
  <2>. QED
    BY <2>1, ChecksPass, Zenon
<1>8. doc.debtorSignature =
         Checks!Signature(CheckedLoop[i].obligation.debtor,
                          Checks!obligationId(CheckedLoop[i].obligation, Checks!ThisLedger))
  <2>1. PICK own : own = DocumentOf(i)
    OBVIOUS
  <2>2. own.debtorSignature =
           Checks!Signature(CheckedLoop[i].obligation.debtor,
                            Checks!obligationId(CheckedLoop[i].obligation, Checks!ThisLedger))
    BY <2>1, DocumentParts DEF DocumentOf
  <2>3. doc.debtorSignature = DocumentOf(i).debtorSignature
    BY <1>1, <1>4 DEF FileHeld, EntriesHeld, ShownHeld
  <2>. QED
    BY <2>1, <2>2, <2>3
<1>9. doc.obligation = CheckedLoop[i].obligation /\ v.domain = Checks!ThisLedger
  BY <1>7, <1>8 DEF Checks!Signature, Checks!obligationId
<1>10. entry = [obligationId |-> entry.obligationId, debtor |-> entry.debtor,
                creditor |-> entry.creditor, priorCommitment |-> entry.priorCommitment,
                nextCommitment |-> entry.nextCommitment]
  <2>1. CASE f.certificate = Checks!Built.certificate
    <3>1. entry = Checks!EntryOf(DocumentOf(i))
      BY <1>2, <1>4, <2>1, OwnEntries
    <3>. QED
      BY <3>1, EntryFields
  <2>2. CASE MyDebt(i)
    BY <1>2, <1>4, <2>2 DEF FileHeld, CertificateHeld, EntryHeld
  <2>. QED
    BY <1>4, <2>1, <2>2 DEF FileHeld
<1>11. entry = Checks!EntryOf(doc)
  BY <1>6, <1>9, <1>10 DEF Checks!EntryOf
<1>. QED
  BY <1>1, <1>2, <1>6, <1>9, <1>11 DEF EntryPassed

\* The document of a debt that starts where the party knows it to.
LEMMA EntryAgreed ==
    ASSUME NEW v, NEW i \in DOMAIN CheckedLoop, EntryPassed(v, i),
           v.certificate.entries[i].priorCommitment = PriorOf(i)
    PROVE  LET doc == v.entries[i].document IN
           /\ <<doc.obligation, doc.remainingBefore, doc.blindingBefore>>
                 = <<CheckedLoop[i].obligation, CheckedLoop[i].remaining, CheckedLoop[i].blinding>>
           /\ doc.remainingAfter = CheckedLoop[i].remaining - v.wNet
           /\ v.certificate.entries[i] = Checks!EntryOf(doc)
<1>1. PICK doc : doc = v.entries[i].document
  OBVIOUS
<1>2. PICK id : id = Checks!obligationId(CheckedLoop[i].obligation, Checks!ThisLedger)
  OBVIOUS
<1>3. /\ doc.obligation = CheckedLoop[i].obligation
      /\ doc.blindingBefore = 0 => doc.remainingBefore = doc.obligation.amount
      /\ doc.remainingAfter = doc.remainingBefore - v.wNet
      /\ v.certificate.entries[i] = Checks!EntryOf(doc)
  BY <1>1 DEF EntryPassed, Checks!ZeroBlinding
<1>4. Checks!priorCommitmentOf(id, doc.remainingBefore, doc.blindingBefore) =
         Checks!priorCommitmentOf(id, CheckedLoop[i].remaining, CheckedLoop[i].blinding)
  <2>1. v.certificate.entries[i].priorCommitment =
           Checks!priorCommitmentOf(id, doc.remainingBefore, doc.blindingBefore)
    BY <1>2, <1>3 DEF Checks!EntryOf
  <2>. QED
    BY <1>2, <2>1, OwnEntries
<1>5. /\ CheckedLoop[i].blinding = 0 => CheckedLoop[i].remaining = CheckedLoop[i].obligation.amount
  BY LoopFacts
<1>6. doc.remainingBefore = CheckedLoop[i].remaining /\ doc.blindingBefore = CheckedLoop[i].blinding
  BY <1>3, <1>4, <1>5
     DEF Checks!priorCommitmentOf, Checks!commitment, Checks!ZeroHash, Checks!ZeroBlinding
<1>. QED
  BY <1>1, <1>3, <1>6

\* What is checked: the file, or the file without the signatures.
LEMMA SeenParts ==
    ASSUME NEW f, FileHeld(f), NEW v, NEW signed \in BOOLEAN,
           v = IF signed THEN f ELSE Checks!Unsigned(f)
    PROVE  /\ v.domain = f.domain /\ v.currency = f.currency /\ v.wNet = f.wNet
           /\ v.certificate = f.certificate /\ v.entries = f.entries
           /\ signed => v.signatures = f.signatures
           /\ ~ signed => v.signatures = [i \in DOMAIN f.signatures |-> Checks!NoSignature]
<1>1. CASE signed
  BY <1>1
<1>2. CASE ~ signed
  <2>. DEFINE none == [i \in DOMAIN f.signatures |-> Checks!NoSignature]
  <2>1. v = [f EXCEPT !.signatures = none]
    BY <1>2, Zenon DEF Checks!Unsigned
  <2>. HIDE DEF none
  <2>2. v = [domain |-> f.domain, currency |-> f.currency, wNet |-> f.wNet,
             certificate |-> f.certificate, signatures |-> none, entries |-> f.entries]
    BY <2>1 DEF FileHeld
  <2>3. /\ v.domain = f.domain /\ v.currency = f.currency /\ v.wNet = f.wNet
        /\ v.certificate = f.certificate /\ v.entries = f.entries /\ v.signatures = none
    BY <2>2
  <2>. QED
    BY <1>2, <2>3 DEF none
<1>. QED
  BY <1>1, <1>2

\* What has passed: every full entry, and past the proposal the signatures over
\* what was built, which leave nothing of it open.
Passed(v, reached, signed) ==
    /\ \A i \in Checks!FullIn(v) : EntryPassed(v, i)
    /\ reached # "proposed" =>
          /\ signed /\ v.certificate = Checks!Built.certificate
          /\ <<v.domain, v.currency, v.wNet>> = <<Checks!ThisLedger, Checks!Currency, CheckedNet>>

\* What follows for each check when nothing is found.
LEMMA ContentsAre ==
    ASSUME NEW v, NEW reached, NEW node, Checks!Contents(v, reached, node) = {}
    PROVE  /\ reached # "proposed" => Checks!CertificateSignatures(v, node) = {}
           /\ \A i \in Checks!FullIn(v) :
                 Checks!checkFullEntry(v, v.certificate.entries[i], v.entries[i].document, node) = {}
           /\ v.certificate.contentHash =
                 Checks!contentHash(v.currency, v.wNet,
                    [i \in DOMAIN v.entries |-> Checks!viewEntryHash(v.entries[i], v.domain)])
<1>. DEFINE digests == [i \in DOMAIN v.entries |-> Checks!viewEntryHash(v.entries[i], v.domain)]
            named == Checks!Unless(v.certificate.certificateId # 0)
            timely == Checks!Unless(reached = "applied" \/ ~ late)
            shaped == Checks!Unless(~ Checks!loopShapeProblem(v.certificate.entries))
            signatures == IF reached = "proposed" THEN {} ELSE Checks!CertificateSignatures(v, node)
            some == Checks!Unless(Checks!FullIn(v) # {})
            full == {Checks!checkFullEntry(v, v.certificate.entries[i],
                                           v.entries[i].document, node) :
                     i \in Checks!FullIn(v)}
            hashed == v.certificate.contentHash = Checks!contentHash(v.currency, v.wNet, digests)
<1>1. Checks!Contents(v, reached, node) =
         named \cup timely \cup shaped \cup signatures \cup some \cup (UNION full)
         \cup Checks!Unless(hashed)
  BY DEF Checks!Contents
<1>2. hashed \in BOOLEAN
  OBVIOUS
<1>. HIDE DEF named, timely, shaped, signatures, some, full, hashed
<1>3. signatures = {} /\ (UNION full) = {} /\ Checks!Unless(hashed) = {}
  BY <1>1
<1>4. hashed
  BY <1>2, <1>3, ChecksPass, Zenon
<1>. USE DEF signatures, full, hashed
<1>5. reached # "proposed" => Checks!CertificateSignatures(v, node) = {}
  BY <1>3
<1>6. ASSUME NEW i \in Checks!FullIn(v)
      PROVE  Checks!checkFullEntry(v, v.certificate.entries[i], v.entries[i].document, node) = {}
  BY <1>3
<1>. QED
  BY <1>4, <1>5, <1>6, Zenon

\* Contents that pass are Passed: past the proposal the first debtor's signature
\* binds the certificate, and its content hash the currency and wNet.
LEMMA ContentsPass ==
    ASSUME NEW f, FileHeld(f), NEW v, NEW signed \in BOOLEAN,
           v = IF signed THEN f ELSE Checks!Unsigned(f),
           NEW reached, NEW node, Checks!Contents(v, reached, node) = {}
    PROVE  Passed(v, reached, signed)
<1>1. /\ v.domain = f.domain /\ v.certificate = f.certificate /\ v.entries = f.entries
      /\ signed => v.signatures = f.signatures
      /\ ~ signed => v.signatures = [i \in DOMAIN f.signatures |-> Checks!NoSignature]
  BY SeenParts
<1>. DEFINE digests == [i \in DOMAIN v.entries |-> Checks!viewEntryHash(v.entries[i], v.domain)]
<1>2. /\ reached # "proposed" => Checks!CertificateSignatures(v, node) = {}
      /\ \A i \in Checks!FullIn(v) :
            Checks!checkFullEntry(v, v.certificate.entries[i], v.entries[i].document, node) = {}
      /\ v.certificate.contentHash = Checks!contentHash(v.currency, v.wNet, digests)
  BY ContentsAre
<1>3. ASSUME NEW i \in Checks!FullIn(v)
      PROVE  EntryPassed(v, i)
  <2>1. Checks!checkFullEntry(v, v.certificate.entries[i], v.entries[i].document, node) = {}
    BY <1>2
  <2>. QED
    BY <1>1, <2>1, EntryPasses
<1>4. ASSUME reached # "proposed"
      PROVE  /\ signed /\ v.certificate = Checks!Built.certificate
             /\ <<v.domain, v.currency, v.wNet>>
                   = <<Checks!ThisLedger, Checks!Currency, CheckedNet>>
  <2>1. 1 \in DOMAIN f.signatures
        /\ (f.signatures[1] # Checks!NoSignature
              => f.signatures[1].of = Checks!certificateDigest(Checks!Built))
    BY DEF FileHeld, SignaturesHeld
  <2>2. 1 \in DOMAIN v.signatures
    BY <1>1, <2>1
  <2>3. (IF v.signatures[1] = Checks!NoSignature THEN {"fail"}
         ELSE Checks!checkSignature(v.certificate.entries[1].debtor, Checks!certificateDigest(v),
                                    v.signatures[1], node)) = {}
    <3>1. Checks!CertificateSignatures(v, node) = {}
      BY <1>2, <1>4
    <3>. QED
      BY <2>2, <3>1 DEF Checks!CertificateSignatures
  <2>4. /\ v.signatures[1] # Checks!NoSignature
        /\ v.signatures[1] =
              Checks!Signature(v.certificate.entries[1].debtor, Checks!certificateDigest(v))
    <3>1. v.signatures[1] # Checks!NoSignature
      BY <2>3
    <3>. QED
      BY <2>3, <3>1, ChecksPass, Zenon
  <2>5. signed
    BY <1>1, <2>1, <2>4
  <2>6. Checks!certificateDigest(v) = Checks!certificateDigest(Checks!Built)
    BY <1>1, <2>1, <2>4, <2>5 DEF Checks!Signature
  <2>7. v.certificate = Checks!Built.certificate /\ v.domain = Checks!ThisLedger
    BY <2>6, BuiltEntries DEF Checks!certificateDigest
  <2>8. v.currency = Checks!Currency /\ v.wNet = CheckedNet
    <3>1. Checks!contentHash(v.currency, v.wNet, digests) =
             Checks!contentHash(Checks!Currency, CheckedNet, [i \in DOMAIN CheckedLoop |-> HashOf(i)])
      BY <1>2, <2>7, BuiltEntries, Zenon
    <3>. HIDE DEF digests
    <3>. QED
      BY <3>1 DEF Checks!contentHash
  <2>. QED
    BY <2>5, <2>7, <2>8
<1>. QED
  BY <1>3, <1>4, Zenon DEF Passed

-----------------------------------------------------------------------------
\* What is found of a certificate that was built.
LEMMA RightSignature ==
    ASSUME NEW signer, NEW digest, NEW node \in {"answers", Checks!NoClient}
    PROVE  LET found == Checks!checkSignature(signer, digest, Checks!Signature(signer, digest), node)
           IN  found \subseteq {"unverifiable"} /\ (node = "answers" => found = {})
<1>. DEFINE plain == signer \notin SmartAccounts
            found == Checks!checkSignature(signer, digest, Checks!Signature(signer, digest), node)
<1>1. found = (CASE TRUE /\ plain -> {}
                 [] ~ (TRUE /\ plain) /\ node = Checks!NoClient -> {"unverifiable"}
                 [] OTHER -> Checks!Unless(TRUE /\ node = "answers"))
  BY DEF Checks!checkSignature
<1>2. plain \in BOOLEAN /\ Checks!NoClient # "answers"
  BY DEF Checks!NoClient
<1>. HIDE DEF plain, found
<1>3. found \subseteq {"unverifiable"} /\ (node = "answers" => found = {})
  BY <1>1, <1>2 DEF Checks!Unless
<1>. QED
  BY <1>3 DEF found

\* Statuses without a failure are combined as they are.
LEMMA CombinedStatuses ==
    ASSUME NEW a, NEW b, a \subseteq {"unverifiable"}, b \subseteq {"unverifiable"}
    PROVE  Checks!combineStatuses(a \cup b) = a \cup b
BY DEF Checks!combineStatuses

\* What makes an entry of it pass.
Nettable(item, n, currency) ==
    /\ item.obligation.currency = currency
    /\ item.remaining <= item.obligation.amount
    /\ item.blinding = 0 => item.remaining = item.obligation.amount
    /\ n \in 1 .. item.remaining

\* The entry of a debt passes if it can be netted by n, and fails if not.
LEMMA MadeEntry ==
    ASSUME NEW item, NEW n, NEW fresh, fresh # 0, NEW doc, doc = Checks!Document(item, n, fresh),
           NEW v, v.domain = Checks!ThisLedger, v.wNet = n, Checks!Due(item.obligation),
           NEW node \in {"answers", Checks!NoClient}
    PROVE  LET found == Checks!checkFullEntry(v, Checks!EntryOf(doc), doc, node) IN
           /\ Nettable(item, n, v.currency) =>
                 found \subseteq {"unverifiable"} /\ (node = "answers" => found = {})
           /\ ~ Nettable(item, n, v.currency) => "fail" \in found
<1>. DEFINE id == Checks!obligationId(doc.obligation, v.domain)
            entry == Checks!EntryOf(doc)
            same == id = entry.obligationId
            sides == /\ doc.obligation.debtor = entry.debtor
                     /\ doc.obligation.creditor = entry.creditor
            ofDebtor == Checks!checkSignature(doc.obligation.debtor, id, doc.debtorSignature, node)
            ofCreditor == Checks!checkSignature(doc.obligation.creditor, id, doc.creditorSignature, node)
            currency == doc.obligation.currency = v.currency
            prior == /\ doc.remainingBefore <= doc.obligation.amount
                     /\ doc.blindingBefore = Checks!ZeroBlinding
                          => doc.remainingBefore = doc.obligation.amount
                     /\ Checks!priorCommitmentOf(id, doc.remainingBefore, doc.blindingBefore)
                          = entry.priorCommitment
            next == /\ doc.blindingAfter # Checks!ZeroBlinding
                    /\ Checks!commitment(id, doc.remainingAfter, doc.blindingAfter)
                         = entry.nextCommitment
            due == Checks!Due(doc.obligation)
            net == /\ v.wNet \in 1 .. doc.remainingBefore
                   /\ doc.remainingAfter = doc.remainingBefore - v.wNet
            found == Checks!checkFullEntry(v, entry, doc, node)
            ownId == Checks!obligationId(item.obligation, Checks!ThisLedger)
<1>1. found = Checks!Unless(same) \cup Checks!Unless(sides)
              \cup Checks!combineStatuses(ofDebtor \cup ofCreditor) \cup Checks!Unless(currency)
              \cup Checks!Unless(prior) \cup Checks!Unless(next) \cup Checks!Unless(due)
              \cup Checks!Unless(net)
  BY DEF Checks!checkFullEntry
<1>2. /\ doc.obligation = item.obligation
      /\ doc.debtorSignature = Checks!Signature(item.obligation.debtor, ownId)
      /\ doc.creditorSignature = Checks!Signature(item.obligation.creditor, ownId)
      /\ doc.remainingBefore = item.remaining /\ doc.blindingBefore = item.blinding
      /\ doc.remainingAfter = item.remaining - n /\ doc.blindingAfter = fresh
      /\ entry.obligationId = ownId
      /\ entry.debtor = item.obligation.debtor /\ entry.creditor = item.obligation.creditor
      /\ entry.priorCommitment = Checks!priorCommitmentOf(ownId, item.remaining, item.blinding)
      /\ entry.nextCommitment = Checks!commitment(ownId, item.remaining - n, fresh)
  BY DocumentParts
<1>3. id = ownId
  BY <1>2
<1>4. same /\ sides /\ next /\ due
  BY <1>2, <1>3 DEF Checks!ZeroBlinding
<1>5. Nettable(item, n, v.currency) <=> currency /\ prior /\ net
  BY <1>2, <1>3 DEF Nettable, Checks!ZeroBlinding
<1>6. /\ ofDebtor \subseteq {"unverifiable"} /\ ofCreditor \subseteq {"unverifiable"}
      /\ node = "answers" => ofDebtor = {} /\ ofCreditor = {}
  <2>1. /\ ofDebtor = Checks!checkSignature(doc.obligation.debtor, id,
                                            Checks!Signature(doc.obligation.debtor, id), node)
        /\ ofCreditor = Checks!checkSignature(doc.obligation.creditor, id,
                                              Checks!Signature(doc.obligation.creditor, id), node)
    BY <1>2, <1>3
  <2>. QED
    BY <2>1, RightSignature
<1>7. /\ same \in BOOLEAN /\ sides \in BOOLEAN /\ currency \in BOOLEAN /\ prior \in BOOLEAN
      /\ next \in BOOLEAN /\ due \in BOOLEAN /\ net \in BOOLEAN
  BY DEF Checks!Due
<1>. HIDE DEF same, sides, ofDebtor, ofCreditor, currency, prior, next, due, net, found
<1>8. Checks!combineStatuses(ofDebtor \cup ofCreditor) = ofDebtor \cup ofCreditor
  BY <1>6, CombinedStatuses
<1>9. Nettable(item, n, v.currency) =>
         found \subseteq {"unverifiable"} /\ (node = "answers" => found = {})
  BY <1>1, <1>4, <1>5, <1>6, <1>8 DEF Checks!Unless
<1>10. ~ Nettable(item, n, v.currency) => "fail" \in found
  BY <1>1, <1>5 DEF Checks!Unless
<1>. QED
  BY <1>9, <1>10 DEF found

\* What is found of an entry and of the signatures, and what the contents hash to.
FoundIn(v, i, node) ==
    Checks!checkFullEntry(v, v.certificate.entries[i], v.entries[i].document, node)
SignedAs(v, reached, node) ==
    IF reached = "proposed" THEN {} ELSE Checks!CertificateSignatures(v, node)
HashOfView(v) ==
    Checks!contentHash(v.currency, v.wNet,
                       [i \in DOMAIN v.entries |-> Checks!viewEntryHash(v.entries[i], v.domain)])

\* The contents of a certificate whose parts fit together.
LEMMA ContentsOf ==
    ASSUME NEW v, NEW reached, NEW node, v.certificate.certificateId # 0,
           reached = "applied" \/ ~ late, Checks!FullIn(v) # {},
           v.certificate.contentHash = HashOfView(v)
    PROVE  /\ /\ ~ Checks!loopShapeProblem(v.certificate.entries)
              /\ SignedAs(v, reached, node) \subseteq {"unverifiable"}
              /\ \A i \in Checks!FullIn(v) : FoundIn(v, i, node) \subseteq {"unverifiable"}
              => Checks!Contents(v, reached, node) \subseteq {"unverifiable"}
           /\ /\ ~ Checks!loopShapeProblem(v.certificate.entries)
              /\ SignedAs(v, reached, node) = {}
              /\ \A i \in Checks!FullIn(v) : FoundIn(v, i, node) = {}
              => Checks!Contents(v, reached, node) = {}
           /\ \/ Checks!loopShapeProblem(v.certificate.entries)
              \/ \E i \in Checks!FullIn(v) : "fail" \in FoundIn(v, i, node)
              => Checks!Contents(v, reached, node) # {}
<1>. DEFINE named == v.certificate.certificateId # 0
            timely == reached = "applied" \/ ~ late
            shaped == ~ Checks!loopShapeProblem(v.certificate.entries)
            some == Checks!FullIn(v) # {}
            full == {FoundIn(v, i, node) : i \in Checks!FullIn(v)}
            hashed == v.certificate.contentHash = HashOfView(v)
            found == Checks!Contents(v, reached, node)
<1>1. found = Checks!Unless(named) \cup Checks!Unless(timely) \cup Checks!Unless(shaped)
              \cup SignedAs(v, reached, node) \cup Checks!Unless(some) \cup (UNION full)
              \cup Checks!Unless(hashed)
  BY DEF Checks!Contents, FoundIn, SignedAs, HashOfView
<1>2. named /\ timely /\ some /\ hashed /\ shaped \in BOOLEAN
  OBVIOUS
<1>3. \A x : x \in UNION full <=> \E i \in Checks!FullIn(v) : x \in FoundIn(v, i, node)
  OBVIOUS
<1>4. shaped <=> ~ Checks!loopShapeProblem(v.certificate.entries)
  OBVIOUS
<1>. HIDE DEF named, timely, shaped, some, full, hashed
<1>5. found = Checks!Unless(shaped) \cup SignedAs(v, reached, node) \cup (UNION full)
  <2>1. /\ Checks!Unless(named) = {} /\ Checks!Unless(timely) = {}
        /\ Checks!Unless(some) = {} /\ Checks!Unless(hashed) = {}
    BY <1>2, Zenon DEF Checks!Unless
  <2>. HIDE DEF found
  <2>. QED
    BY <1>1, <2>1
<1>. HIDE DEF found
<1>6. /\ shaped /\ SignedAs(v, reached, node) \subseteq {"unverifiable"}
      /\ \A i \in Checks!FullIn(v) : FoundIn(v, i, node) \subseteq {"unverifiable"}
      => found \subseteq {"unverifiable"}
  BY <1>3, <1>5 DEF Checks!Unless
<1>7. /\ shaped /\ SignedAs(v, reached, node) = {}
      /\ \A i \in Checks!FullIn(v) : FoundIn(v, i, node) = {}
      => found = {}
  BY <1>3, <1>5 DEF Checks!Unless
<1>8. (~ shaped) \/ (\E i \in Checks!FullIn(v) : "fail" \in FoundIn(v, i, node)) => found # {}
  BY <1>2, <1>3, <1>5 DEF Checks!Unless
<1>. USE DEF found
<1>. QED
  BY <1>4, <1>6, <1>7, <1>8, Zenon

\* buildCertificate refuses exactly what the verifier would find wanting.
LEMMA MadeContents ==
    ASSUME NEW items, NEW k \in Nat, 0 < k, DOMAIN items = 1 .. k, NEW n \in Nat,
           \A i \in 1 .. k : /\ Checks!Due(items[i].obligation) /\ items[i].remaining \in Nat
                             /\ items[i].obligation.amount \in Nat,
           ~ late, NEW made, made = Checks!buildCertificate(items, n, Checks!Currency)
    PROVE  ~ Checks!BuildProblem(items, n, Checks!Currency)
              <=> Checks!Contents(made, "proposed", "answers") = {}
<1>. DEFINE debts == [i \in DOMAIN items |-> items[i].obligation]
            digests == [i \in DOMAIN made.entries |-> Checks!viewEntryHash(made.entries[i], made.domain)]
<1>1. /\ made.domain = Checks!ThisLedger /\ made.currency = Checks!Currency /\ made.wNet = n
      /\ made.certificate.certificateId = 1
      /\ made.certificate.entries = [i \in 1 .. k |-> made.certificate.entries[i]]
      /\ made.entries = [i \in 1 .. k |-> made.entries[i]]
      /\ \A i \in 1 .. k :
            /\ made.certificate.entries[i] = Checks!EntryOf(Checks!Document(items[i], n, 10 + i))
            /\ made.entries[i] = [kind |-> "full", document |-> Checks!Document(items[i], n, 10 + i)]
  <2>1. MadeOf(made, items, n, Checks!Currency)
    BY BuiltParts
  <2>. DEFINE edges == [i \in DOMAIN items |-> Checks!EntryOf(Checks!Document(items[i], n, 10 + i))]
              full == [i \in DOMAIN items |-> [kind |-> "full",
                                              document |-> Checks!Document(items[i], n, 10 + i)]]
  <2>2. /\ made.domain = Checks!ThisLedger /\ made.currency = Checks!Currency /\ made.wNet = n
        /\ made.certificate = [certificateId |-> 1, deadline |-> 1,
                               entries |-> made.certificate.entries,
                               contentHash |-> made.certificate.contentHash]
        /\ made.certificate.entries = edges /\ made.entries = full
    BY <2>1, Zenon DEF MadeOf
  <2>3. /\ edges = [i \in 1 .. k |-> edges[i]] /\ full = [i \in 1 .. k |-> full[i]]
        /\ \A i \in 1 .. k :
              /\ edges[i] = Checks!EntryOf(Checks!Document(items[i], n, 10 + i))
              /\ full[i] = [kind |-> "full", document |-> Checks!Document(items[i], n, 10 + i)]
    OBVIOUS
  <2>. HIDE DEF edges, full
  <2>4. made.certificate.certificateId = 1
    BY <2>2
  <2>. QED
    BY <2>2, <2>3, <2>4, Zenon
<1>2. ASSUME NEW i \in 1 .. k
      PROVE  made.entries[i].kind = "full"
  <2>1. PICK doc : doc = Checks!Document(items[i], n, 10 + i)
    OBVIOUS
  <2>2. made.entries[i] = [kind |-> "full", document |-> doc]
    BY <1>1, <2>1, Zenon
  <2>. QED
    BY <2>2
<1>3. ASSUME NEW i \in 1 .. k
      PROVE  made.entries[i].document = Checks!Document(items[i], n, 10 + i)
  <2>1. PICK doc : doc = Checks!Document(items[i], n, 10 + i)
    OBVIOUS
  <2>2. made.entries[i] = [kind |-> "full", document |-> doc]
    BY <1>1, <2>1, Zenon
  <2>. QED
    BY <2>1, <2>2
<1>4. Checks!FullIn(made) = 1 .. k
  BY <1>1, <1>2 DEF Checks!FullIn
<1>5. made.certificate.contentHash = HashOfView(made)
  <2>. DEFINE entryHashes == [i \in DOMAIN items |-> Checks!entryHash(Checks!Document(items[i], n, 10 + i),
                                                                    Checks!ThisLedger)]
  <2>1. made.certificate.contentHash = Checks!contentHash(Checks!Currency, n, entryHashes)
    <3>1. MadeOf(made, items, n, Checks!Currency)
      BY BuiltParts
    <3>. QED
      BY <3>1, Zenon DEF MadeOf
  <2>2. digests = entryHashes
    <3>1. DOMAIN made.entries = DOMAIN items
      BY <1>1
    <3>2. ASSUME NEW i \in DOMAIN items
          PROVE  Checks!viewEntryHash(made.entries[i], made.domain) =
                    Checks!entryHash(Checks!Document(items[i], n, 10 + i), Checks!ThisLedger)
      BY <1>1, <1>2, <1>3 DEF Checks!viewEntryHash
    <3>. QED
      BY <3>1, <3>2
  <2>3. HashOfView(made) = Checks!contentHash(made.currency, made.wNet, digests)
    BY Zenon DEF HashOfView
  <2>. HIDE DEF digests, entryHashes
  <2>. QED
    BY <1>1, <2>1, <2>2, <2>3
<1>6. Checks!loopShapeProblem(debts) <=> Checks!loopShapeProblem(made.certificate.entries)
  <2>1. ASSUME NEW i \in 1 .. k
        PROVE  /\ made.certificate.entries[i].debtor = items[i].obligation.debtor
               /\ made.certificate.entries[i].creditor = items[i].obligation.creditor
    <3>1. PICK doc : doc = Checks!Document(items[i], n, 10 + i)
      OBVIOUS
    <3>2. made.certificate.entries[i] = Checks!EntryOf(doc)
      BY <1>1, <3>1, Zenon
    <3>3. /\ Checks!EntryOf(doc).debtor = items[i].obligation.debtor
          /\ Checks!EntryOf(doc).creditor = items[i].obligation.creditor
      BY <3>1, DocumentParts
    <3>. QED
      BY <3>2, <3>3
  <2>2. /\ DOMAIN debts = 1 .. k /\ debts = [i \in DOMAIN debts |-> debts[i]]
        /\ \A i \in 1 .. k : debts[i] = items[i].obligation
        /\ DOMAIN made.certificate.entries = 1 .. k
        /\ made.certificate.entries = [i \in DOMAIN made.certificate.entries |->
                                         made.certificate.entries[i]]
    BY <1>1
  <2>3. \A i \in 1 .. k : /\ debts[i].debtor = made.certificate.entries[i].debtor
                          /\ debts[i].creditor = made.certificate.entries[i].creditor
    BY <2>1, <2>2
  <2>. HIDE DEF debts
  <2>. QED
    BY <2>2, <2>3, ShapeSame
<1>7. ASSUME NEW i \in 1 .. k
      PROVE  /\ Nettable(items[i], n, Checks!Currency) => FoundIn(made, i, "answers") = {}
             /\ ~ Nettable(items[i], n, Checks!Currency) => "fail" \in FoundIn(made, i, "answers")
  <2>1. PICK doc : doc = Checks!Document(items[i], n, 10 + i)
    OBVIOUS
  <2>2. FoundIn(made, i, "answers") = Checks!checkFullEntry(made, Checks!EntryOf(doc), doc, "answers")
    BY <1>1, <1>3, <2>1, Zenon DEF FoundIn
  <2>3. 10 + i # 0
    OBVIOUS
  <2>. QED
    BY <1>1, <2>1, <2>2, <2>3, MadeEntry
<1>8. Checks!BuildProblem(items, n, Checks!Currency)
         <=> \/ Checks!loopShapeProblem(debts)
             \/ \E i \in 1 .. k : ~ Nettable(items[i], n, Checks!Currency)
  <2>1. Checks!BuildProblem(items, n, Checks!Currency)
           <=> \/ Checks!loopShapeProblem(debts) \/ n <= 0
               \/ \E i \in 1 .. k : \/ items[i].obligation.currency # Checks!Currency
                                    \/ items[i].remaining > items[i].obligation.amount
                                    \/ /\ items[i].blinding = 0
                                       /\ items[i].remaining # items[i].obligation.amount
                                    \/ n > items[i].remaining
    BY Zenon DEF Checks!BuildProblem, Checks!ZeroBlinding
  <2>. HIDE DEF debts
  <2>2. ASSUME NEW i \in 1 .. k
        PROVE  \/ n <= 0
               \/ Nettable(items[i], n, Checks!Currency)
                     <=> ~ (\/ items[i].obligation.currency # Checks!Currency
                            \/ items[i].remaining > items[i].obligation.amount
                            \/ /\ items[i].blinding = 0
                               /\ items[i].remaining # items[i].obligation.amount
                            \/ n > items[i].remaining)
    <3>1. n \in 1 .. items[i].remaining <=> 0 < n /\ n <= items[i].remaining
      OBVIOUS
    <3>. QED
      BY <3>1 DEF Nettable
  <2>3. ASSUME NEW i \in 1 .. k, n <= 0
        PROVE  ~ Nettable(items[i], n, Checks!Currency)
    <3>1. n \notin 1 .. items[i].remaining
      BY <2>3
    <3>. QED
      BY <3>1 DEF Nettable
  <2>4. 1 \in 1 .. k
    OBVIOUS
  <2>. QED
    BY <2>1, <2>2, <2>3, <2>4
<1>9. /\ made.certificate.certificateId # 0 /\ Checks!FullIn(made) # {}
  <2>1. made.certificate.certificateId = 1
    BY <1>1
  <2>2. 1 \in 1 .. k
    OBVIOUS
  <2>3. 1 \in Checks!FullIn(made)
    BY <1>4, <2>2, Zenon
  <2>4. made.certificate.certificateId # 0
    <3>1. 1 # 0
      OBVIOUS
    <3>. QED
      BY <2>1, <3>1, Zenon
  <2>. QED
    BY <2>3, <2>4, Zenon
<1>. HIDE DEF debts
<1>10. CASE Checks!BuildProblem(items, n, Checks!Currency)
  <2>1. \/ Checks!loopShapeProblem(made.certificate.entries)
        \/ \E i \in Checks!FullIn(made) : "fail" \in FoundIn(made, i, "answers")
    BY <1>4, <1>6, <1>7, <1>8, <1>10, Zenon
  <2>2. Checks!Contents(made, "proposed", "answers") # {}
    BY <1>5, <1>9, <2>1, ContentsOf, Zenon
  <2>. QED
    BY <1>10, <2>2
<1>11. CASE ~ Checks!BuildProblem(items, n, Checks!Currency)
  <2>1. /\ ~ Checks!loopShapeProblem(made.certificate.entries)
        /\ \A i \in Checks!FullIn(made) : FoundIn(made, i, "answers") = {}
    BY <1>4, <1>6, <1>7, <1>8, <1>11, Zenon
  <2>3. SignedAs(made, "proposed", "answers") = {}
    BY DEF SignedAs
  <2>2. Checks!Contents(made, "proposed", "answers") = {}
    BY <1>5, <1>9, <2>1, <2>3, ContentsOf
  <2>. QED
    BY <1>11, <2>2
<1>. QED
  BY <1>10, <1>11

\* What buildCertificate may be given: debts that are due.
Payable(items) ==
    \E k \in Nat :
       /\ 0 < k /\ DOMAIN items = 1 .. k
       /\ \A i \in 1 .. k :
             /\ Checks!Due(items[i].obligation) /\ items[i].remaining \in Nat
             /\ items[i].obligation.amount \in Nat

\* Every loop that BuildProved gives to buildCertificate is one.
LEMMA PayableInputs ==
    ASSUME NEW items,
           \/ items = CheckedLoop
           \/ items = [CheckedLoop EXCEPT ![1].remaining = @ - 1]
           \/ items = [CheckedLoop EXCEPT ![1].remaining = @ + 9]
           \/ items = [CheckedLoop EXCEPT ![1].blinding = Checks!ZeroBlinding]
           \/ items = [CheckedLoop EXCEPT ![2].obligation.currency = "other"]
           \/ items = [CheckedLoop EXCEPT ![1].obligation.creditor = Me]
           \/ items = SubSeq(CheckedLoop, 1, 1)
    PROVE  Payable(items)
<1>. DEFINE n == Len(CheckedLoop)
            one == CheckedLoop[1]
            two == CheckedLoop[2]
<1>1. /\ DOMAIN CheckedLoop = 1 .. n /\ n \in Nat /\ 1 \in DOMAIN CheckedLoop /\ 2 \in DOMAIN CheckedLoop
      /\ 0 < n /\ CheckedNet \in Nat /\ 0 < CheckedNet
      /\ \A i \in DOMAIN CheckedLoop :
            /\ CheckedLoop[i] \in Checks!Item
            /\ CheckedLoop[i].obligation \in Checks!Obligation
            /\ Checks!Due(CheckedLoop[i].obligation)
            /\ CheckedLoop[i].remaining \in Nat /\ CheckedLoop[i].obligation.amount \in Nat
            /\ CheckedNet <= CheckedLoop[i].remaining
  BY LoopFacts
<1>2. /\ one = [obligation |-> one.obligation, remaining |-> one.remaining, blinding |-> one.blinding]
      /\ two = [obligation |-> two.obligation, remaining |-> two.remaining, blinding |-> two.blinding]
  BY <1>1 DEF Checks!Item
<1>3. ASSUME NEW o \in Checks!Obligation
      PROVE  o = [debtor |-> o.debtor, creditor |-> o.creditor, currency |-> o.currency,
                  amount |-> o.amount, maturity |-> o.maturity, earlyNetConsent |-> o.earlyNetConsent]
  BY DEF Checks!Obligation
<1>4. CASE items = CheckedLoop
  BY <1>1, <1>4 DEF Payable
<1>5. ASSUME NEW j \in DOMAIN CheckedLoop, NEW item, items = [CheckedLoop EXCEPT ![j] = item],
             Checks!Due(item.obligation), item.remaining \in Nat, item.obligation.amount \in Nat
      PROVE  Payable(items)
  <2>1. DOMAIN items = 1 .. n /\ items[j] = item
        /\ \A i \in 1 .. n : i # j => items[i] = CheckedLoop[i]
    BY <1>1, <1>5
  <2>2. ASSUME NEW i \in 1 .. n
        PROVE  /\ Checks!Due(items[i].obligation) /\ items[i].remaining \in Nat
               /\ items[i].obligation.amount \in Nat
    <3>1. CASE i = j
      BY <1>5, <2>1, <3>1
    <3>2. CASE i # j
      BY <1>1, <2>1, <3>2
    <3>. QED
      BY <3>1, <3>2
  <2>. QED
    BY <1>1, <2>1, <2>2 DEF Payable
<1>6. CASE items = [CheckedLoop EXCEPT ![1].remaining = @ - 1]
  <2>. DEFINE item == [one EXCEPT !.remaining = @ - 1]
  <2>1. items = [CheckedLoop EXCEPT ![1] = item]
    BY <1>6
  <2>2. item.obligation = one.obligation /\ item.remaining = one.remaining - 1
    BY <1>2
  <2>3. one.remaining - 1 \in Nat
    BY <1>1
  <2>. HIDE DEF item
  <2>. QED
    BY <1>1, <1>5, <2>1, <2>2, <2>3
<1>7. CASE items = [CheckedLoop EXCEPT ![1].remaining = @ + 9]
  <2>. DEFINE item == [one EXCEPT !.remaining = @ + 9]
  <2>1. items = [CheckedLoop EXCEPT ![1] = item]
    BY <1>7
  <2>2. item.obligation = one.obligation /\ item.remaining = one.remaining + 9
    BY <1>2
  <2>3. one.remaining + 9 \in Nat
    BY <1>1
  <2>. HIDE DEF item
  <2>. QED
    BY <1>1, <1>5, <2>1, <2>2, <2>3
<1>8. CASE items = [CheckedLoop EXCEPT ![1].blinding = Checks!ZeroBlinding]
  <2>. DEFINE item == [one EXCEPT !.blinding = Checks!ZeroBlinding]
  <2>1. items = [CheckedLoop EXCEPT ![1] = item]
    BY <1>8
  <2>2. item.obligation = one.obligation /\ item.remaining = one.remaining
    BY <1>2
  <2>. HIDE DEF item
  <2>. QED
    BY <1>1, <1>5, <2>1, <2>2
<1>9. ASSUME NEW j \in {1, 2}, NEW o,
             items = [CheckedLoop EXCEPT ![j].obligation = o],
             o.amount = CheckedLoop[j].obligation.amount,
             o.maturity = CheckedLoop[j].obligation.maturity,
             o.earlyNetConsent = CheckedLoop[j].obligation.earlyNetConsent
      PROVE  Payable(items)
  <2>. DEFINE item == [CheckedLoop[j] EXCEPT !.obligation = o]
  <2>1. items = [CheckedLoop EXCEPT ![j] = item]
    BY <1>9
  <2>2. item.obligation = o /\ item.remaining = CheckedLoop[j].remaining
    BY <1>2
  <2>3. Checks!Due(o) /\ o.amount \in Nat /\ j \in DOMAIN CheckedLoop
    BY <1>1, <1>9 DEF Checks!Due
  <2>. HIDE DEF item
  <2>. QED
    BY <1>1, <1>5, <2>1, <2>2, <2>3
<1>10. CASE items = [CheckedLoop EXCEPT ![2].obligation.currency = "other"]
  <2>. DEFINE o == [two.obligation EXCEPT !.currency = "other"]
  <2>1. items = [CheckedLoop EXCEPT ![2].obligation = o]
    BY <1>10
  <2>2. /\ o.amount = two.obligation.amount /\ o.maturity = two.obligation.maturity
        /\ o.earlyNetConsent = two.obligation.earlyNetConsent
    BY <1>1, <1>3
  <2>. HIDE DEF o
  <2>. QED
    BY <1>9, <2>1, <2>2
<1>11. CASE items = [CheckedLoop EXCEPT ![1].obligation.creditor = Me]
  <2>. DEFINE o == [one.obligation EXCEPT !.creditor = Me]
  <2>1. items = [CheckedLoop EXCEPT ![1].obligation = o]
    BY <1>11
  <2>2. /\ o.amount = one.obligation.amount /\ o.maturity = one.obligation.maturity
        /\ o.earlyNetConsent = one.obligation.earlyNetConsent
    BY <1>1, <1>3
  <2>. HIDE DEF o
  <2>. QED
    BY <1>9, <2>1, <2>2
<1>12. CASE items = SubSeq(CheckedLoop, 1, 1)
  <2>1. CheckedLoop \in Seq(Checks!Item)
    BY ChecksAssumption DEF Checks!ConstantsAssumption
  <2>2. DOMAIN items = 1 .. 1 /\ items[1] = CheckedLoop[1]
    BY <1>1, <1>12, <2>1
  <2>3. ASSUME NEW i \in 1 .. 1
        PROVE  /\ Checks!Due(items[i].obligation) /\ items[i].remaining \in Nat
               /\ items[i].obligation.amount \in Nat
    <3>1. i = 1
      OBVIOUS
    <3>. QED
      BY <1>1, <2>2, <3>1, Zenon
  <2>4. 1 \in Nat /\ 0 < 1
    OBVIOUS
  <2>. QED
    BY <2>2, <2>3, <2>4, Zenon DEF Payable
<1>. QED
  BY <1>4, <1>6, <1>7, <1>8, <1>10, <1>11, <1>12

\* The service builds what it proves.
LEMMA BuiltProved ==
    ~ late => Checks!BuildProved
<1>. SUFFICES ASSUME ~ late, NEW input \in Checks!Inputs
              PROVE  ~ Checks!BuildProblem(input[1], input[2], Checks!Currency)
                        <=> Checks!Contents(Checks!buildCertificate(input[1], input[2], Checks!Currency),
                                            "proposed", "answers") = {}
  BY DEF Checks!BuildProved
<1>1. PICK items, n : input[1] = items /\ input[2] = n
  OBVIOUS
<1>2. n \in Nat
  <2>1. n \in 0 .. (CheckedNet + 1)
    BY <1>1 DEF Checks!Inputs
  <2>. QED
    BY <2>1, LoopFacts
<1>3. Payable(items)
  <2>1. \/ items = CheckedLoop
        \/ items = [CheckedLoop EXCEPT ![1].remaining = @ - 1]
        \/ items = [CheckedLoop EXCEPT ![1].remaining = @ + 9]
        \/ items = [CheckedLoop EXCEPT ![1].blinding = Checks!ZeroBlinding]
        \/ items = [CheckedLoop EXCEPT ![2].obligation.currency = "other"]
        \/ items = [CheckedLoop EXCEPT ![1].obligation.creditor = Me]
        \/ items = SubSeq(CheckedLoop, 1, 1)
    BY <1>1 DEF Checks!Inputs
  <2>. QED
    BY <2>1, PayableInputs
<1>. QED
  BY <1>1, <1>2, <1>3, MadeContents DEF Payable

-----------------------------------------------------------------------------
\* The certificate as it was built, or the party's copy of it, with all
\* signatures or with none.
LEMMA LenOf ==
    ASSUME NEW k \in Nat, NEW s, DOMAIN s = 1 .. k, s = [i \in DOMAIN s |-> s[i]]
    PROVE  Len(s) = k
<1>. DEFINE S == {s[i] : i \in 1 .. k}
<1>1. s \in [1 .. k -> S]
  OBVIOUS
<1>. HIDE DEF S
<1>2. s \in Seq(S)
  BY <1>1
<1>. QED
  BY <1>2

\* What a check sees of a genuine file.
GenuineView(v, signed) ==
    /\ v.domain = Checks!ThisLedger /\ v.currency = Checks!Currency /\ v.wNet = CheckedNet
    /\ v.certificate = Checks!Built.certificate
    /\ DOMAIN v.entries = DOMAIN CheckedLoop /\ v.entries = [i \in DOMAIN v.entries |-> v.entries[i]]
    /\ \A i \in DOMAIN CheckedLoop :
          \/ v.entries[i] = [kind |-> "full", document |-> DocumentOf(i)]
          \/ v.entries[i] = [kind |-> "hash", entryHash |-> HashOf(i)] /\ ~ MyDebt(i)
    /\ DOMAIN v.signatures = DOMAIN CheckedLoop
    /\ v.signatures = [i \in DOMAIN v.signatures |-> v.signatures[i]]
    /\ signed => v.signatures = [i \in DOMAIN CheckedLoop |-> SignatureOf(i)]

\* With its signatures or without, a genuine file is seen as such.
LEMMA GenuineParts ==
    ASSUME NEW f \in Checks!Genuine, NEW v, NEW signed \in BOOLEAN,
           v = IF signed THEN f ELSE Checks!Unsigned(f)
    PROVE  FileHeld(f) /\ GenuineView(v, signed)
<1>1. ViewOf(f, Checks!Built) /\ f.signatures = [i \in DOMAIN CheckedLoop |-> SignatureOf(i)]
  BY GenuineHeld
<1>2. FileHeld(f)
  BY <1>1, BuiltHeld, CopyHeld
<1>3. /\ v.domain = f.domain /\ v.currency = f.currency /\ v.wNet = f.wNet
      /\ v.certificate = f.certificate /\ v.entries = f.entries
      /\ signed => v.signatures = f.signatures
      /\ ~ signed => v.signatures = [i \in DOMAIN f.signatures |-> Checks!NoSignature]
  BY <1>2, SeenParts
<1>4. /\ v.domain = Checks!ThisLedger /\ v.currency = Checks!Currency /\ v.wNet = CheckedNet
      /\ v.certificate = Checks!Built.certificate
  BY <1>1, <1>3, BuiltEntries DEF ViewOf
<1>5. DOMAIN v.entries = DOMAIN CheckedLoop /\ v.entries = [i \in DOMAIN v.entries |-> v.entries[i]]
  <2>1. f.entries = [i \in DOMAIN CheckedLoop |-> f.entries[i]]
    BY <1>1 DEF ViewOf
  <2>2. DOMAIN f.entries = DOMAIN CheckedLoop
    BY <2>1
  <2>. QED
    BY <1>3, <2>1, <2>2
<1>6. ASSUME NEW i \in DOMAIN CheckedLoop
      PROVE  \/ v.entries[i] = [kind |-> "full", document |-> DocumentOf(i)]
             \/ v.entries[i] = [kind |-> "hash", entryHash |-> HashOf(i)] /\ ~ MyDebt(i)
  <2>1. PICK doc : doc = DocumentOf(i)
    OBVIOUS
  <2>2. Checks!Built.entries[i] = [kind |-> "full", document |-> doc]
    BY <2>1, OwnEntries, Zenon
  <2>3. Checks!Built.entries[i].document = doc
    BY <2>2
  <2>4. \/ f.entries[i] = Checks!Built.entries[i]
        \/ /\ f.entries[i] = [kind |-> "hash",
                              entryHash |-> Checks!entryHash(Checks!Built.entries[i].document,
                                                             Checks!Built.domain)]
           /\ ~ MyDebt(i)
    BY <1>1, Zenon DEF ViewOf, MyDebt
  <2>5. Checks!entryHash(Checks!Built.entries[i].document, Checks!Built.domain) = HashOf(i)
    <3>1. Checks!Built.domain = Checks!ThisLedger
      BY BuiltEntries
    <3>. QED
      BY <2>1, <2>3, <3>1, Zenon DEF HashOf
  <2>. QED
    BY <1>3, <2>1, <2>2, <2>4, <2>5, Zenon
<1>7. DOMAIN v.signatures = DOMAIN CheckedLoop
      /\ v.signatures = [i \in DOMAIN v.signatures |-> v.signatures[i]]
  <2>1. DOMAIN f.signatures = DOMAIN CheckedLoop
        /\ f.signatures = [i \in DOMAIN f.signatures |-> f.signatures[i]]
    BY <1>1
  <2>2. CASE signed
    BY <1>3, <2>1, <2>2
  <2>3. CASE ~ signed
    BY <1>3, <2>1, <2>3
  <2>. QED
    BY <2>2, <2>3
<1>. QED
  BY <1>1, <1>2, <1>3, <1>4, <1>5, <1>6, <1>7, Zenon DEF GenuineView

\* It has the shape of the loop, and shows the party both its debts.
LEMMA GenuineShape ==
    ASSUME NEW v, NEW signed, GenuineView(v, signed)
    PROVE  /\ ~ Checks!viewShapeProblem(v)
           /\ ~ Checks!loopShapeProblem(v.certificate.entries)
           /\ v.certificate.certificateId = 1
           /\ Checks!FullIn(v) \subseteq DOMAIN CheckedLoop
           /\ \A i \in DOMAIN CheckedLoop : MyDebt(i) => i \in Checks!FullIn(v)
           /\ \A i \in Checks!FullIn(v) :
                 v.entries[i] = [kind |-> "full", document |-> DocumentOf(i)]
           /\ Checks!OwnIn(v) = Checks!OwnIn(Checks!Built)
<1>. DEFINE n == Len(CheckedLoop)
            edges == v.certificate.entries
<1>1. DOMAIN CheckedLoop = 1 .. n /\ n \in Nat
  BY LoopFacts
<1>2. /\ DOMAIN edges = 1 .. n /\ edges = [i \in DOMAIN edges |-> edges[i]]
      /\ \A i \in 1 .. n : /\ edges[i].debtor = CheckedLoop[i].obligation.debtor
                           /\ edges[i].creditor = CheckedLoop[i].obligation.creditor
      /\ v.certificate.certificateId = 1
  <2>1. v.certificate = Checks!Built.certificate
    BY DEF GenuineView
  <2>2. Checks!Built.certificate.entries = [i \in DOMAIN CheckedLoop |-> Checks!EntryOf(DocumentOf(i))]
    BY BuiltEntries
  <2>3. Checks!Built.certificate.certificateId = 1
    BY BuiltEntries
  <2>4. DOMAIN edges = 1 .. n /\ edges = [i \in DOMAIN edges |-> edges[i]]
    BY <1>1, <2>1, <2>2
  <2>. QED
    BY <1>1, <2>1, <2>3, <2>4, OwnEntries
<1>3. Len(v.certificate.entries) = n /\ Len(v.entries) = n /\ Len(v.signatures) = n
  BY <1>1, <1>2, LenOf DEF GenuineView
<1>4. ~ Checks!loopShapeProblem(edges)
  <2>. DEFINE debts == [i \in DOMAIN CheckedLoop |-> CheckedLoop[i].obligation]
  <2>1. /\ DOMAIN debts = 1 .. n /\ debts = [i \in DOMAIN debts |-> debts[i]]
        /\ \A i \in 1 .. n : debts[i] = CheckedLoop[i].obligation
        /\ ~ Checks!loopShapeProblem(debts)
    BY <1>1, LoopFacts
  <2>. HIDE DEF debts
  <2>2. \A i \in 1 .. n : debts[i].debtor = edges[i].debtor /\ debts[i].creditor = edges[i].creditor
    BY <1>2, <2>1
  <2>. QED
    BY <1>1, <1>2, <2>1, <2>2, ShapeSame
<1>5. Checks!FullIn(v) \subseteq DOMAIN CheckedLoop
  BY DEF Checks!FullIn, GenuineView
<1>6. ASSUME NEW i \in DOMAIN CheckedLoop
      PROVE  /\ MyDebt(i) => i \in Checks!FullIn(v)
             /\ i \in Checks!FullIn(v) => v.entries[i] = [kind |-> "full", document |-> DocumentOf(i)]
  <2>1. PICK doc : doc = DocumentOf(i)
    OBVIOUS
  <2>2. PICK hash : hash = HashOf(i)
    OBVIOUS
  <2>3. \/ v.entries[i] = [kind |-> "full", document |-> doc]
        \/ v.entries[i] = [kind |-> "hash", entryHash |-> hash] /\ ~ MyDebt(i)
    BY <2>1, <2>2, Zenon DEF GenuineView
  <2>4. \/ v.entries[i] = [kind |-> "full", document |-> doc] /\ v.entries[i].kind = "full"
        \/ v.entries[i].kind # "full" /\ ~ MyDebt(i)
    BY <2>3
  <2>5. i \in DOMAIN v.entries
    BY DEF GenuineView
  <2>. QED
    BY <2>1, <2>4, <2>5 DEF Checks!FullIn
<1>7. Checks!OwnIn(v) = Checks!OwnIn(Checks!Built)
  BY DEF Checks!OwnIn, GenuineView
<1>8. ~ Checks!viewShapeProblem(v)
  BY <1>3 DEF Checks!viewShapeProblem
<1>. QED
  BY <1>2, <1>4, <1>5, <1>6, <1>7, <1>8

\* What is found of it: nothing, or that the node was not asked.
LEMMA GenuineSigned ==
    ASSUME NEW v, GenuineView(v, TRUE), NEW node \in {"answers", Checks!NoClient}
    PROVE  LET found == Checks!CertificateSignatures(v, node)
           IN  found \subseteq {"unverifiable"} /\ (node = "answers" => found = {})
<1>. DEFINE each(i) == IF v.signatures[i] = Checks!NoSignature THEN {"fail"}
                       ELSE Checks!checkSignature(v.certificate.entries[i].debtor,
                                                  Checks!certificateDigest(v), v.signatures[i], node)
<1>1. Checks!CertificateSignatures(v, node) = UNION {each(i) : i \in DOMAIN v.signatures}
  BY Zenon DEF Checks!CertificateSignatures
<1>2. DOMAIN v.signatures = DOMAIN CheckedLoop
  BY DEF GenuineView
<1>3. ASSUME NEW i \in DOMAIN CheckedLoop
      PROVE  each(i) \subseteq {"unverifiable"} /\ (node = "answers" => each(i) = {})
  <2>. DEFINE digest == Checks!certificateDigest(Checks!Built)
  <2>1. v.signatures[i] = SignatureOf(i)
    BY DEF GenuineView
  <2>2. Checks!certificateDigest(v) = digest
    BY BuiltEntries DEF GenuineView, Checks!certificateDigest
  <2>3. v.certificate.entries[i].debtor = CheckedLoop[i].obligation.debtor
    <3>1. v.certificate = Checks!Built.certificate
      BY DEF GenuineView
    <3>. QED
      BY <3>1, OwnEntries, Zenon
  <2>4. SignatureOf(i) = Checks!Signature(v.certificate.entries[i].debtor, Checks!certificateDigest(v))
    BY <2>2, <2>3, Zenon DEF SignatureOf
  <2>5. SignatureOf(i) # Checks!NoSignature
    <3>1. digest # <<>>
      BY DEF Checks!certificateDigest
    <3>. HIDE DEF digest
    <3>2. SignatureOf(i) = Checks!Signature(CheckedLoop[i].obligation.debtor, digest)
      BY Zenon DEF SignatureOf, digest
    <3>3. SignatureOf(i).of = digest
      BY <3>2 DEF Checks!Signature
    <3>4. Checks!NoSignature.of = <<>>
      BY DEF Checks!NoSignature, Checks!Signature
    <3>. QED
      BY <3>1, <3>3, <3>4, Zenon
  <2>6. each(i) = Checks!checkSignature(v.certificate.entries[i].debtor, Checks!certificateDigest(v),
                      Checks!Signature(v.certificate.entries[i].debtor, Checks!certificateDigest(v)), node)
    BY <2>1, <2>4, <2>5, Zenon
  <2>. HIDE DEF each, digest
  <2>. QED
    BY <2>6, RightSignature
<1>. HIDE DEF each
<1>. QED
  BY <1>1, <1>2, <1>3

\* Its content hash is over what it shows.
LEMMA GenuineHashed ==
    ASSUME NEW v, NEW signed, GenuineView(v, signed)
    PROVE  v.certificate.contentHash = HashOfView(v)
<1>. DEFINE digests == [i \in DOMAIN v.entries |-> Checks!viewEntryHash(v.entries[i], v.domain)]
            hashed == [i \in DOMAIN CheckedLoop |-> HashOf(i)]
<1>1. /\ DOMAIN v.entries = DOMAIN CheckedLoop /\ v.domain = Checks!ThisLedger
      /\ v.currency = Checks!Currency /\ v.wNet = CheckedNet /\ v.certificate = Checks!Built.certificate
  BY DEF GenuineView
<1>2. ASSUME NEW i \in DOMAIN CheckedLoop
      PROVE  Checks!viewEntryHash(v.entries[i], v.domain) = HashOf(i)
  <2>1. PICK doc : doc = DocumentOf(i)
    OBVIOUS
  <2>2. PICK hash : hash = HashOf(i)
    OBVIOUS
  <2>3. \/ v.entries[i] = [kind |-> "full", document |-> doc]
        \/ v.entries[i] = [kind |-> "hash", entryHash |-> hash]
    BY <2>1, <2>2, Zenon DEF GenuineView
  <2>4. \/ v.entries[i].kind = "full" /\ v.entries[i].document = doc
        \/ v.entries[i].kind # "full" /\ v.entries[i].entryHash = hash
    BY <2>3
  <2>5. hash = Checks!entryHash(doc, v.domain)
    BY <1>1, <2>1, <2>2, Zenon DEF HashOf
  <2>. QED
    BY <2>2, <2>4, <2>5, Zenon DEF Checks!viewEntryHash
<1>3. digests = hashed
  BY <1>1, <1>2
<1>4. v.certificate.contentHash = Checks!contentHash(Checks!Currency, CheckedNet, hashed)
  BY <1>1, BuiltEntries, Zenon
<1>5. HashOfView(v) = Checks!contentHash(v.currency, v.wNet, digests)
  BY Zenon DEF HashOfView
<1>. HIDE DEF digests, hashed
<1>. QED
  BY <1>1, <1>3, <1>4, <1>5, Zenon

\* Nothing in its contents fails, at any stage it has the signatures for.
LEMMA GenuineContents ==
    ASSUME NEW f \in Checks!Genuine, NEW v, NEW signed \in BOOLEAN,
           v = IF signed THEN f ELSE Checks!Unsigned(f),
           NEW reached, reached # "proposed" => signed, reached = "applied" \/ ~ late,
           NEW node \in {"answers", Checks!NoClient}
    PROVE  /\ Checks!Contents(v, reached, node) \subseteq {"unverifiable"}
           /\ node = "answers" => Checks!Contents(v, reached, node) = {}
<1>1. GenuineView(v, signed)
  BY GenuineParts
<1>2. v.certificate.contentHash = HashOfView(v)
  BY <1>1, GenuineHashed
<1>3. /\ ~ Checks!loopShapeProblem(v.certificate.entries) /\ v.certificate.certificateId = 1
      /\ Checks!FullIn(v) \subseteq DOMAIN CheckedLoop
      /\ 1 \in Checks!FullIn(v)
      /\ \A i \in Checks!FullIn(v) : v.entries[i] = [kind |-> "full", document |-> DocumentOf(i)]
  BY <1>1, GenuineShape, OwnTwo, LoopFacts
<1>4. ASSUME NEW i \in Checks!FullIn(v)
      PROVE  /\ FoundIn(v, i, node) \subseteq {"unverifiable"}
             /\ node = "answers" => FoundIn(v, i, node) = {}
  <2>1. PICK doc : doc = DocumentOf(i)
    OBVIOUS
  <2>2. v.entries[i] = [kind |-> "full", document |-> doc] /\ i \in DOMAIN CheckedLoop
    BY <1>3, <2>1, Zenon
  <2>3. v.entries[i].document = doc
    BY <2>2
  <2>4. v.certificate.entries[i] = Checks!EntryOf(doc)
    <3>1. v.certificate = Checks!Built.certificate
      BY <1>1 DEF GenuineView
    <3>. QED
      BY <2>1, <2>2, <3>1, OwnEntries, Zenon
  <2>5. FoundIn(v, i, node) = Checks!checkFullEntry(v, Checks!EntryOf(doc), doc, node)
    BY <2>3, <2>4, Zenon DEF FoundIn
  <2>6. /\ v.domain = Checks!ThisLedger /\ v.wNet = CheckedNet /\ v.currency = Checks!Currency
    BY <1>1 DEF GenuineView
  <2>7. Checks!Due(CheckedLoop[i].obligation) /\ Nettable(CheckedLoop[i], CheckedNet, v.currency)
    <3>1. CheckedNet \in 1 .. CheckedLoop[i].remaining
      BY <2>2, LoopFacts
    <3>. QED
      BY <2>2, <2>6, <3>1, LoopFacts DEF Nettable
  <2>8. 10 + i # 0
    <3>1. i \in 1 .. Len(CheckedLoop) /\ Len(CheckedLoop) \in Nat
      BY <2>2, LoopFacts
    <3>. QED
      BY <3>1
  <2>9. doc = Checks!Document(CheckedLoop[i], CheckedNet, 10 + i)
    BY <2>1 DEF DocumentOf
  <2>. QED
    BY <2>5, <2>6, <2>7, <2>8, <2>9, MadeEntry
<1>5. /\ SignedAs(v, reached, node) \subseteq {"unverifiable"}
      /\ node = "answers" => SignedAs(v, reached, node) = {}
  <2>1. CASE reached = "proposed"
    BY <2>1 DEF SignedAs
  <2>2. CASE reached # "proposed"
    <3>1. GenuineView(v, TRUE)
      BY <1>1, <2>2
    <3>. QED
      BY <2>2, <3>1, GenuineSigned DEF SignedAs
  <2>. QED
    BY <2>1, <2>2
<1>6. v.certificate.certificateId # 0 /\ Checks!FullIn(v) # {}
  <2>1. v.certificate.certificateId # 0
    BY <1>3
  <2>2. Checks!FullIn(v) # {}
    BY <1>3
  <2>. QED
    BY <2>1, <2>2
<1>7. Checks!Contents(v, reached, node) \subseteq {"unverifiable"}
  BY <1>2, <1>3, <1>4, <1>5, <1>6, ContentsOf, Zenon
<1>8. ASSUME node = "answers"
      PROVE  Checks!Contents(v, reached, node) = {}
  BY <1>2, <1>3, <1>4, <1>5, <1>6, <1>8, ContentsOf, Zenon
<1>. QED
  BY <1>7, <1>8

-----------------------------------------------------------------------------
\* The blocks that are searched.
LEMMA Division ==
    ASSUME NEW a \in Nat, NEW c \in Nat \ {0}
    PROVE  \E k \in Nat : k <= a /\ k * c <= a /\ a < k * c + c
<1>. DEFINE k == a \div c
            r == a % c
<1>1. k \in Int /\ r \in 0 .. (c - 1) /\ a = c * k + r
  BY SMT
<1>2. k \in Nat /\ k <= a
  BY <1>1, SMT
<1>3. k * c = c * k
  BY <1>1, SMT
<1>. HIDE DEF k, r
<1>. QED
  BY <1>1, <1>2, <1>3

\* A multiple below the next one is at most this one.
LEMMA Multiples ==
    ASSUME NEW c \in Nat \ {0}, NEW k \in Nat, NEW m \in Nat, k * c < m * c + c
    PROVE  k <= m
<1>1. SUFFICES ASSUME m + 1 <= k PROVE FALSE
  OBVIOUS
<1>2. PICK d \in Nat : k = (m + 1) + d
  <2>1. k - (m + 1) \in Nat /\ k = (m + 1) + (k - (m + 1))
    BY <1>1
  <2>. QED
    BY <2>1
<1>3. k * c = m * c + c + d * c
  BY <1>2, SMT
<1>4. d * c \in Nat /\ m * c \in Nat
  BY SMT
<1>. QED
  BY <1>3, <1>4

\* A history searched to its end leaves no block out.
LEMMA Searched ==
    ASSUME NEW head \in Nat, Checks!CompleteHistory(head), NEW mined \in Nat,
           FloorBlock < mined, mined <= head
    PROVE  mined \in UNION Checks!Ranges(head)
<1>1. /\ FloorBlock \in Nat /\ MaxChunks \in Nat /\ Lookback \in Nat
      /\ FloorChunk \in Nat \ {0} /\ LookbackChunk \in Nat \ {0}
  BY ChecksAssumption DEF Checks!ConstantsAssumption
<1>2. CASE checkPage = "verifier"
  <2>. DEFINE ends == {head - k * FloorChunk : k \in 0 .. (MaxChunks - 1)}
              first(to) == IF to - FloorChunk + 1 > FloorBlock THEN to - FloorChunk + 1 ELSE FloorBlock
  <2>1. /\ Checks!Ranges(head) = Checks!FloorRanges(head)
        /\ \E r \in Checks!FloorRanges(head) : FloorBlock \in r
    BY <1>2, Zenon DEF Checks!Ranges, Checks!CompleteHistory
  <2>2. Checks!FloorRanges(head) = {first(to) .. to : to \in {e \in ends : e >= FloorBlock}}
    BY Zenon DEF Checks!FloorRanges
  <2>3. PICK m \in 0 .. (MaxChunks - 1) :
           /\ head - m * FloorChunk >= FloorBlock
           /\ FloorBlock \in first(head - m * FloorChunk) .. (head - m * FloorChunk)
    BY <2>1, <2>2
  <2>4. m \in Nat /\ m * FloorChunk \in Nat
    BY <1>1, SMT
  <2>5. head - m * FloorChunk - FloorChunk + 1 <= FloorBlock
    BY <1>1, <2>3, <2>4
  <2>6. head - mined \in Nat
    OBVIOUS
  <2>7. PICK k \in Nat : k * FloorChunk <= head - mined /\ head - mined < k * FloorChunk + FloorChunk
    BY <1>1, <2>6, Division
  <2>8. k * FloorChunk \in Nat
    BY <1>1, SMT
  <2>9. k * FloorChunk < m * FloorChunk + FloorChunk
    BY <1>1, <2>4, <2>5, <2>7, <2>8
  <2>10. k <= m
    BY <1>1, <2>4, <2>9, Multiples
  <2>11. k \in 0 .. (MaxChunks - 1)
    BY <1>1, <2>3, <2>4, <2>10
  <2>. DEFINE to == head - k * FloorChunk
  <2>12. to \in ends
    BY <2>11
  <2>13. to >= FloorBlock /\ mined \in first(to) .. to
    BY <1>1, <2>7, <2>8
  <2>. HIDE DEF ends, to, first
  <2>. QED
    BY <2>1, <2>2, <2>12, <2>13
<1>3. CASE checkPage # "verifier"
  <2>. DEFINE starts == {Checks!LookbackFirst(head) + k * LookbackChunk : k \in 0 .. head}
              last(from) == IF from + LookbackChunk - 1 < head THEN from + LookbackChunk - 1 ELSE head
  <2>1. /\ Checks!Ranges(head) = Checks!LookbackRanges(head) /\ Checks!LookbackFirst(head) = 0
    BY <1>3, Zenon DEF Checks!Ranges, Checks!CompleteHistory
  <2>2. Checks!LookbackRanges(head) = {from .. last(from) : from \in {s \in starts : s <= head}}
    BY Zenon DEF Checks!LookbackRanges
  <2>3. PICK k \in Nat : k <= mined /\ k * LookbackChunk <= mined /\ mined < k * LookbackChunk + LookbackChunk
    BY <1>1, Division
  <2>4. k * LookbackChunk \in Nat
    BY <1>1, SMT
  <2>. DEFINE from == k * LookbackChunk
  <2>5. from \in starts
    <3>1. k \in 0 .. head /\ Checks!LookbackFirst(head) + k * LookbackChunk = from
      BY <2>1, <2>3, <2>4
    <3>. QED
      BY <3>1
  <2>6. from <= head /\ mined \in from .. last(from)
    BY <1>1, <2>3, <2>4
  <2>. HIDE DEF starts, from, last
  <2>. QED
    BY <2>1, <2>2, <2>5, <2>6
<1>. QED
  BY <1>2, <1>3

-----------------------------------------------------------------------------
\* What holds all along a check: of the world, and of how far the check is and
\* what it has found.
ViewAt(c) == IF c.signed THEN file ELSE Checks!Unsigned(file)
Statuses == {"fail", "unverifiable"}
CheckRecord ==
    [pc : {"idle", "stage", "contents", "event", "ledger", "own entries", "current", "done", "thrown"},
     stage : {"proposed", "signed", "applied"}, signed : BOOLEAN, hint : Nat,
     statuses : SUBSET Statuses, own : SUBSET DOMAIN CheckedLoop, troubled : BOOLEAN, head : Nat]
OpeningAt(c) == c.pc \in {"idle", "stage", "contents"}

\* The world: applied once, above the floor, and a file that is held.
WorldHeld ==
    /\ block \in Nat
    /\ \/ appliedAs = Checks!NotApplied
       \/ /\ appliedAs.by \in {"this", "another"} /\ appliedAs.at \in Nat
          /\ FloorBlock < appliedAs.at /\ appliedAs.at <= block
    /\ FloorBlock <= block
    /\ superseded \in BOOLEAN /\ late \in BOOLEAN /\ allSigned \in BOOLEAN
    /\ checkPage \in {"party", "verifier", "sample", "service"}
    /\ checkPage \in {"sample", "service"} => file \in Checks!Genuine
    /\ FileHeld(file)

\* Where a check of each page can be.
PlaceHeld(c) ==
    /\ c \in CheckRecord /\ c.hint <= block /\ c.head <= block
    /\ c.pc = "idle" => c = Checks!NoCheck
    /\ OpeningAt(c) => c.statuses = {}
    /\ c.pc = "stage" => checkPage = "party"
    /\ c.pc # "idle" =>
          /\ checkPage = "verifier" => c.stage = "applied"
          /\ checkPage = "sample" => c.stage # "proposed"
          /\ checkPage = "service" => c.stage = "proposed"
    /\ c.pc \in {"event", "ledger"} => c.stage = "applied"
    /\ c.pc \in {"own entries", "current"} => checkPage = "party"
    /\ c.pc = "current" => c.stage # "applied"

\* While nothing is found, what was looked at is right.
NothingFound(c) ==
    c.statuses = {} /\ ~ OpeningAt(c) /\ c.pc # "thrown" =>
       /\ Passed(ViewAt(c), c.stage, c.signed)
       /\ c.stage = "applied" /\ c.pc # "event" => appliedAs.by = "this"
       /\ checkPage = "party" /\ c.stage = "proposed" /\ c.pc \in {"current", "done"} =>
             \A i \in Checks!OwnIn(ViewAt(c)) \cap Checks!FullIn(ViewAt(c)) :
                \/ c.pc = "current" /\ i \in c.own
                \/ ViewAt(c).certificate.entries[i].priorCommitment = PriorOf(i)

\* A certificate that nothing is wrong with, so far.
SoundAt(c) ==
    /\ file \in Checks!Genuine /\ (c.stage # "proposed" => c.signed)
    /\ IF c.stage = "applied"
       THEN c.pc \in {"contents", "event"} \/ (appliedAs.by = "this" /\ appliedAs.at <= c.head)
       ELSE ~ late /\ (checkPage = "party" => appliedAs.by # "this" /\ ~ superseded)
NoFalseAlarm(c) == SoundAt(c) /\ ~ c.troubled => "fail" \notin c.statuses
Unread(c) == c.stage = "applied" /\ c.pc # "event" /\ appliedAs.at \notin UNION Checks!Ranges(c.head)
DoubtGrounded(c) ==
    SoundAt(c) /\ "unverifiable" \in c.statuses => ~ Checks!Client \/ c.troubled \/ Unread(c)

\* The invariant of a check.
CheckHeld(c) == PlaceHeld(c) /\ NothingFound(c) /\ NoFalseAlarm(c) /\ DoubtGrounded(c)
ChecksHeld == WorldHeld /\ CheckHeld(check)

\* A step to a check that holds leaves the world alone.
LEMMA StepHeld ==
    ASSUME NEW c, WorldHeld, CheckHeld(c), Checks!Step(c)
    PROVE  ChecksHeld'
<1>1. /\ check' = c
      /\ UNCHANGED <<block, appliedAs, superseded, late, rowStatus, allSigned, checkPage, file>>
  BY DEF Checks!Step
<1>2. WorldHeld'
  BY <1>1 DEF WorldHeld
<1>3. PlaceHeld(check)'
  BY <1>1 DEF CheckHeld, PlaceHeld, OpeningAt
<1>4. ViewAt(check)' = ViewAt(c) /\ OpeningAt(check)' = OpeningAt(c)
  BY <1>1 DEF ViewAt, OpeningAt
<1>5. NothingFound(check)'
  BY <1>1, <1>4 DEF CheckHeld, NothingFound
<1>6. SoundAt(check)' <=> SoundAt(c)
  BY <1>1 DEF SoundAt
<1>7. NoFalseAlarm(check)'
  BY <1>1, <1>6 DEF CheckHeld, NoFalseAlarm
<1>8. Unread(check)' <=> Unread(c)
  BY <1>1 DEF Unread, Checks!Ranges
<1>9. DoubtGrounded(check)'
  BY <1>1, <1>6, <1>8 DEF CheckHeld, DoubtGrounded, Checks!Client
<1>. QED
  BY <1>2, <1>3, <1>5, <1>7, <1>9 DEF ChecksHeld, CheckHeld

\* It holds before the check begins.
LEMMA ChecksInit ==
    Checks!Init => ChecksHeld
<1>. SUFFICES ASSUME Checks!Init PROVE ChecksHeld
  OBVIOUS
<1>1. /\ block = FloorBlock /\ appliedAs = Checks!NotApplied /\ superseded = FALSE /\ late = FALSE
      /\ allSigned = FALSE /\ checkPage \in {"party", "verifier", "sample", "service"}
      /\ file \in (IF checkPage \in {"party", "verifier"} THEN Checks!Files
                   ELSE {Checks!withSignatures(Checks!Built)})
      /\ check = Checks!NoCheck
  BY DEF Checks!Init
<1>2. FloorBlock \in Nat
  BY ChecksAssumption DEF Checks!ConstantsAssumption
<1>3. Checks!withSignatures(Checks!Built) \in Checks!Genuine /\ Checks!Genuine \subseteq Checks!Files
  BY DEF Checks!Genuine, Checks!Files
<1>4. FileHeld(file)
  BY <1>1, <1>3, FilesHeld
<1>5. WorldHeld
  <2>1. checkPage \in {"sample", "service"} => file \in Checks!Genuine
    BY <1>1, <1>3
  <2>2. block \in Nat /\ FloorBlock <= block
    <3>1. block = FloorBlock
      BY <1>1
    <3>2. FloorBlock <= FloorBlock
      BY <1>2
    <3>. QED
      BY <1>2, <3>1, <3>2, Zenon
  <2>3. superseded \in BOOLEAN /\ late \in BOOLEAN /\ allSigned \in BOOLEAN
    BY <1>1, Zenon
  <2>. QED
    BY <1>1, <1>4, <2>1, <2>2, <2>3, Zenon DEF WorldHeld
<1>6. /\ check.pc = "idle" /\ check.stage = "proposed" /\ check.signed = FALSE /\ check.hint = 0
      /\ check.statuses = {} /\ check.own = {} /\ check.troubled = FALSE /\ check.head = 0
      /\ check \in CheckRecord
  BY <1>1 DEF Checks!NoCheck, CheckRecord
<1>7. PlaceHeld(check)
  BY <1>1, <1>2, <1>6 DEF PlaceHeld
<1>8. NothingFound(check) /\ NoFalseAlarm(check) /\ DoubtGrounded(check)
  BY <1>6 DEF NothingFound, OpeningAt, NoFalseAlarm, DoubtGrounded
<1>. QED
  BY <1>5, <1>7, <1>8 DEF ChecksHeld, CheckHeld

\* The ledger, the row and time move on.
LEMMA AlterHeld ==
    ASSUME ChecksHeld, Checks!Alter
    PROVE  ChecksHeld'
<1>1. UNCHANGED <<checkPage, file, check>>
  BY DEF Checks!Alter, Checks!NewBlock, Checks!ApplyThis, Checks!ApplyOther, Checks!Supersede,
         Checks!Expire, Checks!LastSignature, Checks!RecordApplied, Checks!CloseRow,
         Checks!Chain, Checks!Row
<1>2. WorldHeld /\ PlaceHeld(check)
  BY DEF ChecksHeld, CheckHeld
<1>0. block \in Nat /\ superseded \in BOOLEAN /\ late \in BOOLEAN /\ allSigned \in BOOLEAN
  BY <1>2 DEF WorldHeld
<1>3. /\ block' \in Nat /\ block <= block'
      /\ late => late'
      /\ superseded' \in BOOLEAN /\ late' \in BOOLEAN /\ allSigned' \in BOOLEAN
      /\ \/ appliedAs' = appliedAs /\ (superseded => superseded')
         \/ /\ appliedAs = Checks!NotApplied /\ appliedAs'.by \in {"this", "another"}
            /\ appliedAs'.at = block + 1 /\ block' = block + 1
            /\ superseded => superseded'
  <2>1. CASE Checks!NewBlock \/ Checks!Supersede
    <3>1. /\ block' = block + 1 /\ appliedAs' = appliedAs /\ late' = late /\ allSigned' = allSigned
          /\ superseded' = superseded \/ superseded' = TRUE
      BY <2>1, Zenon DEF Checks!NewBlock, Checks!Supersede, Checks!Chain
    <3>2. block' \in Nat /\ block <= block'
      BY <1>0, <3>1
    <3>. QED
      BY <1>0, <3>1, <3>2, Zenon
  <2>2. CASE Checks!ApplyThis \/ Checks!ApplyOther
    <3>1. /\ block' = block + 1 /\ late' = late /\ allSigned' = allSigned
          /\ appliedAs = Checks!NotApplied
          /\ \/ appliedAs' = [by |-> "this", at |-> block + 1]
             \/ appliedAs' = [by |-> "another", at |-> block + 1]
          /\ superseded' = superseded \/ (superseded' = FALSE /\ ~ superseded)
      BY <2>2, Zenon DEF Checks!ApplyThis, Checks!ApplyOther, Checks!Chain
    <3>2. block' \in Nat /\ block <= block'
      BY <1>0, <3>1
    <3>3. appliedAs'.by \in {"this", "another"} /\ appliedAs'.at = block + 1
      BY <3>1
    <3>4. superseded' \in BOOLEAN /\ (superseded => superseded')
      <4>1. superseded' = superseded \/ (superseded' = FALSE /\ ~ superseded)
        BY <3>1
      <4>. QED
        BY <1>0, <4>1
    <3>. QED
      BY <1>0, <3>1, <3>2, <3>3, <3>4, Zenon
  <2>3. CASE Checks!Expire \/ Checks!LastSignature \/ Checks!RecordApplied \/ Checks!CloseRow
    <3>1. /\ block' = block /\ appliedAs' = appliedAs /\ superseded' = superseded
          /\ late' = late \/ late' = TRUE
          /\ allSigned' = allSigned \/ allSigned' = TRUE
      BY <2>3, Zenon DEF Checks!Expire, Checks!LastSignature, Checks!RecordApplied, Checks!CloseRow,
                         Checks!Row
    <3>2. block <= block
      BY <1>0
    <3>3. late' \in BOOLEAN /\ (late => late') /\ allSigned' \in BOOLEAN
      <4>1. (late' = late \/ late' = TRUE) /\ (allSigned' = allSigned \/ allSigned' = TRUE)
        BY <3>1
      <4>2. late' = late \/ late' = TRUE
        BY <4>1
      <4>3. late' \in BOOLEAN /\ (late => late')
        BY <1>0, <4>2
      <4>4. allSigned' \in BOOLEAN
        BY <1>0, <4>1, Zenon
      <4>. QED
        BY <4>3, <4>4
    <3>. QED
      BY <1>0, <3>1, <3>2, <3>3, Zenon
  <2>. QED
    BY <2>1, <2>2, <2>3, Zenon DEF Checks!Alter
<1>4. FloorBlock \in Nat /\ FloorBlock <= block /\ block \in Nat
  BY <1>2, ChecksAssumption DEF Checks!ConstantsAssumption, WorldHeld
<1>5. appliedAs' = appliedAs
      \/ (appliedAs.by = "nothing" /\ check.head < appliedAs'.at /\ appliedAs' # appliedAs)
  <2>1. check.head \in Nat /\ check.head <= block
    BY <1>2 DEF PlaceHeld, CheckRecord
  <2>2. appliedAs = Checks!NotApplied => appliedAs.by = "nothing"
    BY DEF Checks!NotApplied
  <2>. QED
    BY <1>3, <1>4, <2>1, <2>2
<1>6. WorldHeld'
  <2>1. \/ appliedAs' = Checks!NotApplied
        \/ /\ appliedAs'.by \in {"this", "another"} /\ appliedAs'.at \in Nat
           /\ FloorBlock < appliedAs'.at /\ appliedAs'.at <= block'
    <3>1. CASE appliedAs' = appliedAs
      <4>1. \/ appliedAs = Checks!NotApplied
            \/ /\ appliedAs.by \in {"this", "another"} /\ appliedAs.at \in Nat
               /\ FloorBlock < appliedAs.at /\ appliedAs.at <= block
        BY <1>2 DEF WorldHeld
      <4>. QED
        BY <1>3, <1>4, <3>1, <4>1
    <3>2. CASE appliedAs' # appliedAs
      BY <1>3, <1>4, <3>2
    <3>. QED
      BY <3>1, <3>2
  <2>2. FloorBlock <= block'
    BY <1>3, <1>4
  <2>3. /\ checkPage' \in {"party", "verifier", "sample", "service"}
        /\ (checkPage' \in {"sample", "service"} => file' \in Checks!Genuine)
        /\ FileHeld(file')
    BY <1>1, <1>2, Zenon DEF WorldHeld
  <2>4. FileHeld(file)'
    BY <2>3
  <2>. QED
    BY <1>3, <2>1, <2>2, <2>3, <2>4, Zenon DEF WorldHeld
<1>7. PlaceHeld(check)'
  <2>1. check.hint <= block' /\ check.head <= block'
    <3>1. check.hint \in Nat /\ check.head \in Nat /\ check.hint <= block /\ check.head <= block
      BY <1>2 DEF PlaceHeld, CheckRecord
    <3>. QED
      BY <1>3, <1>4, <3>1
  <2>. QED
    BY <1>1, <1>2, <2>1 DEF PlaceHeld, OpeningAt
<1>8. NothingFound(check)'
  <2>1. NothingFound(check)
    BY DEF ChecksHeld, CheckHeld
  <2>2. appliedAs.by = "this" => appliedAs'.by = "this"
    BY <1>5
  <2>3. ViewAt(check)' = ViewAt(check) /\ OpeningAt(check)' = OpeningAt(check)
    BY <1>1 DEF ViewAt, OpeningAt
  <2>. QED
    BY <1>1, <2>1, <2>2, <2>3 DEF NothingFound
<1>9. SoundAt(check)' => SoundAt(check)
  <2>1. late \in BOOLEAN /\ late' \in BOOLEAN /\ superseded \in BOOLEAN /\ superseded' \in BOOLEAN
    BY <1>2, <1>3 DEF WorldHeld
  <2>2. superseded => superseded'
    BY <1>3
  <2>3. appliedAs'.by = "this" /\ appliedAs'.at <= check.head => appliedAs' = appliedAs
    <3>1. ASSUME check.head < appliedAs'.at, appliedAs' # appliedAs
          PROVE  ~ (appliedAs'.at <= check.head)
      <4>1. appliedAs'.at \in Nat /\ check.head \in Nat
        BY <1>2, <1>3, <1>4, <3>1 DEF PlaceHeld, CheckRecord
      <4>. QED
        BY <3>1, <4>1
    <3>. QED
      BY <1>5, <3>1
  <2>4. appliedAs'.by # "this" => appliedAs.by # "this"
    BY <1>5
  <2>. QED
    BY <1>1, <1>3, <2>1, <2>2, <2>3, <2>4 DEF SoundAt
<1>10. NoFalseAlarm(check)'
  BY <1>1, <1>9 DEF ChecksHeld, CheckHeld, NoFalseAlarm
<1>11. DoubtGrounded(check)'
  <2>1. SUFFICES ASSUME SoundAt(check)', "unverifiable" \in check.statuses
                 PROVE  ~ Checks!Client \/ check.troubled \/ Unread(check)'
    BY <1>1 DEF DoubtGrounded, Checks!Client
  <2>2. ~ Checks!Client \/ check.troubled \/ Unread(check)
    BY <1>9, <2>1 DEF ChecksHeld, CheckHeld, DoubtGrounded
  <2>3. CASE Unread(check)
    <3>1. check.pc # "contents"
      BY <1>2, <2>1 DEF PlaceHeld, OpeningAt
    <3>2. appliedAs'.by = "this" /\ appliedAs'.at <= check.head
      BY <1>1, <2>1, <2>3, <3>1 DEF SoundAt, Unread
    <3>3. ASSUME check.head < appliedAs'.at, appliedAs' # appliedAs
          PROVE  FALSE
      <4>1. appliedAs'.at \in Nat /\ check.head \in Nat
        BY <1>2, <1>3, <1>4, <3>3 DEF PlaceHeld, CheckRecord
      <4>. QED
        BY <3>2, <3>3, <4>1
    <3>4. appliedAs' = appliedAs
      BY <1>5, <3>3
    <3>. QED
      BY <1>1, <2>3, <3>4 DEF Unread, Checks!Ranges
  <2>. QED
    BY <2>2, <2>3
<1>. QED
  BY <1>1, <1>6, <1>7, <1>8, <1>10, <1>11 DEF ChecksHeld, CheckHeld

\* The steps of a check.
LEMMA StillOpening ==
    ASSUME ChecksHeld, NEW c, Checks!Step(c), PlaceHeld(c), OpeningAt(c)
    PROVE  ChecksHeld'
<1>1. NothingFound(c)
  BY DEF NothingFound
<1>2. c.statuses = {}
  BY DEF PlaceHeld
<1>3. NoFalseAlarm(c) /\ DoubtGrounded(c)
  BY <1>2 DEF NoFalseAlarm, DoubtGrounded
<1>. QED
  BY <1>1, <1>3, StepHeld DEF ChecksHeld, CheckHeld

\* load, to where the row is read.
LEMMA ReadHeld ==
    ASSUME ChecksHeld, Checks!Read
    PROVE  ChecksHeld'
<1>1. /\ check.pc = "idle" /\ check.stage = "proposed" /\ check.signed = FALSE /\ check.hint = 0
      /\ check.statuses = {} /\ check.own = {} /\ check.troubled = FALSE /\ check.head = 0
      /\ check \in CheckRecord
  <2>1. check = Checks!NoCheck /\ check.pc = "idle" /\ check \in CheckRecord
    BY DEF ChecksHeld, CheckHeld, PlaceHeld, Checks!Read
  <2>. QED
    BY <2>1 DEF Checks!NoCheck
<1>2. /\ block \in Nat /\ checkPage \in {"party", "verifier", "sample", "service"}
      /\ allSigned \in BOOLEAN
  BY DEF ChecksHeld, WorldHeld
<1>3. ASSUME NEW pc \in {"stage", "contents"}, NEW reached \in {"proposed", "signed", "applied"},
             NEW signed \in BOOLEAN, NEW hint \in 0 .. block,
             pc = "stage" => checkPage = "party", checkPage = "verifier" => reached = "applied",
             checkPage = "sample" => reached # "proposed",
             checkPage = "service" => reached = "proposed",
             NEW c, c.pc = pc, c.stage = reached, c.signed = signed, c.hint = hint,
             c.statuses = {}, c.own = {}, c.head = 0, c \in CheckRecord
      PROVE  PlaceHeld(c) /\ OpeningAt(c)
  <2>1. c.hint <= block /\ c.head <= block
    BY <1>2, <1>3
  <2>. QED
    BY <1>3, <2>1 DEF PlaceHeld, OpeningAt
<1>4. CASE checkPage = "party"
  <2>. DEFINE pc == IF rowStatus = "closed" THEN "contents" ELSE "stage"
              reached == IF rowStatus = "applied" THEN "applied"
                         ELSE IF rowStatus = "ready" THEN "signed" ELSE "proposed"
  <2>1. pc \in {"stage", "contents"} /\ reached \in {"proposed", "signed", "applied"}
    OBVIOUS
  <2>2. Checks!Step([check EXCEPT !.pc = pc, !.signed = allSigned, !.stage = reached])
    BY <1>4, Zenon DEF Checks!Read
  <2>. HIDE DEF pc, reached
  <2>3. PICK c : c = [check EXCEPT !.pc = pc, !.signed = allSigned, !.stage = reached]
    OBVIOUS
  <2>4. /\ c.pc = pc /\ c.stage = reached /\ c.signed = allSigned /\ c.hint = 0
        /\ c.statuses = {} /\ c.own = {} /\ c.head = 0 /\ c \in CheckRecord
    BY <1>1, <1>2, <2>1, <2>3 DEF CheckRecord
  <2>5. 0 \in 0 .. block
    BY <1>2
  <2>6. PlaceHeld(c) /\ OpeningAt(c)
    BY <1>2, <1>3, <1>4, <2>1, <2>4, <2>5
  <2>. QED
    BY <2>2, <2>3, <2>6, StillOpening
<1>5. CASE checkPage = "verifier"
  <2>1. PICK signed \in BOOLEAN, hint \in 0 .. block :
           Checks!Step([check EXCEPT !.pc = "contents", !.signed = signed, !.stage = "applied", !.hint = hint])
    BY <1>5, Zenon DEF Checks!Read
  <2>2. PICK c : c = [check EXCEPT !.pc = "contents", !.signed = signed, !.stage = "applied", !.hint = hint]
    OBVIOUS
  <2>3. hint \in Nat
    BY <1>2
  <2>4. /\ c.pc = "contents" /\ c.stage = "applied" /\ c.signed = signed /\ c.hint = hint
        /\ c.statuses = {} /\ c.own = {} /\ c.head = 0 /\ c \in CheckRecord
    BY <1>1, <2>2, <2>3 DEF CheckRecord
  <2>5. PlaceHeld(c) /\ OpeningAt(c)
    BY <1>3, <1>5, <2>4
  <2>. QED
    BY <2>1, <2>2, <2>5, StillOpening
<1>6. CASE checkPage = "sample"
  <2>1. Checks!Step([check EXCEPT !.pc = "contents", !.signed = TRUE, !.stage = "signed"])
    BY <1>6, Zenon DEF Checks!Read
  <2>2. PICK c : c = [check EXCEPT !.pc = "contents", !.signed = TRUE, !.stage = "signed"]
    OBVIOUS
  <2>3. /\ c.pc = "contents" /\ c.stage = "signed" /\ c.signed = TRUE /\ c.hint = 0
        /\ c.statuses = {} /\ c.own = {} /\ c.head = 0 /\ c \in CheckRecord
    BY <1>1, <2>2 DEF CheckRecord
  <2>4. 0 \in 0 .. block
    BY <1>2
  <2>5. PlaceHeld(c) /\ OpeningAt(c)
    BY <1>3, <1>6, <2>3, <2>4
  <2>. QED
    BY <2>1, <2>2, <2>5, StillOpening
<1>7. CASE checkPage = "service"
  <2>1. Checks!Step([check EXCEPT !.pc = "contents"])
    BY <1>7, Zenon DEF Checks!Read
  <2>2. PICK c : c = [check EXCEPT !.pc = "contents"]
    OBVIOUS
  <2>3. /\ c.pc = "contents" /\ c.stage = "proposed" /\ c.signed = FALSE /\ c.hint = 0
        /\ c.statuses = {} /\ c.own = {} /\ c.head = 0 /\ c \in CheckRecord
    BY <1>1, <2>2 DEF CheckRecord
  <2>4. 0 \in 0 .. block
    BY <1>2
  <2>5. PlaceHeld(c) /\ OpeningAt(c)
    BY <1>3, <1>7, <2>3, <2>4
  <2>. QED
    BY <2>1, <2>2, <2>5, StillOpening
<1>. QED
  BY <1>2, <1>4, <1>5, <1>6, <1>7

\* resolveCertificateCheckStage.
LEMMA ResolveStageHeld ==
    ASSUME ChecksHeld, Checks!ResolveStage
    PROVE  ChecksHeld'
<1>1. /\ check.pc = "stage" /\ check.statuses = {} /\ checkPage = "party"
      /\ check \in CheckRecord /\ check.head <= block
  BY DEF ChecksHeld, CheckHeld, PlaceHeld, OpeningAt, Checks!ResolveStage
<1>2. block \in Nat /\ appliedAs.at \in Nat /\ appliedAs.at <= block
  <2>1. CASE appliedAs = Checks!NotApplied
    BY <2>1 DEF ChecksHeld, WorldHeld, Checks!NotApplied
  <2>2. CASE appliedAs # Checks!NotApplied
    BY <2>2 DEF ChecksHeld, WorldHeld
  <2>. QED
    BY <2>1, <2>2
<1>3. PICK answered \in BOOLEAN, hint \in {0, appliedAs.at} :
         Checks!Step([check EXCEPT !.pc = "contents", !.troubled = ~ answered,
                        !.stage = IF answered /\ appliedAs # Checks!NotApplied THEN "applied"
                                  ELSE check.stage,
                        !.hint = hint])
  BY Zenon DEF Checks!ResolveStage
<1>4. PICK reached : /\ reached = IF answered /\ appliedAs # Checks!NotApplied THEN "applied"
                                  ELSE check.stage
                     /\ reached \in {"proposed", "signed", "applied"}
  BY <1>1 DEF CheckRecord
<1>5. PICK fallen \in BOOLEAN : fallen = ~ answered
  OBVIOUS
<1>6. Checks!Step([check EXCEPT !.pc = "contents", !.troubled = fallen, !.stage = reached, !.hint = hint])
  BY <1>3, <1>4, <1>5, Zenon
<1>7. PICK c : c = [check EXCEPT !.pc = "contents", !.troubled = fallen, !.stage = reached, !.hint = hint]
  OBVIOUS
<1>8. hint \in Nat /\ hint <= block
  BY <1>2
<1>9. /\ c.pc = "contents" /\ c.hint = hint /\ c.statuses = {} /\ c.head = check.head
      /\ c \in CheckRecord
  BY <1>1, <1>4, <1>7, <1>8 DEF CheckRecord
<1>10. PlaceHeld(c) /\ OpeningAt(c)
  BY <1>1, <1>8, <1>9 DEF PlaceHeld, OpeningAt
<1>. QED
  BY <1>6, <1>7, <1>10, StillOpening

\* No check comes to anything but these statuses.
LEMMA StatusesOf ==
    /\ \A good : Checks!Unless(good) \subseteq Statuses
    /\ \A signer, digest, signature, node :
          Checks!checkSignature(signer, digest, signature, node) \subseteq Statuses
    /\ \A v, entry, doc, node : Checks!checkFullEntry(v, entry, doc, node) \subseteq Statuses
    /\ \A v, reached, node : Checks!Contents(v, reached, node) \subseteq Statuses
<1>1. \A good : Checks!Unless(good) \subseteq Statuses
  BY DEF Checks!Unless, Statuses
<1>2. \A signer, digest, signature, node :
          Checks!checkSignature(signer, digest, signature, node) \subseteq Statuses
  <2>. TAKE signer, digest, signature, node
  <2>. DEFINE right == signature = Checks!Signature(signer, digest)
              plain == signer \notin SmartAccounts
              found == Checks!checkSignature(signer, digest, signature, node)
  <2>1. found = CASE right /\ plain -> {}
                  [] ~ (right /\ plain) /\ node = Checks!NoClient -> {"unverifiable"}
                  [] OTHER -> Checks!Unless(right /\ node = "answers")
    BY Zenon DEF Checks!checkSignature
  <2>2. right \in BOOLEAN /\ plain \in BOOLEAN /\ {"unverifiable"} \subseteq Statuses
    BY DEF Statuses
  <2>. HIDE DEF right, plain, found
  <2>3. found \subseteq Statuses
    BY <1>1, <2>1, <2>2
  <2>. QED
    BY <2>3 DEF found
<1>3. \A statuses : statuses \subseteq Statuses => Checks!combineStatuses(statuses) \subseteq Statuses
  BY DEF Checks!combineStatuses, Statuses
<1>4. ASSUME NEW v, NEW entry, NEW doc, NEW node
      PROVE  Checks!checkFullEntry(v, entry, doc, node) \subseteq Statuses
  <2>. DEFINE id == Checks!obligationId(doc.obligation, v.domain)
              sides == /\ doc.obligation.debtor = entry.debtor
                       /\ doc.obligation.creditor = entry.creditor
              signed == Checks!checkSignature(doc.obligation.debtor, id, doc.debtorSignature, node)
                        \cup Checks!checkSignature(doc.obligation.creditor, id, doc.creditorSignature, node)
              prior == /\ doc.remainingBefore <= doc.obligation.amount
                       /\ doc.blindingBefore = Checks!ZeroBlinding
                            => doc.remainingBefore = doc.obligation.amount
                       /\ Checks!priorCommitmentOf(id, doc.remainingBefore, doc.blindingBefore)
                            = entry.priorCommitment
              next == /\ doc.blindingAfter # Checks!ZeroBlinding
                      /\ Checks!commitment(id, doc.remainingAfter, doc.blindingAfter)
                           = entry.nextCommitment
              net == /\ v.wNet \in 1 .. doc.remainingBefore
                     /\ doc.remainingAfter = doc.remainingBefore - v.wNet
              found == Checks!checkFullEntry(v, entry, doc, node)
  <2>1. found = Checks!Unless(id = entry.obligationId) \cup Checks!Unless(sides)
                \cup Checks!combineStatuses(signed)
                \cup Checks!Unless(doc.obligation.currency = v.currency) \cup Checks!Unless(prior)
                \cup Checks!Unless(next) \cup Checks!Unless(Checks!Due(doc.obligation))
                \cup Checks!Unless(net)
    BY DEF Checks!checkFullEntry
  <2>2. signed \subseteq Statuses
    BY <1>2
  <2>3. Checks!combineStatuses(signed) \subseteq Statuses
    BY <1>3, <2>2
  <2>4. /\ Checks!Unless(id = entry.obligationId) \subseteq Statuses
        /\ Checks!Unless(sides) \subseteq Statuses
        /\ Checks!Unless(doc.obligation.currency = v.currency) \subseteq Statuses
        /\ Checks!Unless(prior) \subseteq Statuses /\ Checks!Unless(next) \subseteq Statuses
        /\ Checks!Unless(Checks!Due(doc.obligation)) \subseteq Statuses
        /\ Checks!Unless(net) \subseteq Statuses
    BY <1>1, Zenon
  <2>5. \A a, b, c, d, e, g, h, k :
           /\ a \subseteq Statuses /\ b \subseteq Statuses /\ c \subseteq Statuses /\ d \subseteq Statuses
           /\ e \subseteq Statuses /\ g \subseteq Statuses /\ h \subseteq Statuses /\ k \subseteq Statuses
           => a \cup b \cup c \cup d \cup e \cup g \cup h \cup k \subseteq Statuses
    BY Zenon
  <2>. HIDE DEF sides, signed, prior, next, net, found, id
  <2>6. found \subseteq Statuses
    BY <2>1, <2>3, <2>4, <2>5, Zenon
  <2>. QED
    BY <2>6 DEF found
<1>5. ASSUME NEW v, NEW reached, NEW node
      PROVE  Checks!Contents(v, reached, node) \subseteq Statuses
  <2>. DEFINE each(i) == IF v.signatures[i] = Checks!NoSignature THEN {"fail"}
                         ELSE Checks!checkSignature(v.certificate.entries[i].debtor,
                                  Checks!certificateDigest(v), v.signatures[i], node)
              named == Checks!Unless(v.certificate.certificateId # 0)
              timely == Checks!Unless(reached = "applied" \/ ~ late)
              shaped == Checks!Unless(~ Checks!loopShapeProblem(v.certificate.entries))
              some == Checks!Unless(Checks!FullIn(v) # {})
              full == {FoundIn(v, i, node) : i \in Checks!FullIn(v)}
              hashed == Checks!Unless(v.certificate.contentHash = HashOfView(v))
              found == Checks!Contents(v, reached, node)
  <2>1. found = named \cup timely \cup shaped \cup SignedAs(v, reached, node) \cup some
                \cup (UNION full) \cup hashed
    BY DEF Checks!Contents, FoundIn, SignedAs, HashOfView
  <2>2. /\ named \subseteq Statuses /\ timely \subseteq Statuses /\ shaped \subseteq Statuses
        /\ some \subseteq Statuses /\ hashed \subseteq Statuses
    BY <1>1, Zenon
  <2>3. UNION full \subseteq Statuses
    <3>1. ASSUME NEW i
          PROVE  FoundIn(v, i, node) \subseteq Statuses
      BY <1>4, Zenon DEF FoundIn
    <3>. QED
      BY <3>1
  <2>4. SignedAs(v, reached, node) \subseteq Statuses
    <3>1. ASSUME NEW i
          PROVE  each(i) \subseteq Statuses
      <4>1. {"fail"} \subseteq Statuses
        BY DEF Statuses
      <4>. QED
        BY <1>2, <4>1, Zenon
    <3>2. Checks!CertificateSignatures(v, node) = UNION {each(i) : i \in DOMAIN v.signatures}
      BY Zenon DEF Checks!CertificateSignatures
    <3>. HIDE DEF each
    <3>3. Checks!CertificateSignatures(v, node) \subseteq Statuses
      BY <3>1, <3>2
    <3>. QED
      BY <3>3 DEF SignedAs
  <2>. HIDE DEF named, timely, shaped, some, full, hashed, found
  <2>5. found \subseteq Statuses
    BY <2>1, <2>2, <2>3, <2>4
  <2>. QED
    BY <2>5 DEF found
<1>. QED
  BY <1>1, <1>2, <1>4, <1>5

\* What a finding, the end of the proofs and an exception make of a check.
AfterProofs == IF checkPage = "party" THEN "own entries" ELSE "done"
SameBut(c, d) ==
    /\ c \in CheckRecord /\ c.stage = d.stage /\ c.signed = d.signed
    /\ c.hint = d.hint /\ c.head = d.head /\ c.own = d.own

\* A finding is added to the statuses.
LEMMA FoundParts ==
    ASSUME NEW d \in CheckRecord, NEW more, more \subseteq Statuses, NEW c, c = Checks!Found(d, more)
    PROVE  /\ SameBut(c, d) /\ c.pc = d.pc /\ c.troubled = d.troubled
           /\ c.statuses = d.statuses \cup more
<1>1. c = [d EXCEPT !.statuses = @ \cup more]
  BY Zenon DEF Checks!Found
<1>. QED
  BY <1>1 DEF CheckRecord, SameBut

\* The end of the proofs moves the check on.
LEMMA VerifiedParts ==
    ASSUME NEW d \in CheckRecord, NEW c, c = Checks!Verified(d)
    PROVE  /\ SameBut(c, d) /\ c.pc = AfterProofs /\ c.troubled = d.troubled
           /\ c.statuses = d.statuses
<1>1. c = [d EXCEPT !.pc = AfterProofs] /\ AfterProofs \in {"own entries", "done"}
  BY DEF Checks!Verified, AfterProofs
<1>. HIDE DEF AfterProofs
<1>. QED
  BY <1>1 DEF CheckRecord, SameBut

\* An exception is a failure, and is remembered as trouble.
LEMMA ThrewParts ==
    ASSUME NEW d \in CheckRecord, NEW c, c = Checks!Threw(d)
    PROVE  /\ SameBut(c, d) /\ c.pc = AfterProofs /\ c.troubled = TRUE
           /\ c.statuses = d.statuses \cup {"fail"}
<1>1. PICK f : f = Checks!Found(d, {"fail"})
  OBVIOUS
<1>2. SameBut(f, d) /\ f.statuses = d.statuses \cup {"fail"}
  <2>1. {"fail"} \subseteq Statuses
    BY DEF Statuses
  <2>. QED
    BY <1>1, <2>1, FoundParts
<1>3. PICK g : g = [f EXCEPT !.troubled = TRUE]
  OBVIOUS
<1>4. SameBut(g, f) /\ g.troubled = TRUE /\ g.statuses = f.statuses
  BY <1>2, <1>3 DEF CheckRecord, SameBut
<1>5. c = Checks!Verified(g)
  BY <1>1, <1>3, Zenon DEF Checks!Threw
<1>6. SameBut(c, g) /\ c.pc = AfterProofs /\ c.troubled = TRUE /\ c.statuses = g.statuses
  BY <1>4, <1>5, VerifiedParts DEF SameBut
<1>. QED
  BY <1>2, <1>4, <1>6 DEF SameBut

\* Past the contents a check stays where its page can be.
LEMMA PlaceMoved ==
    ASSUME PlaceHeld(check), check.pc # "idle",
           NEW c \in CheckRecord, c.stage = check.stage, c.hint <= block, c.head <= block,
           \/ c.pc \in {"event", "ledger"} /\ c.stage = "applied"
           \/ c.pc = AfterProofs
           \/ c.pc = "current" /\ checkPage = "party" /\ c.stage # "applied"
           \/ c.pc \in {"done", "thrown"}
    PROVE  PlaceHeld(c) /\ ~ OpeningAt(c)
<1>1. /\ c.pc \notin {"idle", "stage", "contents"}
      /\ c.pc \in {"event", "ledger"} => c.stage = "applied"
      /\ c.pc \in {"own entries", "current"} => checkPage = "party"
      /\ c.pc = "current" => c.stage # "applied"
  BY DEF AfterProofs
<1>2. /\ checkPage = "verifier" => c.stage = "applied"
      /\ checkPage = "sample" => c.stage # "proposed"
      /\ checkPage = "service" => c.stage = "proposed"
  BY DEF PlaceHeld
<1>. QED
  BY <1>1, <1>2 DEF PlaceHeld, OpeningAt

\* A genuine file is seen as such all along the check.
LEMMA ViewSound ==
    ASSUME file \in Checks!Genuine, NEW c \in CheckRecord
    PROVE  GenuineView(ViewAt(c), c.signed)
<1>1. c.signed \in BOOLEAN
  BY DEF CheckRecord
<1>. QED
  BY <1>1, GenuineParts DEF ViewAt

\* runChecks, to where it reads the ledger.
LEMMA CheckContentsHeld ==
    ASSUME ChecksHeld, Checks!CheckContents
    PROVE  ChecksHeld'
<1>1. /\ check.pc = "contents" /\ check.statuses = {} /\ check \in CheckRecord
      /\ WorldHeld /\ PlaceHeld(check)
  BY DEF ChecksHeld, CheckHeld, PlaceHeld, OpeningAt, Checks!CheckContents
<1>2. /\ check.hint <= block /\ check.head <= block /\ check.pc # "idle"
      /\ check.stage \in {"proposed", "signed", "applied"} /\ check.signed \in BOOLEAN
      /\ FileHeld(file)
  BY <1>1 DEF PlaceHeld, CheckRecord, WorldHeld
<1>. DEFINE v == Checks!view
<1>3. v = ViewAt(check)
  BY DEF Checks!view, ViewAt
<1>4. \* What failed.
      ASSUME NEW c, SameBut(c, check), c.pc = AfterProofs, c.statuses = {"fail"}, Checks!Step(c),
             file \in Checks!Genuine => c.troubled
      PROVE  ChecksHeld'
  <2>1. PlaceHeld(c)
    BY <1>1, <1>2, <1>4, PlaceMoved DEF SameBut
  <2>2. NothingFound(c)
    BY <1>4 DEF NothingFound
  <2>3. NoFalseAlarm(c)
    BY <1>4 DEF NoFalseAlarm, SoundAt
  <2>4. DoubtGrounded(c)
    BY <1>4 DEF DoubtGrounded
  <2>. QED
    BY <1>1, <1>4, <2>1, <2>2, <2>3, <2>4, StepHeld DEF CheckHeld
<1>5. PICK node \in IF Checks!Client THEN Checks!Answers ELSE {Checks!NoClient} :
         LET seen == Checks!Found(check, Checks!Contents(v, check.stage, node))
             next == IF check.stage = "applied" THEN [seen EXCEPT !.pc = "event"]
                     ELSE Checks!Verified(seen)
         IN
         CASE Checks!viewShapeProblem(v) ->
                Checks!Step(Checks!Verified(Checks!Found(check, {"fail"})))
           [] ~ Checks!viewShapeProblem(v) /\ node = "fails" -> Checks!Step(Checks!Threw(check))
           [] /\ ~ Checks!viewShapeProblem(v) /\ node # "fails"
              /\ v.domain # Checks!ThisLedger /\ Checks!Client ->
                Checks!Step(Checks!Verified(Checks!Found(check, {"fail"})))
           [] OTHER -> Checks!Step([next EXCEPT !.troubled = @ \/ node = "rejects"])
  BY Zenon DEF Checks!CheckContents
<1>6. ASSUME file \in Checks!Genuine
      PROVE  ~ Checks!viewShapeProblem(v) /\ v.domain = Checks!ThisLedger
  <2>1. GenuineView(v, check.signed)
    BY <1>1, <1>3, <1>6, ViewSound
  <2>. QED
    BY <2>1, GenuineShape DEF GenuineView
<1>7. CASE \/ Checks!viewShapeProblem(v)
           \/ /\ ~ Checks!viewShapeProblem(v) /\ node # "fails"
              /\ v.domain # Checks!ThisLedger /\ Checks!Client
  <2>1. Checks!Step(Checks!Verified(Checks!Found(check, {"fail"})))
    BY <1>5, <1>7
  <2>2. PICK f : f = Checks!Found(check, {"fail"})
    OBVIOUS
  <2>3. SameBut(f, check) /\ f.statuses = {"fail"}
    <3>1. {"fail"} \subseteq Statuses
      BY DEF Statuses
    <3>. QED
      BY <1>1, <2>2, <3>1, FoundParts
  <2>4. PICK c : c = Checks!Verified(f)
    OBVIOUS
  <2>5. SameBut(c, f) /\ c.pc = AfterProofs /\ c.statuses = {"fail"}
    BY <2>3, <2>4, VerifiedParts DEF SameBut
  <2>6. SameBut(c, check)
    BY <2>3, <2>5 DEF SameBut
  <2>7. Checks!Step(c) /\ file \notin Checks!Genuine
    BY <1>6, <1>7, <2>1, <2>2, <2>4
  <2>. QED
    BY <1>4, <2>5, <2>6, <2>7
<1>8. CASE ~ Checks!viewShapeProblem(v) /\ node = "fails"
  <2>1. Checks!Step(Checks!Threw(check))
    BY <1>5, <1>8
  <2>2. PICK c : c = Checks!Threw(check)
    OBVIOUS
  <2>3. SameBut(c, check) /\ c.pc = AfterProofs /\ c.troubled = TRUE /\ c.statuses = {"fail"}
    BY <1>1, <2>2, ThrewParts
  <2>. QED
    BY <1>4, <2>1, <2>2, <2>3
<1>9. CASE /\ ~ Checks!viewShapeProblem(v) /\ node # "fails"
           /\ ~ (v.domain # Checks!ThisLedger /\ Checks!Client)
  <2>. DEFINE found == Checks!Contents(v, check.stage, node)
  <2>1. PICK seen : seen = Checks!Found(check, found)
    OBVIOUS
  <2>2. SameBut(seen, check) /\ seen.statuses = found /\ seen.troubled = check.troubled
    <3>1. found \subseteq Statuses
      BY StatusesOf
    <3>. HIDE DEF found
    <3>2. SameBut(seen, check) /\ seen.statuses = check.statuses \cup found
          /\ seen.troubled = check.troubled
      BY <1>1, <2>1, <3>1, FoundParts
    <3>3. check.statuses \cup found = found
      BY <1>1
    <3>. QED
      BY <3>2, <3>3
  <2>3. PICK next : next = IF check.stage = "applied" THEN [seen EXCEPT !.pc = "event"]
                           ELSE Checks!Verified(seen)
    OBVIOUS
  <2>4. SameBut(next, check) /\ next.statuses = found /\ next.troubled = check.troubled
        /\ next.pc = IF check.stage = "applied" THEN "event" ELSE AfterProofs
    <3>1. CASE check.stage = "applied"
      <4>1. next = [seen EXCEPT !.pc = "event"]
        BY <2>3, <3>1
      <4>. QED
        BY <2>2, <3>1, <4>1 DEF SameBut, CheckRecord
    <3>2. CASE check.stage # "applied"
      <4>1. next = Checks!Verified(seen)
        BY <2>3, <3>2
      <4>2. /\ SameBut(next, seen) /\ next.pc = AfterProofs /\ next.troubled = seen.troubled
            /\ next.statuses = seen.statuses
        BY <2>2, <4>1, VerifiedParts DEF SameBut
      <4>. QED
        BY <2>2, <3>2, <4>2 DEF SameBut
    <3>. QED
      BY <3>1, <3>2
  <2>5. Checks!Step([next EXCEPT !.troubled = @ \/ node = "rejects"])
    BY <1>5, <1>9, <2>1, <2>3
  <2>6. PICK troubled \in BOOLEAN : troubled = (next.troubled \/ node = "rejects")
    OBVIOUS
  <2>7. PICK c : c = [next EXCEPT !.troubled = troubled]
    OBVIOUS
  <2>8. Checks!Step(c)
    <3>1. [next EXCEPT !.troubled = @ \/ node = "rejects"]
             = [next EXCEPT !.troubled = next.troubled \/ node = "rejects"]
      OBVIOUS
    <3>. QED
      BY <2>5, <2>6, <2>7, <3>1, Zenon
  <2>9. SameBut(c, check) /\ c.statuses = found /\ c.troubled = troubled
        /\ c.pc = IF check.stage = "applied" THEN "event" ELSE AfterProofs
    BY <2>4, <2>6, <2>7 DEF SameBut, CheckRecord
  <2>. HIDE DEF found
  <2>10. PlaceHeld(c)
    BY <1>1, <1>2, <2>9, PlaceMoved DEF SameBut
  <2>11. ViewAt(c) = v /\ c.stage = check.stage /\ c.signed = check.signed
    BY <1>3, <2>9 DEF ViewAt, SameBut
  <2>12. NothingFound(c)
    <3>1. found = {} => Passed(v, check.stage, check.signed)
      BY <1>2, ContentsPass DEF found, Checks!view
    <3>2. c.stage # "applied" => c.pc \notin {"current", "done"} \/ checkPage # "party"
      BY <2>9, <2>11 DEF AfterProofs
    <3>3. c.stage = "applied" => c.pc = "event"
      BY <2>9, <2>11
    <3>. QED
      BY <2>9, <2>11, <3>1, <3>2, <3>3 DEF NothingFound
  <2>13. ASSUME SoundAt(c), ~ c.troubled
         PROVE  found \subseteq {"unverifiable"} /\ (Checks!Client => found = {})
    <3>1. node # "rejects"
      BY <2>6, <2>9, <2>13
    <3>2. node \in {"answers", Checks!NoClient} /\ (Checks!Client => node = "answers")
      BY <1>5, <1>9, <3>1 DEF Checks!Answers
    <3>3. /\ file \in Checks!Genuine /\ (check.stage # "proposed" => check.signed)
          /\ check.stage = "applied" \/ ~ late
      BY <2>11, <2>13 DEF SoundAt
    <3>. QED
      BY <1>2, <3>2, <3>3, GenuineContents DEF found, Checks!view
  <2>14. NoFalseAlarm(c)
    BY <2>9, <2>13 DEF NoFalseAlarm
  <2>15. DoubtGrounded(c)
    BY <2>9, <2>13 DEF DoubtGrounded
  <2>. QED
    BY <1>1, <2>8, <2>10, <2>12, <2>14, <2>15, StepHeld DEF CheckHeld
<1>. QED
  BY <1>7, <1>8, <1>9

\* checkOnchain: an event that is there is found in a history searched to its end.
LEMMA CheckEventHeld ==
    ASSUME ChecksHeld, Checks!CheckEvent
    PROVE  ChecksHeld'
<1>1. /\ check.pc = "event" /\ check.stage = "applied" /\ check \in CheckRecord
      /\ WorldHeld /\ PlaceHeld(check) /\ NothingFound(check) /\ NoFalseAlarm(check)
      /\ DoubtGrounded(check)
  BY DEF ChecksHeld, CheckHeld, PlaceHeld, Checks!CheckEvent
<1>2. /\ check.hint <= block /\ check.head <= block /\ block \in Nat /\ check.hint \in Nat
      /\ check.head \in Nat /\ FloorBlock \in Nat
  BY <1>1, ChecksAssumption DEF PlaceHeld, CheckRecord, WorldHeld, Checks!ConstantsAssumption
<1>. DEFINE v == Checks!view
<1>3. v = ViewAt(check)
  BY DEF Checks!view, ViewAt
<1>4. /\ check.statuses = {} => Passed(v, check.stage, check.signed)
      /\ file \in Checks!Genuine /\ check.signed /\ ~ check.troubled => "fail" \notin check.statuses
      /\ file \in Checks!Genuine /\ check.signed /\ "unverifiable" \in check.statuses
            => ~ Checks!Client \/ check.troubled
  BY <1>1, <1>3 DEF NothingFound, OpeningAt, NoFalseAlarm, DoubtGrounded, SoundAt, Unread
<1>5. \* The event is found or not, and nothing throws.
      ASSUME NEW c \in CheckRecord, c.stage = check.stage, c.signed = check.signed,
             c.hint <= block, c.head <= block, c.troubled = check.troubled, Checks!Step(c),
             NEW more, c.statuses = check.statuses \cup more,
             \/ more = {} /\ c.pc = "ledger" /\ appliedAs.by = "this"
             \/ /\ more = {"fail"} /\ c.pc = AfterProofs
                /\ ~ (file \in Checks!Genuine /\ appliedAs.by = "this" /\ appliedAs.at <= c.head)
             \/ /\ more = {"unverifiable"} /\ c.pc = "ledger"
                /\ file \in Checks!Genuine /\ appliedAs.by = "this" /\ appliedAs.at <= c.head
                     => appliedAs.at \notin UNION Checks!Ranges(c.head)
      PROVE  ChecksHeld'
  <2>1. PlaceHeld(c)
    BY <1>1, <1>5, PlaceMoved
  <2>2. ViewAt(c) = v
    BY <1>3, <1>5 DEF ViewAt
  <2>3. NothingFound(c)
    <3>1. c.statuses = {} => check.statuses = {} /\ appliedAs.by = "this"
      BY <1>5
    <3>. QED
      BY <1>1, <1>4, <1>5, <2>2, <3>1 DEF NothingFound
  <2>4. c.pc \notin {"contents", "event"}
    BY <1>5 DEF AfterProofs
  <2>5. SoundAt(c) => /\ file \in Checks!Genuine /\ check.signed
                      /\ appliedAs.by = "this" /\ appliedAs.at <= c.head
    BY <1>1, <1>5, <2>4 DEF SoundAt
  <2>6. NoFalseAlarm(c)
    BY <1>4, <1>5, <2>5 DEF NoFalseAlarm
  <2>7. DoubtGrounded(c)
    BY <1>1, <1>4, <1>5, <2>4, <2>5 DEF DoubtGrounded, Unread
  <2>. QED
    BY <1>1, <1>5, <2>1, <2>3, <2>6, <2>7, StepHeld DEF CheckHeld
<1>6. ASSUME file \in Checks!Genuine, appliedAs.by = "this", NEW searched, appliedAs.at \in searched
      PROVE  Checks!isExactApplication(searched)
  <2>1. GenuineView(v, check.signed)
    BY <1>1, <1>3, <1>6, ViewSound
  <2>. QED
    BY <1>6, <2>1 DEF GenuineView, Checks!isExactApplication
<1>7. ASSUME NEW found \in BOOLEAN, NEW head \in Nat, head <= block, Checks!Judge(found, head),
             found => appliedAs.by = "this",
             ~ found => /\ head = block
                        /\ found = Checks!isExactApplication(UNION Checks!Ranges(block))
      PROVE  ChecksHeld'
  <2>1. PICK judged : judged = [check EXCEPT !.pc = "ledger", !.hint = 0, !.head = head]
    OBVIOUS
  <2>2. (CASE found -> Checks!Step(judged)
           [] ~ found /\ Checks!CompleteHistory(head) ->
                Checks!Step(Checks!Verified(Checks!Found(judged, {"fail"})))
           [] OTHER -> Checks!Step(Checks!Found(judged, {"unverifiable"})))
    BY <1>7, <2>1, Zenon DEF Checks!Judge
  <2>3. /\ judged \in CheckRecord /\ judged.pc = "ledger" /\ judged.stage = check.stage
        /\ judged.signed = check.signed /\ judged.hint = 0 /\ judged.head = head
        /\ judged.statuses = check.statuses /\ judged.troubled = check.troubled
    BY <1>1, <1>7, <2>1 DEF CheckRecord
  <2>4. 0 <= block
    BY <1>2
  <2>5. CASE found
    <3>1. Checks!Step(judged)
      BY <2>2, <2>5
    <3>2. judged.statuses = check.statuses \cup {}
      BY <2>3
    <3>. QED
      BY <1>5, <1>7, <2>3, <2>4, <2>5, <3>1, <3>2
  <2>6. CASE ~ found /\ Checks!CompleteHistory(head)
    <3>1. Checks!Step(Checks!Verified(Checks!Found(judged, {"fail"})))
      BY <2>2, <2>6
    <3>2. PICK f : f = Checks!Found(judged, {"fail"})
      OBVIOUS
    <3>3. SameBut(f, judged) /\ f.troubled = judged.troubled
          /\ f.statuses = check.statuses \cup {"fail"}
      <4>1. {"fail"} \subseteq Statuses
        BY DEF Statuses
      <4>. QED
        BY <2>3, <3>2, <4>1, FoundParts
    <3>4. PICK c : c = Checks!Verified(f)
      OBVIOUS
    <3>5. /\ SameBut(c, f) /\ c.pc = AfterProofs /\ c.troubled = f.troubled
          /\ c.statuses = f.statuses
      BY <3>3, <3>4, VerifiedParts DEF SameBut
    <3>6. ~ (file \in Checks!Genuine /\ appliedAs.by = "this" /\ appliedAs.at <= head)
      <4>1. SUFFICES ASSUME file \in Checks!Genuine, appliedAs.by = "this", appliedAs.at <= head
                     PROVE  FALSE
        OBVIOUS
      <4>2. appliedAs.at \in Nat /\ FloorBlock < appliedAs.at
        BY <1>1, <4>1 DEF WorldHeld, Checks!NotApplied
      <4>3. appliedAs.at \in UNION Checks!Ranges(head)
        BY <2>6, <4>1, <4>2, Searched
      <4>. QED
        BY <1>6, <1>7, <2>6, <4>1, <4>3
    <3>7. /\ c \in CheckRecord /\ c.stage = check.stage /\ c.signed = check.signed
          /\ c.hint = 0 /\ c.head = head /\ c.troubled = check.troubled
          /\ c.statuses = check.statuses \cup {"fail"}
      BY <2>3, <3>3, <3>5 DEF SameBut
    <3>. QED
      BY <1>5, <1>7, <2>4, <3>1, <3>2, <3>4, <3>5, <3>6, <3>7
  <2>7. CASE ~ found /\ ~ Checks!CompleteHistory(head)
    <3>1. Checks!Step(Checks!Found(judged, {"unverifiable"}))
      BY <2>2, <2>7
    <3>2. PICK c : c = Checks!Found(judged, {"unverifiable"})
      OBVIOUS
    <3>3. SameBut(c, judged) /\ c.troubled = judged.troubled /\ c.pc = judged.pc
          /\ c.statuses = check.statuses \cup {"unverifiable"}
      <4>1. {"unverifiable"} \subseteq Statuses
        BY DEF Statuses
      <4>. QED
        BY <2>3, <3>2, <4>1, FoundParts
    <3>4. file \in Checks!Genuine /\ appliedAs.by = "this" /\ appliedAs.at <= head
             => appliedAs.at \notin UNION Checks!Ranges(head)
      BY <1>6, <1>7, <2>7
    <3>5. /\ c \in CheckRecord /\ c.stage = check.stage /\ c.signed = check.signed
          /\ c.hint = 0 /\ c.head = head /\ c.troubled = check.troubled /\ c.pc = "ledger"
      BY <2>3, <3>3 DEF SameBut
    <3>. QED
      BY <1>5, <1>7, <2>4, <3>1, <3>2, <3>3, <3>4, <3>5
  <2>. QED
    BY <2>5, <2>6, <2>7
<1>8. CASE /\ check.hint > 0 /\ Checks!isExactApplication({check.hint})
           /\ Checks!Judge(TRUE, check.hint)
  <2>1. appliedAs.by = "this"
    BY <1>8 DEF Checks!isExactApplication
  <2>. QED
    BY <1>2, <1>7, <1>8, <2>1
<1>9. CASE Checks!Judge(Checks!isExactApplication(UNION Checks!Ranges(block)), block)
  <2>1. PICK found \in BOOLEAN : found = Checks!isExactApplication(UNION Checks!Ranges(block))
    BY DEF Checks!isExactApplication
  <2>2. found => appliedAs.by = "this"
    BY <2>1 DEF Checks!isExactApplication
  <2>3. Checks!Judge(found, block) /\ block <= block
    BY <1>2, <1>9, <2>1
  <2>. QED
    BY <1>2, <1>7, <2>1, <2>2, <2>3
<1>10. CASE Checks!Step([Checks!Found(check, {"unverifiable"})
                            EXCEPT !.pc = "ledger", !.hint = 0, !.troubled = TRUE])
  <2>1. PICK f : f = Checks!Found(check, {"unverifiable"})
    OBVIOUS
  <2>2. SameBut(f, check) /\ f.statuses = check.statuses \cup {"unverifiable"}
    <3>1. {"unverifiable"} \subseteq Statuses
      BY DEF Statuses
    <3>. QED
      BY <1>1, <2>1, <3>1, FoundParts
  <2>3. PICK c : c = [f EXCEPT !.pc = "ledger", !.hint = 0, !.troubled = TRUE]
    OBVIOUS
  <2>4. /\ c \in CheckRecord /\ c.pc = "ledger" /\ c.stage = check.stage /\ c.hint = 0
        /\ c.head = check.head /\ c.troubled = TRUE /\ c.statuses # {}
    BY <2>2, <2>3 DEF SameBut, CheckRecord
  <2>5. PlaceHeld(c)
    <3>1. c.hint <= block
      BY <1>2, <2>4
    <3>. QED
      BY <1>1, <1>2, <2>4, <3>1, PlaceMoved
  <2>6. NothingFound(c) /\ NoFalseAlarm(c) /\ DoubtGrounded(c)
    BY <2>4 DEF NothingFound, NoFalseAlarm, DoubtGrounded
  <2>7. Checks!Step(c)
    BY <1>10, <2>1, <2>3
  <2>. QED
    BY <1>1, <2>5, <2>6, <2>7, StepHeld DEF CheckHeld
<1>. QED
  BY <1>8, <1>9, <1>10 DEF Checks!CheckEvent

\* checkLedgerState.
LEMMA CheckLedgerHeld ==
    ASSUME ChecksHeld, Checks!CheckLedger
    PROVE  ChecksHeld'
<1>1. /\ check.pc = "ledger" /\ check.stage = "applied" /\ check \in CheckRecord
      /\ WorldHeld /\ PlaceHeld(check) /\ NothingFound(check) /\ NoFalseAlarm(check)
      /\ DoubtGrounded(check)
  BY DEF ChecksHeld, CheckHeld, PlaceHeld, Checks!CheckLedger
<1>2. check.hint <= block /\ check.head <= block
  BY <1>1 DEF PlaceHeld
<1>. DEFINE v == Checks!view
<1>3. v = ViewAt(check)
  BY DEF Checks!view, ViewAt
<1>4. ASSUME NEW c, SameBut(c, check), c.pc = AfterProofs, Checks!Step(c),
             NEW more, c.statuses = check.statuses \cup more,
             \/ c.troubled = TRUE /\ more # {}
             \/ more = {} /\ c.troubled = check.troubled
             \/ /\ more = {"fail"} /\ c.troubled = check.troubled
                /\ ~ (file \in Checks!Genuine /\ appliedAs.by = "this")
      PROVE  ChecksHeld'
  <2>1. PlaceHeld(c)
    BY <1>1, <1>2, <1>4, PlaceMoved DEF SameBut
  <2>2. ViewAt(c) = v /\ ViewAt(check) = v
    BY <1>3, <1>4 DEF ViewAt, SameBut
  <2>3. SoundAt(c) => SoundAt(check) /\ file \in Checks!Genuine /\ appliedAs.by = "this"
    BY <1>1, <1>4 DEF SoundAt, AfterProofs, SameBut
  <2>4. NothingFound(c)
    <3>1. c.statuses = {} => check.statuses = {}
      BY <1>4
    <3>. QED
      BY <1>1, <1>4, <2>2, <3>1 DEF NothingFound, OpeningAt, SameBut
  <2>5. NoFalseAlarm(c)
    BY <1>1, <1>4, <2>3 DEF NoFalseAlarm
  <2>6. DoubtGrounded(c)
    <3>1. Unread(check) => Unread(c)
      BY <1>1, <1>4 DEF Unread, AfterProofs, SameBut
    <3>. QED
      BY <1>1, <1>4, <2>3, <3>1 DEF DoubtGrounded
  <2>. QED
    BY <1>1, <1>4, <2>1, <2>4, <2>5, <2>6, StepHeld DEF CheckHeld
<1>5. ASSUME file \in Checks!Genuine, appliedAs.by = "this"
      PROVE  Checks!IsApplied
  <2>1. GenuineView(v, check.signed)
    BY <1>1, <1>3, <1>5, ViewSound
  <2>. QED
    BY <1>5, <2>1 DEF GenuineView, Checks!IsApplied, Checks!NotApplied
<1>6. {"fail"} \subseteq Statuses /\ {"unverifiable"} \subseteq Statuses
  BY DEF Statuses
<1>7. CASE Checks!Step(Checks!Verified(Checks!Found(check, Checks!Unless(Checks!IsApplied))))
  <2>1. PICK more : more = Checks!Unless(Checks!IsApplied)
    OBVIOUS
  <2>2. /\ more \subseteq Statuses
        /\ more = {} \/ (more = {"fail"} /\ ~ Checks!IsApplied)
    BY <1>6, <2>1 DEF Checks!Unless
  <2>3. PICK f : f = Checks!Found(check, more)
    OBVIOUS
  <2>4. SameBut(f, check) /\ f.troubled = check.troubled /\ f.statuses = check.statuses \cup more
    BY <1>1, <2>2, <2>3, FoundParts
  <2>5. PICK c : c = Checks!Verified(f)
    OBVIOUS
  <2>6. /\ SameBut(c, f) /\ c.pc = AfterProofs /\ c.troubled = f.troubled
        /\ c.statuses = f.statuses
    BY <2>4, <2>5, VerifiedParts DEF SameBut
  <2>7. SameBut(c, check) /\ c.troubled = check.troubled /\ c.statuses = check.statuses \cup more
    BY <2>4, <2>6 DEF SameBut
  <2>8. Checks!Step(c)
    BY <1>7, <2>1, <2>3, <2>5
  <2>. QED
    BY <1>4, <1>5, <2>2, <2>6, <2>7, <2>8
<1>8. CASE Checks!Step(Checks!Verified([Checks!Found(check, {"unverifiable"}) EXCEPT !.troubled = TRUE]))
  <2>1. PICK f : f = Checks!Found(check, {"unverifiable"})
    OBVIOUS
  <2>2. SameBut(f, check) /\ f.statuses = check.statuses \cup {"unverifiable"}
    BY <1>1, <1>6, <2>1, FoundParts
  <2>3. PICK g : g = [f EXCEPT !.troubled = TRUE]
    OBVIOUS
  <2>4. SameBut(g, f) /\ g.troubled = TRUE /\ g.statuses = f.statuses
    BY <2>2, <2>3 DEF SameBut, CheckRecord
  <2>5. PICK c : c = Checks!Verified(g)
    OBVIOUS
  <2>6. SameBut(c, g) /\ c.pc = AfterProofs /\ c.troubled = TRUE /\ c.statuses = g.statuses
    BY <2>4, <2>5, VerifiedParts DEF SameBut
  <2>7. SameBut(c, check) /\ c.statuses = check.statuses \cup {"unverifiable"}
    BY <2>2, <2>4, <2>6 DEF SameBut
  <2>8. Checks!Step(c)
    BY <1>8, <2>1, <2>3, <2>5
  <2>. QED
    BY <1>4, <2>6, <2>7, <2>8
<1>9. CASE Checks!Step(Checks!Threw(check))
  <2>1. PICK c : c = Checks!Threw(check)
    OBVIOUS
  <2>2. /\ SameBut(c, check) /\ c.pc = AfterProofs /\ c.troubled = TRUE
        /\ c.statuses = check.statuses \cup {"fail"}
    BY <1>1, <2>1, ThrewParts
  <2>. QED
    BY <1>4, <1>9, <2>1, <2>2
<1>. QED
  BY <1>7, <1>8, <1>9 DEF Checks!CheckLedger

\* The count is that of FiniteSets.
LEMMA SameCardinality ==
    \A S : Checks!Cardinality(S) = Cardinality(S)
BY DEF Checks!Cardinality, Cardinality

\* checkAsParty, to where it looks at the ledger.
LEMMA CheckOwnEntriesHeld ==
    ASSUME ChecksHeld, Checks!CheckOwnEntries
    PROVE  ChecksHeld'
<1>1. /\ check.pc = "own entries" /\ checkPage = "party" /\ check \in CheckRecord
      /\ WorldHeld /\ PlaceHeld(check) /\ NothingFound(check) /\ NoFalseAlarm(check)
      /\ DoubtGrounded(check)
  BY DEF ChecksHeld, CheckHeld, PlaceHeld, Checks!CheckOwnEntries
<1>2. /\ check.hint <= block /\ check.head <= block /\ FileHeld(file)
      /\ check.signed \in BOOLEAN
  BY <1>1 DEF PlaceHeld, WorldHeld, CheckRecord
<1>. DEFINE v == Checks!view
<1>3. v = ViewAt(check)
  BY DEF Checks!view, ViewAt
<1>4. PICK own : own = Checks!OwnIn(v)
  OBVIOUS
<1>5. own \subseteq DOMAIN CheckedLoop
  <2>1. v.certificate = file.certificate
    BY <1>2, SeenParts DEF Checks!view
  <2>. QED
    BY <1>2, <1>4, <2>1 DEF FileHeld, CertificateHeld, Checks!OwnIn
<1>6. PICK more : more = Checks!Unless(Checks!OwnHeld)
  OBVIOUS
<1>7. /\ more \subseteq Statuses
      /\ more = {} \/ (more = {"fail"} /\ ~ Checks!OwnHeld)
  BY <1>6 DEF Checks!Unless, Statuses
<1>8. PICK f : f = Checks!Found(check, more)
  OBVIOUS
<1>9. SameBut(f, check) /\ f.troubled = check.troubled /\ f.statuses = check.statuses \cup more
  BY <1>1, <1>7, <1>8, FoundParts
<1>10. PICK pc : pc = IF check.stage = "applied" THEN "done" ELSE "current"
  OBVIOUS
<1>11. PICK c : c = [f EXCEPT !.pc = pc, !.own = own]
  OBVIOUS
<1>12. /\ c \in CheckRecord /\ c.stage = check.stage /\ c.signed = check.signed
       /\ c.hint = check.hint /\ c.head = check.head /\ c.troubled = check.troubled
       /\ c.statuses = check.statuses \cup more /\ c.pc = pc /\ c.own = own
  BY <1>5, <1>9, <1>10, <1>11 DEF SameBut, CheckRecord
<1>13. Checks!Step(c)
  BY <1>4, <1>6, <1>8, <1>10, <1>11, Zenon DEF Checks!CheckOwnEntries
<1>14. PlaceHeld(c)
  BY <1>1, <1>2, <1>10, <1>12, PlaceMoved
<1>15. ViewAt(c) = v /\ ViewAt(check) = v
  BY <1>3, <1>12 DEF ViewAt
<1>16. NothingFound(c)
  <2>1. c.statuses = {} => check.statuses = {}
    BY <1>12
  <2>2. c.stage = "proposed" => c.pc = "current" /\ \A i \in Checks!OwnIn(v) : i \in c.own
    BY <1>4, <1>10, <1>12
  <2>. QED
    BY <1>1, <1>12, <1>15, <2>1, <2>2 DEF NothingFound, OpeningAt
<1>17. SoundAt(c) => SoundAt(check) /\ file \in Checks!Genuine
  BY <1>1, <1>10, <1>12 DEF SoundAt
<1>18. file \in Checks!Genuine => more = {}
  <2>1. SUFFICES ASSUME file \in Checks!Genuine
                 PROVE  Checks!OwnHeld
    BY <1>7
  <2>2. GenuineView(v, check.signed)
    BY <1>1, <1>3, <2>1, ViewSound
  <2>3. /\ Checks!OwnIn(v) = Checks!OwnIn(Checks!Built)
        /\ \A i \in DOMAIN CheckedLoop : MyDebt(i) => i \in Checks!FullIn(v)
    BY <2>2, GenuineShape
  <2>4. Checks!OwnIn(v) \subseteq Checks!FullIn(v)
    <3>1. \A i \in Checks!OwnIn(v) : i \in DOMAIN CheckedLoop /\ MyDebt(i)
      BY <2>3, OwnTwo
    <3>. QED
      BY <2>3, <3>1
  <2>5. Checks!Cardinality(Checks!OwnIn(v)) = 2
    BY <2>3, OwnTwo, SameCardinality, Zenon
  <2>. QED
    BY <2>4, <2>5, Zenon DEF Checks!OwnHeld
<1>19. NoFalseAlarm(c)
  BY <1>1, <1>12, <1>17, <1>18 DEF NoFalseAlarm
<1>20. DoubtGrounded(c)
  <2>1. Unread(check) => Unread(c)
    BY <1>10, <1>12 DEF Unread
  <2>2. "unverifiable" \in c.statuses => "unverifiable" \in check.statuses
    BY <1>7, <1>12
  <2>. QED
    BY <1>1, <1>12, <1>17, <2>1, <2>2 DEF DoubtGrounded
<1>. QED
  BY <1>1, <1>13, <1>14, <1>16, <1>19, <1>20, StepHeld DEF CheckHeld

\* What the ledger holds for a debt, when it is what the certificate says.
LEMMA CurrentPrior ==
    ASSUME FileHeld(file), NEW signed \in BOOLEAN, NEW v,
           v = IF signed THEN file ELSE Checks!Unsigned(file), v = Checks!view,
           NEW i \in Checks!FullIn(v),
           Checks!stateOf(i) = v.certificate.entries[i].priorCommitment
    PROVE  v.certificate.entries[i].priorCommitment = PriorOf(i)
<1>1. v.certificate = file.certificate /\ v.entries = file.entries
  BY SeenParts
<1>2. i \in DOMAIN CheckedLoop /\ file.entries[i].kind = "full"
  BY <1>1 DEF FileHeld, EntriesHeld, Checks!FullIn
<1>3. CASE file.certificate = Checks!Built.certificate
  BY <1>1, <1>3 DEF PriorOf
<1>4. CASE file.certificate # Checks!Built.certificate
  <2>1. PICK entry : entry = v.certificate.entries[i]
    OBVIOUS
  <2>2. entry.priorCommitment \in {PriorOf(i), BlindedPrior(i)}
    <3>1. MyDebt(i)
      BY <1>2, <1>4 DEF FileHeld
    <3>. QED
      BY <1>1, <1>2, <2>1, <3>1 DEF FileHeld, CertificateHeld, EntryHeld
  <2>3. PICK id : id = Checks!obligationId(CheckedLoop[i].obligation, Checks!ThisLedger)
    OBVIOUS
  <2>4. PICK built : built = Checks!Built.certificate.entries[i]
    OBVIOUS
  <2>5. /\ built.obligationId = id
        /\ built.nextCommitment = Checks!commitment(id, CheckedLoop[i].remaining - CheckedNet, 10 + i)
        /\ built.priorCommitment = PriorOf(i)
    BY <1>2, <2>3, <2>4, OwnEntries DEF PriorOf
  <2>6. BlindedPrior(i) = Checks!commitment(id, CheckedLoop[i].remaining, 9)
    BY <2>3 DEF BlindedPrior
  <2>7. CheckedLoop[i].remaining \in Nat /\ CheckedNet \in Nat /\ 0 < CheckedNet
    BY <1>2, LoopFacts
  <2>8. /\ BlindedPrior(i) # Checks!ZeroHash
        /\ BlindedPrior(i) # built.nextCommitment
        /\ BlindedPrior(i) # Checks!commitment(id, 0, 8)
    <3>1. CheckedLoop[i].remaining - CheckedNet # CheckedLoop[i].remaining
      BY <2>7
    <3>. QED
      BY <2>5, <2>6, <3>1 DEF Checks!commitment, Checks!ZeroHash
  <2>9. Checks!stateOf(i) \in {Checks!ZeroHash, built.nextCommitment, Checks!commitment(id, 0, 8),
                               built.priorCommitment}
    BY <2>4, <2>5 DEF Checks!stateOf
  <2>. QED
    BY <2>1, <2>2, <2>5, <2>8, <2>9
<1>. QED
  BY <1>3, <1>4

\* checkAsParty: the ledger has the party's debts where the certificate starts.
LEMMA CheckCurrentHeld ==
    ASSUME ChecksHeld, Checks!CheckCurrent
    PROVE  ChecksHeld'
<1>1. /\ check.pc = "current" /\ checkPage = "party" /\ check \in CheckRecord
      /\ check.stage # "applied"
      /\ WorldHeld /\ PlaceHeld(check) /\ NothingFound(check) /\ NoFalseAlarm(check)
      /\ DoubtGrounded(check)
  BY DEF ChecksHeld, CheckHeld, PlaceHeld, Checks!CheckCurrent
<1>2. /\ check.hint <= block /\ check.head <= block /\ FileHeld(file)
      /\ check.signed \in BOOLEAN
  BY <1>1 DEF PlaceHeld, WorldHeld, CheckRecord
<1>. DEFINE v == Checks!view
<1>3. v = ViewAt(check)
  BY DEF Checks!view, ViewAt
<1>4. \* Whatever else the step does, it leaves these alone.
      ASSUME NEW c \in CheckRecord, c.stage = check.stage, c.signed = check.signed,
             c.hint = check.hint, c.head = check.head, c.pc \in {"current", "done", "thrown"}
      PROVE  /\ PlaceHeld(c) /\ ViewAt(c) = v /\ ViewAt(check) = v
             /\ SoundAt(c) <=> SoundAt(check)
             /\ ~ Unread(check)
  <2>1. PlaceHeld(c)
    BY <1>1, <1>2, <1>4, PlaceMoved
  <2>2. ViewAt(c) = v /\ ViewAt(check) = v
    BY <1>3, <1>4 DEF ViewAt
  <2>3. SoundAt(c) <=> SoundAt(check)
    BY <1>1, <1>4 DEF SoundAt
  <2>. QED
    BY <1>1, <2>1, <2>2, <2>3 DEF Unread
<1>5. CASE check.own = {} /\ Checks!Step([check EXCEPT !.pc = "done"])
  <2>1. PICK c : c = [check EXCEPT !.pc = "done"]
    OBVIOUS
  <2>2. /\ c \in CheckRecord /\ c.stage = check.stage /\ c.signed = check.signed
        /\ c.hint = check.hint /\ c.head = check.head /\ c.pc = "done"
        /\ c.statuses = check.statuses /\ c.troubled = check.troubled
    BY <1>1, <2>1 DEF CheckRecord
  <2>3. /\ PlaceHeld(c) /\ ViewAt(c) = v /\ ViewAt(check) = v
        /\ SoundAt(c) <=> SoundAt(check)
        /\ ~ Unread(check)
    BY <1>4, <2>2
  <2>4. NothingFound(c)
    BY <1>1, <1>5, <2>2, <2>3 DEF NothingFound, OpeningAt
  <2>5. NoFalseAlarm(c) /\ DoubtGrounded(c)
    BY <1>1, <2>2, <2>3 DEF NoFalseAlarm, DoubtGrounded
  <2>. QED
    BY <1>1, <1>5, <2>1, <2>3, <2>4, <2>5, StepHeld DEF CheckHeld
<1>6. ASSUME NEW i, Checks!Step([Checks!Found(check, Checks!Unless(
                                     Checks!stateOf(i) = v.certificate.entries[i].priorCommitment))
                                   EXCEPT !.own = @ \ {i}])
      PROVE  ChecksHeld'
  <2>1. PICK good \in BOOLEAN : good = (Checks!stateOf(i) = v.certificate.entries[i].priorCommitment)
    OBVIOUS
  <2>2. PICK more : more = Checks!Unless(good)
    OBVIOUS
  <2>3. /\ more \subseteq Statuses
        /\ \/ more = {} /\ good
           \/ more = {"fail"} /\ ~ good
    BY <2>2 DEF Checks!Unless, Statuses
  <2>4. PICK f : f = Checks!Found(check, more)
    OBVIOUS
  <2>5. SameBut(f, check) /\ f.troubled = check.troubled /\ f.statuses = check.statuses \cup more
        /\ f.pc = "current"
    BY <1>1, <2>3, <2>4, FoundParts
  <2>6. PICK c : c = [f EXCEPT !.own = @ \ {i}]
    OBVIOUS
  <2>7. /\ c \in CheckRecord /\ c.stage = check.stage /\ c.signed = check.signed
        /\ c.hint = check.hint /\ c.head = check.head /\ c.pc = "current"
        /\ c.statuses = check.statuses \cup more /\ c.troubled = check.troubled
        /\ c.own = check.own \ {i}
    BY <2>5, <2>6 DEF SameBut, CheckRecord
  <2>8. /\ PlaceHeld(c) /\ ViewAt(c) = v /\ ViewAt(check) = v
        /\ SoundAt(c) <=> SoundAt(check)
        /\ ~ Unread(check)
    BY <1>4, <2>7
  <2>9. Checks!Step(c)
    BY <1>6, <2>1, <2>2, <2>4, <2>6, Zenon
  <2>10. NothingFound(c)
    <3>1. SUFFICES ASSUME c.statuses = {}
                   PROVE  /\ Passed(v, check.stage, check.signed)
                          /\ check.stage = "proposed" =>
                                \A j \in Checks!OwnIn(v) \cap Checks!FullIn(v) :
                                   \/ j \in check.own \ {i}
                                   \/ v.certificate.entries[j].priorCommitment = PriorOf(j)
      BY <1>1, <2>7, <2>8 DEF NothingFound
    <3>2. check.statuses = {} /\ good
      BY <2>3, <2>7, <3>1
    <3>3. /\ Passed(v, check.stage, check.signed)
          /\ check.stage = "proposed" =>
                \A j \in Checks!OwnIn(v) \cap Checks!FullIn(v) :
                   \/ j \in check.own
                   \/ v.certificate.entries[j].priorCommitment = PriorOf(j)
      BY <1>1, <2>8, <3>2 DEF NothingFound, OpeningAt
    <3>4. i \in Checks!FullIn(v) => v.certificate.entries[i].priorCommitment = PriorOf(i)
      BY <1>2, <2>1, <3>2, CurrentPrior DEF Checks!view
    <3>. QED
      BY <3>3, <3>4
  <2>11. SoundAt(check) => more = {}
    <3>1. SUFFICES ASSUME SoundAt(check)
                   PROVE  Checks!stateOf(i) = v.certificate.entries[i].priorCommitment
      BY <2>1, <2>3
    <3>2. file \in Checks!Genuine /\ appliedAs.by # "this" /\ ~ superseded
      BY <1>1, <3>1 DEF SoundAt
    <3>3. v.certificate = Checks!Built.certificate
      BY <1>1, <1>3, <3>2, ViewSound DEF GenuineView
    <3>. QED
      BY <3>2, <3>3 DEF Checks!stateOf
  <2>12. NoFalseAlarm(c)
    BY <1>1, <2>7, <2>8, <2>11 DEF NoFalseAlarm
  <2>13. DoubtGrounded(c)
    BY <1>1, <2>7, <2>8, <2>11 DEF DoubtGrounded
  <2>. QED
    BY <1>1, <2>8, <2>9, <2>10, <2>12, <2>13, StepHeld DEF CheckHeld
<1>7. CASE Checks!Step([check EXCEPT !.pc = "thrown", !.troubled = TRUE])
  <2>1. PICK c : c = [check EXCEPT !.pc = "thrown", !.troubled = TRUE]
    OBVIOUS
  <2>2. /\ c \in CheckRecord /\ c.stage = check.stage /\ c.signed = check.signed
        /\ c.hint = check.hint /\ c.head = check.head /\ c.pc = "thrown" /\ c.troubled = TRUE
    BY <1>1, <2>1 DEF CheckRecord
  <2>3. PlaceHeld(c)
    BY <1>4, <2>2
  <2>4. NothingFound(c) /\ NoFalseAlarm(c) /\ DoubtGrounded(c)
    BY <2>2 DEF NothingFound, NoFalseAlarm, DoubtGrounded
  <2>. QED
    BY <1>1, <1>7, <2>1, <2>3, <2>4, StepHeld DEF CheckHeld
<1>. QED
  BY <1>5, <1>6, <1>7, Zenon DEF Checks!CheckCurrent

\* Every step keeps the invariant.
LEMMA ChecksStep ==
    ASSUME ChecksHeld, Checks!Next
    PROVE  ChecksHeld'
BY AlterHeld, ReadHeld, ResolveStageHeld, CheckContentsHeld, CheckEventHeld, CheckLedgerHeld,
   CheckOwnEntriesHeld, CheckCurrentHeld DEF Checks!Next

\* So does a step of another part.
LEMMA ChecksStutter ==
    ASSUME ChecksHeld, UNCHANGED checksVars
    PROVE  ChecksHeld'
<1>1. UNCHANGED <<block, appliedAs, superseded, late, rowStatus, allSigned, checkPage, file, check>>
  BY DEF checksVars
<1>2. PICK c : c = check
  OBVIOUS
<1>3. Checks!Step(c)
  BY <1>1, <1>2 DEF Checks!Step
<1>4. WorldHeld /\ CheckHeld(c)
  BY <1>2 DEF ChecksHeld
<1>. QED
  BY <1>3, <1>4, StepHeld

\* What is shown when it ends.
LEMMA VerdictAgreed ==
    ASSUME ChecksHeld, check.pc = "done", check.statuses = {}
    PROVE  Checks!AsAgreed /\ (check.stage = "applied" => appliedAs.by = "this")
<1>. DEFINE v == Checks!view
<1>1. /\ check \in CheckRecord /\ WorldHeld /\ PlaceHeld(check) /\ NothingFound(check)
  BY DEF ChecksHeld, CheckHeld, PlaceHeld
<1>2. v = ViewAt(check)
  BY DEF Checks!view, ViewAt
<1>3. /\ Passed(v, check.stage, check.signed)
      /\ check.stage = "applied" => appliedAs.by = "this"
      /\ checkPage = "party" /\ check.stage = "proposed" =>
            \A i \in Checks!OwnIn(v) \cap Checks!FullIn(v) :
               v.certificate.entries[i].priorCommitment = PriorOf(i)
  BY <1>1, <1>2 DEF NothingFound, OpeningAt
<1>4. FileHeld(file) /\ v.certificate = file.certificate /\ v.entries = file.entries
  <2>1. FileHeld(file) /\ check.signed \in BOOLEAN
    BY <1>1 DEF WorldHeld, CheckRecord
  <2>. QED
    BY <2>1, SeenParts DEF Checks!view
<1>5. ASSUME NEW i \in Checks!FullIn(v)
      PROVE  i \in DOMAIN CheckedLoop /\ v.certificate.entries[i].priorCommitment = PriorOf(i)
  <2>1. i \in DOMAIN CheckedLoop /\ file.entries[i].kind = "full"
    BY <1>4 DEF FileHeld, EntriesHeld, Checks!FullIn
  <2>2. CASE v.certificate = Checks!Built.certificate
    BY <2>1, <2>2 DEF PriorOf
  <2>3. CASE v.certificate # Checks!Built.certificate
    <3>1. check.stage = "proposed"
      BY <1>3, <2>3 DEF Passed
    <3>2. checkPage = "party"
      <4>1. file \notin Checks!Genuine
        BY <1>1, <1>2, <2>3, ViewSound DEF GenuineView
      <4>. QED
        BY <1>1, <3>1, <4>1 DEF WorldHeld, PlaceHeld
    <3>3. i \in Checks!OwnIn(v)
      <4>1. MyDebt(i)
        BY <1>4, <2>1, <2>3 DEF FileHeld
      <4>2. /\ i \in DOMAIN v.certificate.entries
            /\ Checks!Involves(v.certificate.entries[i], Me)
        BY <1>4, <2>1, <4>1 DEF FileHeld, CertificateHeld, EntryHeld
      <4>. QED
        BY <4>2 DEF Checks!OwnIn
    <3>. QED
      BY <1>3, <2>1, <3>1, <3>2, <3>3
  <2>. QED
    BY <2>2, <2>3
<1>6. ASSUME NEW i \in Checks!FullIn(v)
      PROVE  LET doc == v.entries[i].document IN
             /\ <<doc.obligation, doc.remainingBefore, doc.blindingBefore>>
                   = <<CheckedLoop[i].obligation, CheckedLoop[i].remaining, CheckedLoop[i].blinding>>
             /\ doc.remainingAfter = CheckedLoop[i].remaining - v.wNet
             /\ v.certificate.entries[i] = Checks!EntryOf(doc)
  <2>1. EntryPassed(v, i)
    BY <1>3 DEF Passed
  <2>. QED
    BY <1>5, <2>1, EntryAgreed
<1>7. check.stage # "proposed" =>
         /\ check.signed /\ v.certificate = Checks!Built.certificate
         /\ <<v.domain, v.currency, v.wNet>> = <<Checks!ThisLedger, Checks!Currency, CheckedNet>>
  BY <1>3 DEF Passed
<1>. QED
  BY <1>3, <1>6, <1>7, Zenon DEF Checks!AsAgreed

\* The verdict follows from the invariant.
LEMMA ChecksRight ==
    ChecksHeld => Checks!VerdictRight
<1>. SUFFICES ASSUME ChecksHeld, check.pc = "done"
              PROVE  /\ check.statuses = {} =>
                           Checks!AsAgreed /\ (check.stage = "applied" => appliedAs.by = "this")
                     /\ Checks!Sound /\ ~ check.troubled => "fail" \notin check.statuses
                     /\ Checks!Sound /\ "unverifiable" \in check.statuses =>
                           \/ ~ Checks!Client \/ check.troubled
                           \/ appliedAs.at \notin UNION Checks!Ranges(check.head)
                     /\ checkPage = "service" /\ ~ late => Checks!BuildProved
  BY Zenon DEF Checks!VerdictRight
<1>1. Checks!Sound => SoundAt(check)
  BY DEF Checks!Sound, SoundAt
<1>2. NoFalseAlarm(check) /\ DoubtGrounded(check)
  BY DEF ChecksHeld, CheckHeld
<1>3. Checks!Sound /\ ~ check.troubled => "fail" \notin check.statuses
  BY <1>1, <1>2 DEF NoFalseAlarm
<1>4. Checks!Sound /\ "unverifiable" \in check.statuses =>
         \/ ~ Checks!Client \/ check.troubled
         \/ appliedAs.at \notin UNION Checks!Ranges(check.head)
  BY <1>1, <1>2 DEF DoubtGrounded, Unread
<1>5. checkPage = "service" /\ ~ late => Checks!BuildProved
  BY BuiltProved
<1>. QED
  BY <1>3, <1>4, <1>5, VerdictAgreed

\* A check that ends with nothing found has looked at what was agreed, signed
\* as far as its stage asks and applied if it is said to be; it finds nothing
\* wrong with a certificate that nothing is wrong with, and leaves it open only
\* where no node was asked, a read failed, or its event lies outside what was
\* searched; and buildCertificate refuses what the verifier would, and nothing
\* else.  For every loop that can be netted, every set of smart accounts, and
\* however the ranges that are searched are laid out.
THEOREM VerdictCorrect == PagesSpec => []VerdictRight
<1>1. PagesInit => (part = "checks" => ChecksHeld)
  BY ChecksInit DEF PagesInit
<1>2. (part = "checks" => ChecksHeld) /\ [PagesNext]_<<part, pagesVars>>
         => (part = "checks" => ChecksHeld)'
  <2>1. ASSUME part = "checks" => ChecksHeld, UNCHANGED <<part, pagesVars>>
        PROVE  (part = "checks" => ChecksHeld)'
    <3>1. part' = part /\ UNCHANGED checksVars
      BY <2>1 DEF pagesVars
    <3>. QED
      BY <2>1, <3>1, ChecksStutter
  <2>2. ASSUME part = "checks" => ChecksHeld, PagesNext
        PROVE  (part = "checks" => ChecksHeld)'
    <3>1. part' = part /\ (part = "checks" => Checks!Next)
      BY <2>2 DEF PagesNext
    <3>. QED
      BY <2>2, <3>1, ChecksStep
  <2>. QED
    BY <2>1, <2>2
<1>3. (part = "checks" => ChecksHeld) => VerdictRight
  BY ChecksRight DEF VerdictRight
<1>. QED
  BY <1>1, <1>2, <1>3, PTL DEF PagesSpec
=============================================================================
