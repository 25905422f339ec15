-------------------------------- MODULE Pages --------------------------------
(***************************************************************************)
(* The pages that keep to themselves, side by side: signing in, the pages  *)
(* that have a wallet send, those that show what one party may see, the    *)
(* balance page, and the check of a certificate.                           *)
(***************************************************************************)
EXTENDS Parts

CONSTANTS
    \* signing in (see SignIn)
    Accounts, MaxAttempts, NoAccount,
    \* a wallet that sends (see WalletPages)
    MaxWrites,
    \* what one party may see (see PrivateViews)
    Viewers, MaxLoads, NoViewer,
    \* the balance page (see GatewayPanels)
    MaxOps,
    \* the check of a certificate (see CertificateCheck)
    CheckedLoop, CheckedNet, SmartAccounts, Me, MaxHeight, FloorBlock, FloorChunk, MaxChunks,
    Lookback, LookbackChunk

ASSUME PagesAssumption ==
    /\ MaxAttempts \in Nat /\ MaxWrites \in Nat /\ MaxLoads \in Nat /\ MaxOps \in Nat

VARIABLES
    buttons, menuOpen, shown, pendingRef, completingRef, attemptRef, attempts,
    login, mounted, cookie
tabsVars ==
    <<buttons, menuOpen, shown, pendingRef, completingRef, attemptRef,
    attempts, login, mounted, cookie>>
Tabs == INSTANCE SignIn WITH phase <- buttons

VARIABLES
    walletPage, phase, handler, writes, loadedAt, txs, hashes, record
walletVars ==
    <<walletPage, phase, handler, writes, loadedAt, txs, hashes, record>>
Wallet == INSTANCE WalletPages WITH page <- walletPage

VARIABLES viewPage, session, loads, started, stage, loadedFor, content
viewsVars ==
    <<viewPage, session, loads, started, stage, loadedFor, content>>
Views == INSTANCE PrivateViews WITH page <- viewPage

VARIABLES ops, asked, told, records, handlers, gatewayConfirmed
panelsVars == <<ops, asked, told, records, handlers, gatewayConfirmed>>
Panels == INSTANCE GatewayPanels WITH confirmed <- gatewayConfirmed

VARIABLES
    block, appliedAs, superseded, late, rowStatus, allSigned, checkPage, file,
    check
checksVars ==
    <<block, appliedAs, superseded, late, rowStatus, allSigned, checkPage,
    file, check>>
Checks == INSTANCE CertificateCheck WITH
    Loop <- CheckedLoop, Net <- CheckedNet, Contracts <- SmartAccounts, Chunk <- LookbackChunk,
    height <- block, applied <- appliedAs, status <- rowStatus, page <- checkPage

ASSUME ChecksAssumption == Checks!ConstantsAssumption

pagesVars == <<tabsVars, walletVars, viewsVars, panelsVars, checksVars>>

PagesInit ==
    /\ \/ part = "signing in" /\ Tabs!Init
       \/ part # "signing in" /\ Unused(buttons) /\ Unused(menuOpen) /\ Unused(shown)
          /\ Unused(pendingRef) /\ Unused(completingRef) /\ Unused(attemptRef) /\ Unused(attempts)
          /\ Unused(login) /\ Unused(mounted) /\ Unused(cookie)
    /\ \/ part = "wallet" /\ Wallet!Init
       \/ part # "wallet" /\ Unused(walletPage) /\ Unused(phase) /\ Unused(handler)
          /\ Unused(writes) /\ Unused(loadedAt) /\ Unused(txs) /\ Unused(hashes) /\ Unused(record)
    /\ \/ part = "views" /\ Views!Init
       \/ part # "views" /\ Unused(viewPage) /\ Unused(session) /\ Unused(loads)
          /\ Unused(started) /\ Unused(stage) /\ Unused(loadedFor) /\ Unused(content)
    /\ \/ part = "gateway" /\ Panels!Init
       \/ part # "gateway" /\ Unused(ops) /\ Unused(asked) /\ Unused(told) /\ Unused(records)
          /\ Unused(handlers) /\ Unused(gatewayConfirmed)
    /\ \/ part = "checks" /\ Checks!Init
       \/ part # "checks" /\ Unused(block) /\ Unused(appliedAs) /\ Unused(superseded)
          /\ Unused(late) /\ Unused(rowStatus) /\ Unused(allSigned) /\ Unused(checkPage)
          /\ Unused(file) /\ Unused(check)

PagesNext ==
    /\ UNCHANGED part
    /\ \/ part = "signing in" /\ Tabs!Next
       \/ part = "wallet" /\ Wallet!Next
       \/ part = "views" /\ Views!Next
       \/ part = "gateway" /\ Panels!Next
       \/ part = "checks" /\ Checks!Next
    /\ IF part = "signing in" THEN TRUE ELSE UNCHANGED tabsVars
    /\ IF part = "wallet" THEN TRUE ELSE UNCHANGED walletVars
    /\ IF part = "views" THEN TRUE ELSE UNCHANGED viewsVars
    /\ IF part = "gateway" THEN TRUE ELSE UNCHANGED panelsVars
    /\ IF part = "checks" THEN TRUE ELSE UNCHANGED checksVars

PagesSpec == PagesInit /\ [][PagesNext]_<<part, pagesVars>>

-----------------------------------------------------------------------------
\* Each property is stated, and its code behaviour described, in the module of
\* the part.

\* completingRef is set only while a live attempt runs (see SignIn).
CompletingIsLive == part = "signing in" => Tabs!CompletingIsLive

\* A page does not ask the wallet twice (see WalletPages).
NotAskedTwice == part = "wallet" => Wallet!NotAskedTwice

\* A page shows its viewer's own payload (see PrivateViews).
OwnInvoiceShown == part = "views" => Views!OwnInvoiceShown

\* No deposit or move is submitted again (see GatewayPanels).
NoSecondSubmission == part = "gateway" => Panels!NoSecondSubmission

\* A check of a certificate says of it what is so, or that it cannot tell (see
\* CertificateCheck).
VerdictRight == part = "checks" => Checks!VerdictRight
=============================================================================
