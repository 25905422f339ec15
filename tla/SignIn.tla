------------------------------- MODULE SignIn --------------------------------
(***************************************************************************)
(* Signing in, in one tab: the dialog, Privy's login, and the attempts     *)
(* that follow it.  An attempt waits for wallets, prompts and the server,  *)
(* and may be started over while it waits; what it does afterwards is part *)
(* of the model.  The refs of the provider are variables of their own.     *)
(***************************************************************************)
EXTENDS Naturals

CONSTANTS
    Accounts,       \* accounts a person logs in with
    MaxAttempts,    \* bound on the attempts, started or abandoned
    NoAccount

VARIABLES
    phase,          \* what the buttons show
    menuOpen,       \* the sign-in dialog
    shown,          \* the session's address as the tab knows it
    pendingRef,     \* the person has asked to sign in
    completingRef,  \* an attempt runs
    attemptRef,     \* the number of the latest attempt
    attempts,       \* where each attempt waits, and for which account
    login,          \* where Privy's login is
    mounted,        \* the first whoAmI has answered
    cookie          \* the account of the browser's session cookie

tab == <<phase, menuOpen, shown>>
refs == <<pendingRef, completingRef, attemptRef>>
signInVars == <<phase, menuOpen, shown, pendingRef, completingRef, attemptRef, attempts, login, mounted, cookie>>

NotStarted == [at |-> "none", account |-> NoAccount]
Fresh == [n \in 1..MaxAttempts |-> NotStarted]

Init ==
    /\ phase = "idle" /\ menuOpen = FALSE /\ shown = NoAccount
    /\ pendingRef = FALSE /\ completingRef = FALSE /\ attemptRef = 0
    /\ attempts = Fresh /\ login = "none" /\ mounted = FALSE
    /\ cookie = NoAccount

Running(n) == attempts[n].at \notin {"none", "over"}
Current(n) == attemptRef = n
Go(n, place) == attempts' = [attempts EXCEPT ![n].at = place]

\* A tab that knows its session shows no dialog to sign in with.
MayAsk == shown = NoAccount

-----------------------------------------------------------------------------
\* The dialog and Privy.
OpenMenu == MayAsk /\ menuOpen' = TRUE /\ UNCHANGED <<phase, shown, refs, attempts, login, mounted, cookie>>
CloseMenu == menuOpen /\ menuOpen' = FALSE /\ UNCHANGED <<phase, shown, refs, attempts, login, mounted, cookie>>

StartWallet ==
    /\ MayAsk /\ menuOpen
    /\ pendingRef' = TRUE /\ phase' = "connecting" /\ menuOpen' = FALSE
    /\ login' = "loading"
    /\ UNCHANGED <<shown, completingRef, attemptRef, attempts, mounted, cookie>>

SendEmailCode ==
    /\ MayAsk /\ menuOpen /\ phase \notin {"connecting", "signing"}
    /\ pendingRef' = TRUE /\ phase' = "connecting"
    /\ login' = "mailing"
    /\ UNCHANGED <<menuOpen, shown, completingRef, attemptRef, attempts, mounted, cookie>>

\* Privy is ready and asks the wallet, or has mailed a code ...
LoginAsked ==
    /\ \/ login = "loading" /\ login' = "wallet" /\ phase' = phase
       \/ login = "mailing" /\ login' = "mailed" /\ phase' = "idle"
    /\ UNCHANGED <<menuOpen, shown, refs, attempts, mounted, cookie>>

SubmitEmailCode ==
    /\ MayAsk /\ menuOpen /\ login = "mailed" /\ phase \notin {"connecting", "signing"}
    /\ pendingRef' = TRUE /\ phase' = "signing" /\ login' = "code"
    /\ UNCHANGED <<menuOpen, shown, completingRef, attemptRef, attempts, mounted, cookie>>

\* ... or any of it fails: the wallet dialog is closed, the code is wrong.
LoginFails ==
    /\ login \in {"loading", "mailing", "wallet", "code"}
    /\ pendingRef' = FALSE
    /\ phase' = IF login = "wallet" THEN "idle" ELSE "error"
    /\ login' = IF login = "code" THEN "mailed" ELSE "none"
    /\ UNCHANGED <<menuOpen, shown, completingRef, attemptRef, attempts, mounted, cookie>>

\* complete: nothing while an attempt runs, and an attempt of its own otherwise.
Complete(account) ==
    /\ login \in {"wallet", "code"} /\ login' = "none"
    /\ IF pendingRef /\ ~completingRef
       THEN /\ attemptRef < MaxAttempts
            /\ completingRef' = TRUE
            /\ attemptRef' = attemptRef + 1
            /\ attempts' = [attempts EXCEPT ![attemptRef + 1] = [at |-> "picking", account |-> account]]
            /\ phase' = "signing"
       ELSE UNCHANGED <<completingRef, attemptRef, attempts, phase>>
    /\ UNCHANGED <<menuOpen, shown, pendingRef, mounted, cookie>>

Cancel ==
    /\ phase \in {"connecting", "signing"}
    /\ attemptRef < MaxAttempts /\ attemptRef' = attemptRef + 1
    /\ completingRef' = FALSE /\ pendingRef' = FALSE
    /\ phase' = "idle" /\ menuOpen' = TRUE
    /\ UNCHANGED <<shown, attempts, login, mounted, cookie>>

-----------------------------------------------------------------------------
\* An attempt after each await.  The finally of complete, whatever ended it:
FinishAlways(n) == Go(n, "over") /\ completingRef' = FALSE /\ pendingRef' = FALSE /\ UNCHANGED attemptRef

Finish(n) ==
    /\ Go(n, "over")
    /\ IF Current(n) THEN completingRef' = FALSE /\ pendingRef' = FALSE ELSE UNCHANGED <<completingRef, pendingRef>>
    /\ UNCHANGED attemptRef

ShowSignedIn(account) == shown' = account /\ phase' = "signed-in" /\ menuOpen' = FALSE

\* The signing wallet is picked, created or waited for, and made the active one.
PickWallet(n) ==
    /\ attempts[n].at = "picking" /\ Go(n, "attached")
    /\ UNCHANGED <<tab, refs, login, mounted, cookie>>

\* No wallet, no nonce, a prompt refused: the catch, and the early returns
\* with an error.
Fail(n) ==
    /\ Running(n) /\ attempts[n].at # "refused"
    /\ Finish(n) /\ phase' = "error"
    /\ UNCHANGED <<menuOpen, shown, login, mounted, cookie>>

AskWhoAmI(n) ==
    /\ attempts[n].at = "attached"
    /\ IF cookie = attempts[n].account
       THEN Finish(n) /\ ShowSignedIn(cookie)
       ELSE Go(n, "prompted") /\ UNCHANGED <<tab, refs>>
    /\ UNCHANGED <<login, mounted, cookie>>

Signed(n) ==
    /\ attempts[n].at = "prompted"
    /\ IF Current(n) THEN Go(n, "sent") /\ UNCHANGED refs ELSE Finish(n)
    /\ UNCHANGED <<tab, login, mounted, cookie>>

\* The server sets the cookie with its answer, or refuses.
ServerSignIn(n) ==
    /\ attempts[n].at = "sent"
    /\ \/ Go(n, "accepted") /\ cookie' = attempts[n].account
       \/ Go(n, "refused") /\ UNCHANGED cookie
    /\ UNCHANGED <<tab, refs, login, mounted>>

Answered(n) ==
    /\ attempts[n].at \in {"accepted", "refused"}
    /\ Finish(n)
    /\ IF ~Current(n) THEN UNCHANGED tab
       ELSE IF attempts[n].at = "refused" THEN phase' = "error" /\ UNCHANGED <<menuOpen, shown>>
       ELSE ShowSignedIn(attempts[n].account)
    /\ UNCHANGED <<login, mounted, cookie>>

-----------------------------------------------------------------------------
\* The first whoAmI of the tab, and signing out, after which the tab is loaded
\* anew.
Mounted ==
    /\ ~mounted /\ mounted' = TRUE
    /\ IF cookie # NoAccount THEN shown' = cookie /\ phase' = "signed-in" ELSE UNCHANGED <<shown, phase>>
    /\ UNCHANGED <<menuOpen, refs, attempts, login, cookie>>

SignOut ==
    /\ shown # NoAccount
    /\ cookie' = NoAccount
    /\ phase' = "idle" /\ menuOpen' = TRUE /\ shown' = NoAccount
    /\ pendingRef' = FALSE /\ completingRef' = FALSE /\ attemptRef' = 0
    /\ attempts' = Fresh /\ login' = "none" /\ mounted' = FALSE

Next ==
    \/ OpenMenu \/ CloseMenu \/ StartWallet \/ SendEmailCode \/ LoginAsked \/ SubmitEmailCode \/ LoginFails
    \/ \E account \in Accounts : Complete(account)
    \/ Cancel \/ Mounted \/ SignOut
    \/ \E n \in 1..MaxAttempts :
         PickWallet(n) \/ Fail(n) \/ AskWhoAmI(n) \/ Signed(n) \/ ServerSignIn(n) \/ Answered(n)

-----------------------------------------------------------------------------
\* The provider believes an attempt is running exactly while its latest one
\* runs: an abandoned attempt that ends late neither lets a third begin beside
\* the second, nor leaves the button dead (complete returns at once while
\* completingRef is set, and the finally of a stale attempt leaves the refs).
CompletingIsLive == completingRef <=> \E n \in 1..MaxAttempts : Current(n) /\ Running(n)

=============================================================================
