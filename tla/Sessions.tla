------------------------------ MODULE Sessions -------------------------------
(***************************************************************************)
(* Sign-in and sign-out on the server: nonces that are issued and consumed *)
(* in Redis, sign-in requests that verify a signed message, possibly one   *)
(* message twice at once, session tokens that need no store, and the list  *)
(* of those signed out.  Redis may fail any call.  A copy of a cookie may  *)
(* be presented at any time.                                               *)
(***************************************************************************)
EXTENDS Naturals, FiniteSets

CONSTANTS
    Nonces,         \* nonces to be issued, each put in one signed message
    SignIns,        \* sign-in requests
    NonceTTL, MessageTTL, SessionTTL,   \* lifetimes of what each issues
    EndOfTime       \* bound on the clock

VARIABLES
    now,
    nonces,         \* nonces kept: when each is forgotten, 0 when not kept
    expiries,       \* when the message with each nonce expires, 0 unsigned
    signIns,        \* the requests that run
    tokens,         \* the tokens created: nonce, request and expiry
    revoked,        \* the list of tokens signed out
    reported        \* tokens whose owner was told of the sign-out

sessionVars == <<now, nonces, expiries, signIns, tokens, revoked, reported>>

Init ==
    /\ now = 1
    /\ nonces = [n \in Nonces |-> 0]
    /\ expiries = [n \in Nonces |-> 0]
    /\ signIns = [r \in SignIns |-> [at |-> "idle", nonce |-> CHOOSE n \in Nonces : TRUE]]
    /\ tokens = {} /\ revoked = {} /\ reported = {}

Go(r, place) == signIns' = [signIns EXCEPT ![r].at = place]

-----------------------------------------------------------------------------
Kept(n) == now < nonces[n]

issueNonce(n) ==
    /\ expiries[n] = 0
    /\ nonces' = [nonces EXCEPT ![n] = now + NonceTTL]
    /\ expiries' = [expiries EXCEPT ![n] = now + MessageTTL]
    /\ UNCHANGED <<now, signIns, tokens, revoked, reported>>

\* verifySignIn, before it consumes the nonce.
Present(r, n) ==
    /\ signIns[r].at = "idle" /\ expiries[n] # 0
    /\ signIns' = [signIns EXCEPT ![r] = [at |-> IF now > expiries[n] THEN "over" ELSE "fresh", nonce |-> n]]
    /\ UNCHANGED <<now, nonces, expiries, tokens, revoked, reported>>

\* GETDEL, and reading the nonce without deleting it.
ReadNonce(r) ==
    /\ signIns[r].at = "fresh"
    /\ Go(r, IF Kept(signIns[r].nonce) THEN "consumed" ELSE "over")
    /\ UNCHANGED <<now, nonces, expiries, tokens, revoked, reported>>

consumeNonce(r) ==
    /\ signIns[r].at = "fresh"
    /\ Go(r, IF Kept(signIns[r].nonce) THEN "consumed" ELSE "over")
    /\ nonces' = [nonces EXCEPT ![signIns[r].nonce] = 0]
    /\ UNCHANGED <<now, expiries, tokens, revoked, reported>>

\* The signature recovers to the address of the message, and the session is
\* signed; or it does not, or a call has failed.
signIn(r) ==
    /\ signIns[r].at = "consumed"
    /\ Go(r, "over")
    /\ tokens' = tokens \union {[nonce |-> signIns[r].nonce, by |-> r, expiresAt |-> now + SessionTTL]}
    /\ UNCHANGED <<now, nonces, expiries, revoked, reported>>

Refuse(r) ==
    /\ signIns[r].at \in {"fresh", "consumed"} /\ Go(r, "over")
    /\ UNCHANGED <<now, nonces, expiries, tokens, revoked, reported>>

-----------------------------------------------------------------------------
verifySessionToken(t) == now <= t.expiresAt

\* An entry of the list is kept until the token would have expired.
isSessionRevoked(t) == \E entry \in revoked : entry.token = t /\ now < entry.until

\* getSession, with the list read or not.
getSession(t, listRead) == verifySessionToken(t) /\ listRead /\ ~isSessionRevoked(t)

revokeSession(t) ==
    IF now < t.expiresAt
    THEN revoked' = revoked \union {[token |-> t, until |-> t.expiresAt]}
    ELSE UNCHANGED revoked

\* A sign-out that trusts a failed revocation, and the one of the code: the
\* cookie is kept, and the caller told, when the revocation was not recorded.
TrustingSignOut(t) ==
    /\ \/ revokeSession(t)
       \/ UNCHANGED revoked
    /\ reported' = reported \union {t}
    /\ UNCHANGED <<now, nonces, expiries, signIns, tokens>>

signOut(t) ==
    /\ IF verifySessionToken(t) THEN revokeSession(t) ELSE UNCHANGED revoked
    /\ reported' = reported \union {t}
    /\ UNCHANGED <<now, nonces, expiries, signIns, tokens>>

Tick == now < EndOfTime /\ now' = now + 1 /\ UNCHANGED <<nonces, expiries, signIns, tokens, revoked, reported>>

Next ==
    \/ Tick
    \/ \E n \in Nonces : issueNonce(n)
    \/ \E r \in SignIns, n \in Nonces : Present(r, n)
    \/ \E r \in SignIns : consumeNonce(r) \/ signIn(r) \/ Refuse(r)
    \/ \E t \in tokens : signOut(t)

-----------------------------------------------------------------------------
\* signIn, consumeNonce, signOut, getSession.  A signed message is good for one
\* session while the nonce in it is kept, however often and however close
\* together it is presented ("two concurrent requests bearing the same valid
\* signed message can't both pass"); and once its owner has been told of the
\* sign-out, the token answers to no copy of the cookie until it would have
\* expired, whether the list can be read or not.  (At the very millisecond of
\* its expiry a token still verifies and is no longer listed.)
OneSessionUntilItsEnd ==
    /\ \A s, t \in tokens : s.nonce = t.nonce => s = t
    /\ \A t \in reported, listRead \in BOOLEAN : getSession(t, listRead) => now = t.expiresAt
=============================================================================
