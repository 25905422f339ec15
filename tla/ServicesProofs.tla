--------------------------- MODULE ServicesProofs ---------------------------
(***************************************************************************)
(* Theorems about the services that keep to themselves. Each part has an   *)
(* inductive invariant of its own; the parts that were not chosen do not   *)
(* move.                                                                   *)
(***************************************************************************)
EXTENDS Services, Integers, Sequences, FiniteSets, FiniteSetTheorems,
        SequenceTheorems, Sums, TLAPS

-----------------------------------------------------------------------------
(* The invoice pipeline.                                                   *)

\* A funding that has not burned yet is the only one that may go on to burn,
\* and what it lands was chosen when the run knew what the settlement netted.
PipelineHeld ==
    /\ burns \in Nat /\ minted \in Nat
    /\ at \in {"registering", "settled", "depositing", "polling", "spending"} => burns = 0
    /\ at = "stopped" /\ recovery = "await_balance" => burns = 0
    /\ at = "registering" => netted = {}
    /\ at \in {"registering", "settled"} => funded = {}
    /\ status = "settled" => netted = loop
    /\ status = "no_cycle" => netted = {}
    /\ Pipelines!FundedOnce

LEMMA PipelineStep ==
    ASSUME PipelineHeld, Pipelines!Next
    PROVE  PipelineHeld'
<1>. USE DEF PipelineHeld, Pipelines!FundedOnce, Pipelines!settled, Pipelines!money, Pipelines!Stop
<1>1. CASE Pipelines!Register
  BY <1>1 DEF Pipelines!Register
<1>2. CASE Pipelines!Settle
  BY <1>2 DEF Pipelines!Settle
<1>3. CASE Pipelines!Fund
  BY <1>3 DEF Pipelines!Fund, Pipelines!Fundable, Pipelines!Dangling
<1>4. CASE Pipelines!Deposit
  BY <1>4 DEF Pipelines!Deposit
<1>5. CASE Pipelines!PollFailed \/ Pipelines!Polled
  BY <1>5 DEF Pipelines!PollFailed, Pipelines!Polled
<1>6. CASE Pipelines!Spend
  BY <1>6 DEF Pipelines!Spend
<1>7. CASE Pipelines!Mint
  BY <1>7 DEF Pipelines!Mint
<1>8. CASE Pipelines!ResumeFunding \/ Pipelines!ResumeMint
  BY <1>8 DEF Pipelines!ResumeFunding, Pipelines!ResumeMint, Pipelines!Resume
<1>9. CASE Pipelines!Confirm
  BY <1>9 DEF Pipelines!Confirm
<1>. QED
  BY <1>1, <1>2, <1>3, <1>4, <1>5, <1>6, <1>7, <1>8, <1>9 DEF Pipelines!Next

\* Whatever fails and is resumed, Circle is asked for one transfer only and at
\* most one is delivered, and it is for invoices that no settlement reached.
THEOREM PipelineCorrect == ServicesSpec => []FundedOnce
<1>1. ServicesInit => (part = "pipeline" => PipelineHeld)
  BY DEF ServicesInit, Pipelines!Init, PipelineHeld, Pipelines!FundedOnce
<1>2. (part = "pipeline" => PipelineHeld) /\ [ServicesNext]_<<part, servicesVars>>
         => (part = "pipeline" => PipelineHeld)'
  <2>1. ASSUME part = "pipeline" => PipelineHeld, UNCHANGED <<part, servicesVars>>
        PROVE  (part = "pipeline" => PipelineHeld)'
    BY <2>1 DEF servicesVars, pipelinesVars, PipelineHeld, Pipelines!FundedOnce
  <2>2. ASSUME part = "pipeline" => PipelineHeld, ServicesNext
        PROVE  (part = "pipeline" => PipelineHeld)'
    BY <2>2, PipelineStep DEF ServicesNext
  <2>. QED
    BY <2>1, <2>2
<1>3. (part = "pipeline" => PipelineHeld) => FundedOnce
  BY DEF FundedOnce, PipelineHeld
<1>. QED
  BY <1>1, <1>2, <1>3, PTL DEF ServicesSpec

-----------------------------------------------------------------------------
(* Sessions.                                                               *)

Consumed(r) == signIns[r].at = "consumed"

\* A nonce that a request has consumed, or that a token was given for, is not
\* kept and is not issued again; so no second request consumes it.
NoncesHeld ==
    /\ \A r \in SignIns : Consumed(r) =>
          /\ nonces[signIns[r].nonce] = 0 /\ expiries[signIns[r].nonce] # 0
          /\ \A q \in SignIns : Consumed(q) /\ signIns[q].nonce = signIns[r].nonce => q = r
          /\ \A t \in tokens : t.nonce # signIns[r].nonce
    /\ \A r \in SignIns : signIns[r].at = "fresh" => expiries[signIns[r].nonce] # 0
    /\ \A t \in tokens : t.nonce \in Nonces /\ nonces[t.nonce] = 0 /\ expiries[t.nonce] # 0
    /\ \A s, t \in tokens : s.nonce = t.nonce => s = t

\* The owner of a token was told of the sign-out only when the token was listed
\* for as long as it would have lasted.
ListHeld ==
    \A t \in reported :
        \/ clock >= t.expiresAt
        \/ \E entry \in revoked : entry.token = t /\ entry.until = t.expiresAt

SignInPlaces == {"idle", "fresh", "consumed", "over"}
SessionsHeld ==
    /\ clock \in Nat \ {0}
    /\ nonces \in [Nonces -> Nat] /\ expiries \in [Nonces -> Nat]
    /\ signIns \in [SignIns -> [at : SignInPlaces, nonce : Nonces]]
    /\ \A t \in tokens : t.expiresAt \in Nat
    /\ \A t \in reported : t \in tokens
    /\ NoncesHeld
    /\ ListHeld

LEMMA SessionsInit ==
    ASSUME Signed!Init
    PROVE  SessionsHeld
BY ServicesAssumption DEF Signed!Init, SessionsHeld, SignInPlaces, NoncesHeld, ListHeld, Consumed

\* One request moves on.
LEMMA RequestMoves ==
    ASSUME SessionsHeld, NEW r \in SignIns, NEW place \in SignInPlaces, Signed!Go(r, place)
    PROVE  /\ signIns' \in [SignIns -> [at : SignInPlaces, nonce : Nonces]]
           /\ signIns'[r].at = place /\ signIns'[r].nonce = signIns[r].nonce
           /\ signIns[r].nonce \in Nonces
           /\ \A q \in SignIns \ {r} : signIns'[q] = signIns[q]
<1>1. PICK old : old = signIns[r]
  OBVIOUS
<1>2. PICK new : new = [old EXCEPT !.at = place]
  OBVIOUS
<1>3. signIns' = [signIns EXCEPT ![r] = new]
  BY <1>1, <1>2 DEF Signed!Go
<1>4. old \in [at : SignInPlaces, nonce : Nonces]
  BY <1>1 DEF SessionsHeld
<1>5. new \in [at : SignInPlaces, nonce : Nonces] /\ new.at = place /\ new.nonce = old.nonce
  BY <1>2, <1>4
<1>. QED
  BY <1>1, <1>3, <1>4, <1>5 DEF SessionsHeld

LEMMA SessionsStep ==
    ASSUME SessionsHeld, Signed!Next
    PROVE  SessionsHeld'
<1>1. CASE Signed!Tick
  <2>1. clock' = clock + 1 /\ UNCHANGED <<nonces, expiries, signIns, tokens, revoked, reported>>
    BY <1>1 DEF Signed!Tick
  <2>2. ListHeld'
    BY <2>1 DEF ListHeld, SessionsHeld
  <2>. QED
    BY <2>1, <2>2 DEF SessionsHeld, NoncesHeld, Consumed
<1>2. ASSUME NEW n \in Nonces, Signed!issueNonce(n)
      PROVE  SessionsHeld'
  <2>1. PICK kept, until : kept = clock + NonceTTL /\ until = clock + MessageTTL
    OBVIOUS
  <2>2. kept \in Nat /\ until \in Nat /\ until # 0
    BY ServicesAssumption, <2>1 DEF SessionsHeld
  <2>3. /\ expiries[n] = 0 /\ nonces' = [nonces EXCEPT ![n] = kept]
        /\ expiries' = [expiries EXCEPT ![n] = until]
        /\ UNCHANGED <<clock, signIns, tokens, revoked, reported>>
    BY <1>2, <2>1 DEF Signed!issueNonce
  <2>4. /\ nonces' \in [Nonces -> Nat] /\ expiries' \in [Nonces -> Nat] /\ expiries'[n] # 0
        /\ \A m \in Nonces \ {n} : nonces'[m] = nonces[m] /\ expiries'[m] = expiries[m]
    BY <2>2, <2>3 DEF SessionsHeld
  <2>5. \A r \in SignIns : signIns[r].nonce \in Nonces
    BY DEF SessionsHeld
  <2>6. NoncesHeld'
    BY <2>3, <2>4, <2>5 DEF SessionsHeld, NoncesHeld, Consumed
  <2>. QED
    BY <2>3, <2>4, <2>6 DEF SessionsHeld, ListHeld
<1>3. ASSUME NEW r \in SignIns, NEW n \in Nonces, Signed!Present(r, n)
      PROVE  SessionsHeld'
  <2>1. PICK place \in {"over", "fresh"} : place = IF clock > expiries[n] THEN "over" ELSE "fresh"
    OBVIOUS
  <2>2. PICK new : new = [at |-> place, nonce |-> n]
    OBVIOUS
  <2>3. /\ expiries[n] # 0 /\ signIns' = [signIns EXCEPT ![r] = new]
        /\ UNCHANGED <<clock, nonces, expiries, tokens, revoked, reported>>
    BY <1>3, <2>1, <2>2 DEF Signed!Present
  <2>4. new \in [at : SignInPlaces, nonce : Nonces] /\ new.at # "consumed" /\ new.nonce = n
    BY <2>1, <2>2 DEF SignInPlaces
  <2>5. /\ signIns' \in [SignIns -> [at : SignInPlaces, nonce : Nonces]] /\ signIns'[r] = new
        /\ \A q \in SignIns \ {r} : signIns'[q] = signIns[q]
    BY <2>3, <2>4 DEF SessionsHeld
  <2>6. NoncesHeld'
    BY <2>3, <2>4, <2>5 DEF SessionsHeld, NoncesHeld, Consumed
  <2>. QED
    BY <2>3, <2>5, <2>6 DEF SessionsHeld, ListHeld
<1>4. ASSUME NEW r \in SignIns, Signed!consumeNonce(r)
      PROVE  SessionsHeld'
  <2>1. PICK n : n = signIns[r].nonce
    OBVIOUS
  <2>2. PICK place \in SignInPlaces : place = IF Signed!Kept(n) THEN "consumed" ELSE "over"
    BY DEF SignInPlaces
  <2>3. /\ signIns[r].at = "fresh" /\ Signed!Go(r, place)
        /\ nonces' = [nonces EXCEPT ![n] = 0]
        /\ UNCHANGED <<clock, expiries, tokens, revoked, reported>>
    BY <1>4, <2>1, <2>2 DEF Signed!consumeNonce
  <2>4. /\ signIns' \in [SignIns -> [at : SignInPlaces, nonce : Nonces]]
        /\ signIns'[r].at = place /\ signIns'[r].nonce = n /\ n \in Nonces
        /\ \A q \in SignIns \ {r} : signIns'[q] = signIns[q]
    BY <2>1, <2>3, RequestMoves
  <2>5. /\ nonces' \in [Nonces -> Nat] /\ nonces'[n] = 0
        /\ \A m \in Nonces \ {n} : nonces'[m] = nonces[m]
    BY <2>3, <2>4 DEF SessionsHeld
  <2>6. place = "consumed" => /\ \A q \in SignIns : Consumed(q) => signIns[q].nonce # n
                              /\ \A t \in tokens : t.nonce # n
    <3>1. place = "consumed" => nonces[n] # 0
      BY <2>2, <2>4 DEF Signed!Kept, SessionsHeld
    <3>. QED
      BY <3>1 DEF SessionsHeld, NoncesHeld
  <2>7. expiries[n] # 0
    BY <2>1, <2>3 DEF SessionsHeld, NoncesHeld
  <2>8. \A q \in SignIns : signIns[q].nonce \in Nonces
    BY DEF SessionsHeld
  <2>9. NoncesHeld'
    BY <2>3, <2>4, <2>5, <2>6, <2>7, <2>8 DEF SessionsHeld, NoncesHeld, Consumed
  <2>. QED
    BY <2>3, <2>4, <2>5, <2>9 DEF SessionsHeld, ListHeld
<1>5. ASSUME NEW r \in SignIns, Signed!signIn(r)
      PROVE  SessionsHeld'
  <2>1. PICK n, until : n = signIns[r].nonce /\ until = clock + SessionTTL
    OBVIOUS
  <2>2. PICK new : new = [nonce |-> n, by |-> r, expiresAt |-> until]
    OBVIOUS
  <2>3. /\ Consumed(r) /\ Signed!Go(r, "over") /\ tokens' = tokens \cup {new}
        /\ UNCHANGED <<clock, nonces, expiries, revoked, reported>>
    BY <1>5, <2>1, <2>2 DEF Signed!signIn, Consumed
  <2>4. /\ signIns' \in [SignIns -> [at : SignInPlaces, nonce : Nonces]]
        /\ signIns'[r].at = "over" /\ n \in Nonces
        /\ \A q \in SignIns \ {r} : signIns'[q] = signIns[q]
    BY <2>1, <2>3, RequestMoves DEF SignInPlaces
  <2>5. /\ nonces[n] = 0 /\ expiries[n] # 0 /\ \A t \in tokens : t.nonce # n
        /\ \A q \in SignIns \ {r} : Consumed(q) => signIns[q].nonce # n
    BY <2>1, <2>3 DEF SessionsHeld, NoncesHeld
  <2>6. new.nonce = n /\ new.expiresAt \in Nat
    BY ServicesAssumption, <2>1, <2>2 DEF SessionsHeld
  <2>7. NoncesHeld'
    BY <2>3, <2>4, <2>5, <2>6 DEF SessionsHeld, NoncesHeld, Consumed
  <2>. QED
    BY <2>3, <2>4, <2>6, <2>7 DEF SessionsHeld, ListHeld
<1>6. ASSUME NEW r \in SignIns, Signed!Refuse(r)
      PROVE  SessionsHeld'
  <2>1. Signed!Go(r, "over") /\ UNCHANGED <<clock, nonces, expiries, tokens, revoked, reported>>
    BY <1>6 DEF Signed!Refuse
  <2>2. /\ signIns' \in [SignIns -> [at : SignInPlaces, nonce : Nonces]]
        /\ signIns'[r].at = "over"
        /\ \A q \in SignIns \ {r} : signIns'[q] = signIns[q]
    BY <2>1, RequestMoves DEF SignInPlaces
  <2>3. NoncesHeld'
    BY <2>1, <2>2 DEF SessionsHeld, NoncesHeld, Consumed
  <2>. QED
    BY <2>1, <2>2, <2>3 DEF SessionsHeld, ListHeld
<1>7. ASSUME NEW t \in tokens, Signed!signOut(t)
      PROVE  SessionsHeld'
  <2>1. /\ reported' = reported \cup {t}
        /\ UNCHANGED <<clock, nonces, expiries, signIns, tokens>>
        /\ \A entry \in revoked : entry \in revoked'
    BY <1>7 DEF Signed!signOut, Signed!revokeSession
  <2>2. PICK new : new = [token |-> t, until |-> t.expiresAt]
    OBVIOUS
  <2>3. clock < t.expiresAt => new \in revoked'
    BY <1>7, <2>2 DEF Signed!signOut, Signed!verifySessionToken, Signed!revokeSession, SessionsHeld
  <2>4. clock >= t.expiresAt \/ \E entry \in revoked' : entry.token = t /\ entry.until = t.expiresAt
    <3>1. clock >= t.expiresAt \/ clock < t.expiresAt
      BY DEF SessionsHeld
    <3>2. new.token = t /\ new.until = t.expiresAt
      BY <2>2
    <3>. QED
      BY <2>3, <3>1, <3>2
  <2>5. ListHeld'
    BY <2>1, <2>4 DEF ListHeld, SessionsHeld
  <2>. QED
    BY <2>1, <2>5 DEF SessionsHeld, NoncesHeld, Consumed
<1>. QED
  BY <1>1, <1>2, <1>3, <1>4, <1>5, <1>6, <1>7 DEF Signed!Next

\* A signed message is good for one session, however often and however close
\* together it is presented; and once its owner has been told of the sign-out,
\* a token answers to no copy of the cookie until it would have expired.
THEOREM SessionsCorrect == ServicesSpec => []OneSessionUntilItsEnd
<1>1. ServicesInit => (part = "sessions" => SessionsHeld)
  BY SessionsInit DEF ServicesInit
<1>2. (part = "sessions" => SessionsHeld) /\ [ServicesNext]_<<part, servicesVars>>
         => (part = "sessions" => SessionsHeld)'
  <2>1. ASSUME part = "sessions" => SessionsHeld, UNCHANGED <<part, servicesVars>>
        PROVE  (part = "sessions" => SessionsHeld)'
    BY <2>1 DEF servicesVars, signedVars, SessionsHeld, NoncesHeld, ListHeld, Consumed
  <2>2. ASSUME part = "sessions" => SessionsHeld, ServicesNext
        PROVE  (part = "sessions" => SessionsHeld)'
    BY <2>2, SessionsStep DEF ServicesNext
  <2>. QED
    BY <2>1, <2>2
<1>3. SessionsHeld => Signed!OneSessionUntilItsEnd
  <2>1. SUFFICES ASSUME SessionsHeld
                 PROVE  Signed!OneSessionUntilItsEnd
    OBVIOUS
  <2>2. ASSUME NEW t \in reported, NEW listRead, Signed!getSession(t, listRead)
        PROVE  clock = t.expiresAt
    <3>1. clock <= t.expiresAt /\ ~ Signed!isSessionRevoked(t)
      BY <2>2 DEF Signed!getSession, Signed!verifySessionToken
    <3>2. t.expiresAt \in Nat /\ clock \in Nat
      BY <2>1 DEF SessionsHeld
    <3>3. \A entry \in revoked : entry.token = t => ~ (clock < entry.until)
      BY <3>1 DEF Signed!isSessionRevoked
    <3>4. clock >= t.expiresAt
      BY <2>1, <3>2, <3>3 DEF SessionsHeld, ListHeld
    <3>. QED
      BY <3>1, <3>2, <3>4
  <2>3. \A s, t \in tokens : s.nonce = t.nonce => s = t
    BY <2>1 DEF SessionsHeld, NoncesHeld
  <2>. QED
    BY <2>2, <2>3 DEF Signed!OneSessionUntilItsEnd
<1>. QED
  BY <1>1, <1>2, <1>3, PTL DEF ServicesSpec, OneSessionUntilItsEnd

-----------------------------------------------------------------------------
(* The demo.                                                               *)

DemoPlaces == {"idle", "binding", "inspecting", "proposing", "claiming", "claim sent",
               "broadcasting", "awaiting", "remembering", "recording", "completing",
               "replaying", "rerecording", "ok", "error"}
\* Where an action is after it was given its claim, and once it knows that its
\* operation landed.
AfterClaiming == {"broadcasting", "awaiting", "remembering", "recording", "completing"}
AfterLanding == {"remembering", "recording", "completing", "replaying", "rerecording", "ok"}
DemoPhases == {"idle", "running", "proposing", "readyToSettle", "settling", "done", "settleFailed"}

DemoActions == [at : DemoPlaces, run : Nat, step : 1 .. Demos!Settle,
                on : 1 .. DemoDays, read : SUBSET Nat]

\* What a running action works on is an operation, and one of its own: of the
\* actions about to broadcast no two have the same, and none was broadcast.
ActionsHeld ==
    /\ actions \in [Actions -> DemoActions]
    /\ \A x \in Actions :
          /\ ~ Demos!At(x, "idle") => Demos!Op(x) \in Demos!Operations
          /\ actions[x].on <= day
          /\ actions[x].at \in AfterLanding => Demos!Op(x) \in landed
          /\ actions[x].at \in AfterClaiming => claims[Demos!Op(x)] # "none"
          /\ Demos!At(x, "broadcasting") => broadcasts[Demos!Op(x)] = 0
    /\ \A x, y \in Actions : Demos!At(x, "broadcasting") /\ Demos!At(y, "broadcasting")
                                /\ Demos!Op(x) = Demos!Op(y) => x = y

\* A claim is never given back, so an operation without one was never broadcast.
ClaimsHeld ==
    /\ claims \in [Demos!Operations -> {"none", "pending", "complete"}]
    /\ broadcasts \in [Demos!Operations -> {0, 1}]
    /\ \A o \in Demos!Operations :
          /\ claims[o] = "none" => broadcasts[o] = 0
          /\ claims[o] = "complete" => o \in landed
    /\ \A r \in 1 .. Runs : broadcasts[<<r, Demos!Settle>>] > 0 => Demos!Ring(r) \subseteq landed

PageHeld ==
    /\ demoPage \in [phase : DemoPhases, run : 0 .. Runs, step : Nat, awaits : SUBSET Actions]
    /\ demoPage.phase # "idle" => demoPage.run \in 1 .. Runs
    /\ demoPage.phase = "done" => <<demoPage.run, Demos!Settle>> \in landed
    /\ demoPage.phase = "settling" => \A x \in demoPage.awaits :
          /\ ~ Demos!At(x, "idle")
          /\ Demos!Op(x) = <<demoPage.run, Demos!Settle>>

\* The reservations of all days are what the claimed operations cost.
Claimed == {o \in Demos!Operations : claims[o] # "none"}
Rings == {o \in Demos!Operations : o[2] = Demos!Settle}
BudgetHeld ==
    /\ spent \in [1 .. DemoDays -> 0 .. Budget]
    /\ \A n \in 1 .. DemoDays : n > day => spent[n] = 0
    /\ SumFunctionOnSet(spent, 1 .. DemoDays)
         = Cardinality(Claimed \ Rings) + Demos!SettleCost * Cardinality(Claimed \cap Rings)

DemosHeld ==
    /\ day \in 1 .. DemoDays
    /\ recorded \in [1 .. Runs -> SUBSET Nat]
    /\ ActionsHeld /\ ClaimsHeld /\ PageHeld /\ BudgetHeld

\* The pair an action record works on.
Work(action) == <<action.run, action.step>>

LEMMA ItsWork ==
    ASSUME NEW x
    PROVE  Demos!Op(x) = Work(actions[x]) /\ Demos!Op(x)' = Work(actions'[x])
BY DEF Demos!Op, Work

\* An action that goes to another place keeps what it works on.
LEMMA ActionGoes ==
    ASSUME ActionsHeld, NEW x \in Actions, NEW place \in DemoPlaces, Demos!Go(x, place)
    PROVE  \E new \in DemoActions : /\ actions' = [actions EXCEPT ![x] = new]
                                    /\ new.at = place /\ Work(new) = Demos!Op(x)
                                    /\ new.on = actions[x].on
<1>1. PICK old \in DemoActions : old = actions[x]
  BY DEF ActionsHeld
<1>2. PICK new : new = [old EXCEPT !.at = place]
  OBVIOUS
<1>3. new \in DemoActions /\ new.at = place /\ new.run = old.run /\ new.step = old.step /\ new.on = old.on
  BY <1>2 DEF DemoActions
<1>4. actions' = [actions EXCEPT ![x] = new]
  BY <1>1, <1>2 DEF Demos!Go, ActionsHeld
<1>. QED
  BY <1>1, <1>3, <1>4 DEF Demos!Op, Work

\* An action that is replaced by one that is not about to broadcast.
LEMMA ActionsKept ==
    ASSUME ActionsHeld, ClaimsHeld, BudgetHeld, NEW x \in Actions, NEW new \in DemoActions,
           actions' = [actions EXCEPT ![x] = new], new.at # "broadcasting", new.on <= day,
           new.at # "idle" => Work(new) \in Demos!Operations,
           new.at \in AfterLanding => Work(new) \in landed,
           new.at \in AfterClaiming => claims[Work(new)] # "none",
           UNCHANGED <<claims, spent, broadcasts, landed, day>>
    PROVE  ActionsHeld' /\ ClaimsHeld' /\ BudgetHeld'
<1>1. /\ actions' \in [Actions -> DemoActions] /\ actions'[x] = new
      /\ \A y \in Actions \ {x} : actions'[y] = actions[y]
  BY DEF ActionsHeld
<1>2. \A y \in Actions : /\ Demos!Op(y)' = Work(actions'[y])
                         /\ \A place : Demos!At(y, place)' <=> actions'[y].at = place
  BY DEF Demos!Op, Work, Demos!At
<1>3. \A y \in Actions \ {x} : /\ Demos!Op(y)' = Demos!Op(y)
                               /\ \A place : Demos!At(y, place)' <=> Demos!At(y, place)
  BY <1>1 DEF Demos!Op, Demos!At
<1>4. ActionsHeld'
  BY <1>1, <1>2, <1>3 DEF ActionsHeld
<1>5. ClaimsHeld'
  BY DEF ClaimsHeld, Demos!Ring
<1>6. BudgetHeld'
  BY DEF BudgetHeld, Claimed
<1>. QED
  BY <1>4, <1>5, <1>6

\* The page does not notice, unless the action is its settlement's.
LEMMA PageKept ==
    ASSUME ActionsHeld, PageHeld, NEW x \in Actions, NEW new \in DemoActions,
           actions' = [actions EXCEPT ![x] = new],
           ~ Demos!At(x, "idle") => \/ new.at # "idle" /\ Work(new) = Demos!Op(x)
                                    \/ ~ (demoPage.phase = "settling" /\ x \in demoPage.awaits),
           \A o \in landed : o \in landed', UNCHANGED demoPage
    PROVE  PageHeld'
<1>1. /\ actions'[x] = new
      /\ \A y \in Actions \ {x} : actions'[y] = actions[y]
  BY DEF ActionsHeld
<1>2. ASSUME demoPage.phase = "settling", NEW y \in demoPage.awaits
      PROVE  ~ Demos!At(y, "idle")' /\ Demos!Op(y)' = <<demoPage.run, Demos!Settle>>
  <2>1. y \in Actions /\ ~ Demos!At(y, "idle") /\ Demos!Op(y) = <<demoPage.run, Demos!Settle>>
    BY <1>2 DEF PageHeld
  <2>2. CASE y = x
    BY <1>1, <1>2, <2>1, <2>2, ItsWork DEF Demos!At
  <2>3. CASE y # x
    BY <1>1, <2>1, <2>3 DEF Demos!At, Demos!Op
  <2>. QED
    BY <2>2, <2>3
<1>. QED
  BY <1>2 DEF PageHeld

\* Most of what an action does moves only the action.
LEMMA ActionMoves ==
    ASSUME DemosHeld, NEW x \in Actions, ~ Demos!At(x, "idle"), NEW new \in DemoActions,
           actions' = [actions EXCEPT ![x] = new], new.at \notin {"idle", "broadcasting"},
           new.on <= day, Work(new) = Demos!Op(x), new.at \in AfterLanding => Demos!Op(x) \in landed,
           new.at \in AfterClaiming => actions[x].at \in AfterClaiming,
           recorded' \in [1 .. Runs -> SUBSET Nat],
           UNCHANGED <<claims, spent, broadcasts, landed, day, demoPage>>
    PROVE  DemosHeld'
<1>1. /\ Work(new) \in Demos!Operations
      /\ new.at \in AfterClaiming => claims[Work(new)] # "none"
  BY DEF DemosHeld, ActionsHeld, Demos!At
<1>2. ActionsHeld' /\ ClaimsHeld' /\ BudgetHeld'
  BY <1>1, ActionsKept DEF DemosHeld
<1>3. PageHeld'
  BY PageKept DEF DemosHeld
<1>. QED
  BY <1>2, <1>3 DEF DemosHeld

LEMMA ActionGoesOn ==
    ASSUME DemosHeld, NEW x \in Actions, ~ Demos!At(x, "idle"), NEW place \in DemoPlaces,
           place \notin {"idle", "broadcasting"}, Demos!Go(x, place),
           place \in AfterLanding => Demos!Op(x) \in landed,
           place \in AfterClaiming => actions[x].at \in AfterClaiming,
           recorded' \in [1 .. Runs -> SUBSET Nat],
           UNCHANGED <<claims, spent, broadcasts, landed, day, demoPage>>
    PROVE  DemosHeld'
<1>1. PICK new \in DemoActions : /\ actions' = [actions EXCEPT ![x] = new]
                                 /\ new.at = place /\ Work(new) = Demos!Op(x)
                                 /\ new.on = actions[x].on
  BY ActionGoes DEF DemosHeld
<1>2. new.on <= day
  BY <1>1 DEF DemosHeld, ActionsHeld
<1>. QED
  BY <1>1, <1>2, ActionMoves

\* An action begins, for the page or for anyone.
LEMMA ActionBegins ==
    ASSUME DemosHeld, NEW x \in Actions, NEW run \in 1 .. Runs, NEW step \in 1 .. Demos!Settle,
           Demos!Begin(x, run, step), UNCHANGED <<claims, spent, broadcasts, landed, day>>
    PROVE  /\ ActionsHeld' /\ ClaimsHeld' /\ BudgetHeld'
           /\ Demos!At(x, "idle") /\ ~ Demos!At(x, "idle")' /\ Demos!Op(x)' = <<run, step>>
           /\ demoPage' = demoPage => PageHeld'
<1>1. PICK place \in {"binding", "inspecting"} :
         place = IF step = Demos!Settle THEN "binding" ELSE "inspecting"
  OBVIOUS
<1>2. PICK new : new = [Demos!NoAction EXCEPT !.at = place, !.run = run, !.step = step]
  OBVIOUS
<1>3. new = [at |-> place, run |-> run, step |-> step, on |-> 1, read |-> {}]
  BY <1>2 DEF Demos!NoAction
<1>4. new \in DemoActions /\ new.at = place /\ Work(new) = <<run, step>> /\ new.on <= day
  <2>1. run \in Nat /\ 1 \in 1 .. DemoDays /\ 1 <= day
    BY ServicesAssumption DEF DemosHeld
  <2>. QED
    BY <1>3, <2>1 DEF DemoActions, DemoPlaces, Work
<1>5. Demos!At(x, "idle") /\ actions' = [actions EXCEPT ![x] = new]
  BY <1>1, <1>2 DEF Demos!Begin
<1>6. Work(new) \in Demos!Operations
  BY <1>4 DEF Demos!Operations
<1>7. ActionsHeld' /\ ClaimsHeld' /\ BudgetHeld'
  BY <1>1, <1>4, <1>5, <1>6, ActionsKept DEF DemosHeld, AfterLanding, AfterClaiming
<1>8. actions'[x] = new
  BY <1>5 DEF DemosHeld, ActionsHeld
<1>9. demoPage' = demoPage => PageHeld'
  BY <1>4, <1>5, PageKept DEF DemosHeld
<1>. QED
  BY <1>1, <1>4, <1>5, <1>7, <1>8, <1>9, ItsWork DEF Demos!At

\* An action is over.
LEMMA ActionForgotten ==
    ASSUME DemosHeld, NEW x \in Actions, actions' = [actions EXCEPT ![x] = Demos!NoAction],
           UNCHANGED <<claims, spent, broadcasts, landed, day>>
    PROVE  /\ ActionsHeld' /\ ClaimsHeld' /\ BudgetHeld'
           /\ x \notin demoPage.awaits /\ demoPage' = demoPage => PageHeld'
<1>1. PICK new : new = Demos!NoAction
  OBVIOUS
<1>2. new \in DemoActions /\ new.at = "idle" /\ new.on <= day
  BY <1>1, ServicesAssumption DEF Demos!NoAction, DemoActions, DemoPlaces, Demos!Settle, DemosHeld
<1>3. ActionsHeld' /\ ClaimsHeld' /\ BudgetHeld'
  BY <1>1, <1>2, ActionsKept DEF DemosHeld, AfterLanding, AfterClaiming
<1>4. x \notin demoPage.awaits /\ demoPage' = demoPage => PageHeld'
  BY <1>1, <1>2, PageKept DEF DemosHeld
<1>. QED
  BY <1>3, <1>4

\* What an action finds of its operation.
LEMMA FoundIsSo ==
    ASSUME DemosHeld, NEW x \in Actions, ~ Demos!At(x, "idle")
    PROVE  /\ Demos!Found(x) \in {"ok", "replaying", "error", "proposing", "claiming"}
           /\ Demos!Found(x) \in AfterLanding => Demos!Op(x) \in landed
<1>1. Demos!Op(x) \in Demos!Operations
  BY DEF DemosHeld, ActionsHeld
<1>2. /\ claims[Demos!Op(x)] \in {"none", "pending", "complete"}
      /\ claims[Demos!Op(x)] = "complete" => Demos!Op(x) \in landed
  BY <1>1 DEF DemosHeld, ClaimsHeld
<1>. QED
  BY <1>2 DEF Demos!Found, AfterLanding

LEMMA DemosInit ==
    ASSUME Demos!Init
    PROVE  DemosHeld
<1>1. day \in 1 .. DemoDays /\ recorded \in [1 .. Runs -> SUBSET Nat]
  BY ServicesAssumption DEF Demos!Init
<1>2. ActionsHeld
  <2>1. Demos!NoAction \in DemoActions /\ Demos!NoAction.at = "idle" /\ Demos!NoAction.on = 1
    BY ServicesAssumption DEF Demos!NoAction, DemoActions, DemoPlaces, Demos!Settle
  <2>2. actions = [x \in Actions |-> Demos!NoAction] /\ day = 1
    BY DEF Demos!Init
  <2>. QED
    BY <2>1, <2>2 DEF ActionsHeld, Demos!At, AfterLanding, AfterClaiming
<1>3. ClaimsHeld
  <2>1. \A r \in 1 .. Runs : <<r, Demos!Settle>> \in Demos!Operations
    BY ServicesAssumption DEF Demos!Operations, Demos!Settle
  <2>2. /\ claims = [o \in Demos!Operations |-> "none"]
        /\ broadcasts = [o \in Demos!Operations |-> 0]
    BY DEF Demos!Init
  <2>. QED
    BY <2>1, <2>2 DEF ClaimsHeld
<1>4. PageHeld
  BY ServicesAssumption DEF Demos!Init, PageHeld, DemoPhases
<1>5. BudgetHeld
  <2>1. spent = [n \in 1 .. DemoDays |-> 0] /\ Claimed = {}
    BY DEF Demos!Init, Claimed
  <2>2. IsFiniteSet(1 .. DemoDays)
    BY ServicesAssumption, FS_Interval
  <2>3. \A n \in 1 .. DemoDays : /\ spent[n] \in Nat /\ spent[n] <= 0
                                 /\ n \notin {} => spent[n] = 0
    BY <2>1
  <2>4. SumFunctionOnSet(spent, 1 .. DemoDays) \in Nat
    BY <2>2, <2>3, SumIsNumber
  <2>5. 0 \in Nat /\ 0 * Cardinality((1 .. DemoDays) \cap {}) = 0
    BY FS_EmptySet
  <2>6. SumFunctionOnSet(spent, 1 .. DemoDays) <= 0 * Cardinality((1 .. DemoDays) \cap {})
    BY <2>2, <2>3, <2>5, SumBounded
  <2>7. Cardinality(Claimed \ Rings) = 0 /\ Cardinality(Claimed \cap Rings) = 0
    BY <2>1, FS_EmptySet
  <2>8. SumFunctionOnSet(spent, 1 .. DemoDays) = 0
    BY <2>4, <2>5, <2>6
  <2>9. spent \in [1 .. DemoDays -> 0 .. Budget]
    BY <2>1, ServicesAssumption
  <2>. QED
    BY <2>1, <2>7, <2>8, <2>9 DEF BudgetHeld, Demos!SettleCost
<1>. QED
  BY <1>1, <1>2, <1>3, <1>4, <1>5 DEF DemosHeld

\* A claim that is given is counted at its cost, on a day that has come.
LEMMA ClaimIsReserved ==
    ASSUME DemosHeld, NEW o \in Demos!Operations, claims[o] = "none",
           NEW n \in 1 .. DemoDays, n <= day, spent[n] + Demos!Cost(o[2]) <= Budget,
           spent' = [spent EXCEPT ![n] = spent[n] + Demos!Cost(o[2])],
           claims' = [claims EXCEPT ![o] = "pending"], day' = day
    PROVE  BudgetHeld'
<1>1. PICK cost \in Nat : cost = Demos!Cost(o[2])
  BY DEF Demos!Cost, Demos!SettleCost
<1>2. cost = IF o \in Rings THEN 2 ELSE 1
  BY <1>1 DEF Rings, Demos!Cost, Demos!SettleCost
<1>3. /\ spent \in [1 .. DemoDays -> Nat] /\ spent' \in [1 .. DemoDays -> Nat]
      /\ spent' \in [1 .. DemoDays -> 0 .. Budget]
      /\ spent' = [spent EXCEPT ![n] = spent[n] + cost]
  BY <1>1, ServicesAssumption DEF DemosHeld, BudgetHeld
<1>4. \A m \in 1 .. DemoDays : m > day' => spent'[m] = 0
  <2>1. \A m \in 1 .. DemoDays : m > day => m # n
    BY DEF DemosHeld
  <2>. QED
    BY <1>3, <2>1 DEF DemosHeld, BudgetHeld
<1>5. SumFunctionOnSet(spent', 1 .. DemoDays) = SumFunctionOnSet(spent, 1 .. DemoDays) + cost
  <2>1. IsFiniteSet(1 .. DemoDays) /\ cost \in Nat
    BY ServicesAssumption, <1>1, FS_Interval
  <2>2. PICK f, h : f = spent /\ h = spent'
    OBVIOUS
  <2>3. \A m \in 1 .. DemoDays : f[m] \in Nat /\ h[m] = IF m = n THEN f[m] + cost ELSE f[m]
    BY <1>3, <2>2
  <2>4. SumFunctionOnSet(h, 1 .. DemoDays) = SumFunctionOnSet(f, 1 .. DemoDays) + cost
    BY <2>1, <2>3, SumRaised
  <2>. QED
    BY <2>2, <2>4
<1>6. Claimed' = Claimed \cup {o} /\ o \notin Claimed
  BY DEF Claimed, DemosHeld, ClaimsHeld
<1>7. IsFiniteSet(Claimed)
  <2>1. IsFiniteSet(1 .. Runs) /\ IsFiniteSet(1 .. Demos!Settle)
    <3>1. Runs \in Int /\ Demos!Settle \in Int
      BY ServicesAssumption DEF Demos!Settle
    <3>. QED
      BY <3>1, FS_Interval
  <2>2. IsFiniteSet(Demos!Operations)
    BY <2>1, FS_Product DEF Demos!Operations
  <2>. QED
    BY <2>2, FS_Subset DEF Claimed
<1>8. /\ IsFiniteSet(Claimed \ Rings) /\ Cardinality(Claimed \ Rings) \in Nat
      /\ IsFiniteSet(Claimed \cap Rings) /\ Cardinality(Claimed \cap Rings) \in Nat
  BY <1>7, FS_Subset, FS_CardinalityType
<1>9. Cardinality(Claimed' \ Rings) + 2 * Cardinality(Claimed' \cap Rings)
        = (Cardinality(Claimed \ Rings) + 2 * Cardinality(Claimed \cap Rings)) + cost
  <2>0. PICK j, k \in Nat : j = Cardinality(Claimed \ Rings) /\ k = Cardinality(Claimed \cap Rings)
    BY <1>8
  <2>1. CASE o \in Rings
    <3>1. Claimed' \ Rings = Claimed \ Rings /\ Claimed' \cap Rings = (Claimed \cap Rings) \cup {o}
      BY <1>6, <2>1
    <3>2. Cardinality((Claimed \cap Rings) \cup {o}) = Cardinality(Claimed \cap Rings) + 1
      BY <1>6, <1>8, FS_AddElement
    <3>3. Cardinality(Claimed' \ Rings) = j /\ Cardinality(Claimed' \cap Rings) = k + 1 /\ cost = 2
      BY <1>2, <2>0, <2>1, <3>1, <3>2
    <3>. QED
      BY <2>0, <3>3
  <2>2. CASE o \notin Rings
    <3>1. Claimed' \ Rings = (Claimed \ Rings) \cup {o} /\ Claimed' \cap Rings = Claimed \cap Rings
      BY <1>6, <2>2
    <3>2. Cardinality((Claimed \ Rings) \cup {o}) = Cardinality(Claimed \ Rings) + 1
      BY <1>6, <1>8, FS_AddElement
    <3>3. Cardinality(Claimed' \ Rings) = j + 1 /\ Cardinality(Claimed' \cap Rings) = k /\ cost = 1
      BY <1>2, <2>0, <2>2, <3>1, <3>2
    <3>. QED
      BY <2>0, <3>3
  <2>. QED
    BY <2>1, <2>2
<1>10. SumFunctionOnSet(spent, 1 .. DemoDays)
         = Cardinality(Claimed \ Rings) + 2 * Cardinality(Claimed \cap Rings)
  BY DEF DemosHeld, BudgetHeld, Demos!SettleCost
<1>11. SumFunctionOnSet(spent', 1 .. DemoDays)
         = Cardinality(Claimed' \ Rings) + 2 * Cardinality(Claimed' \cap Rings)
  BY <1>5, <1>9, <1>10
<1>12. Rings' = Rings
  BY DEF Rings
<1>. QED
  BY <1>3, <1>4, <1>11, <1>12 DEF BudgetHeld, Demos!SettleCost

LEMMA ClaimIsGiven ==
    ASSUME DemosHeld, NEW x \in Actions, ~ Demos!At(x, "idle"), claims[Demos!Op(x)] = "none",
           spent[actions[x].on] + Demos!Cost(actions[x].step) <= Budget,
           spent' = [spent EXCEPT ![actions[x].on] = @ + Demos!Cost(actions[x].step)],
           claims' = [claims EXCEPT ![Demos!Op(x)] = "pending"],
           NEW place \in {"broadcasting", "error"}, Demos!Go(x, place),
           UNCHANGED <<recorded, broadcasts, landed, day, demoPage>>
    PROVE  DemosHeld'
<1>. DEFINE o == Demos!Op(x)
<1>1. o \in Demos!Operations /\ actions[x].on \in 1 .. DemoDays /\ actions[x].on <= day
  BY DEF DemosHeld, ActionsHeld, DemoActions
<1>2. actions[x].step = o[2]
  BY DEF Demos!Op
<1>3. BudgetHeld'
  <2>. HIDE DEF o
  <2>1. PICK n : n = actions[x].on
    OBVIOUS
  <2>2. /\ n \in 1 .. DemoDays /\ n <= day
        /\ spent[n] + Demos!Cost(o[2]) <= Budget
        /\ spent' = [spent EXCEPT ![n] = spent[n] + Demos!Cost(o[2])]
    BY <1>1, <1>2, <2>1
  <2>3. claims[o] = "none" /\ claims' = [claims EXCEPT ![o] = "pending"]
    BY DEF o
  <2>. QED
    BY <1>1, <2>2, <2>3, ClaimIsReserved
<1>4. PICK new \in DemoActions : /\ actions' = [actions EXCEPT ![x] = new]
                                 /\ new.at = place /\ Work(new) = o
                                 /\ new.on = actions[x].on
  <2>1. place \in DemoPlaces /\ ActionsHeld
    BY DEF DemoPlaces, DemosHeld
  <2>. QED
    BY <2>1, ActionGoes
<1>5. PageHeld'
  BY <1>4, PageKept DEF DemosHeld
<1>6. /\ actions' \in [Actions -> DemoActions] /\ actions'[x] = new
      /\ \A y \in Actions \ {x} : actions'[y] = actions[y]
  BY <1>4 DEF DemosHeld, ActionsHeld
<1>7. /\ claims' \in [Demos!Operations -> {"none", "pending", "complete"}] /\ claims'[o] = "pending"
      /\ \A q \in Demos!Operations \ {o} : claims'[q] = claims[q]
      /\ broadcasts[o] = 0
  BY <1>1 DEF DemosHeld, ClaimsHeld
<1>8. ClaimsHeld'
  BY <1>7 DEF DemosHeld, ClaimsHeld, Demos!Ring
<1>9. ActionsHeld'
  <2>. HIDE DEF o
  <2>1. /\ Demos!Op(x)' = o /\ \A at_ : Demos!At(x, at_)' <=> place = at_
        /\ new.on <= day
    BY <1>1, <1>4, <1>6, ItsWork DEF Demos!At
  <2>2. \A y \in Actions \ {x} : /\ Demos!Op(y)' = Demos!Op(y)
                                 /\ \A at_ : Demos!At(y, at_)' <=> Demos!At(y, at_)
    BY <1>6 DEF Demos!At, Demos!Op
  <2>3. \A y \in Actions : actions[y].at \in AfterClaiming => Demos!Op(y) \in Demos!Operations \ {o}
    BY <1>1 DEF DemosHeld, ActionsHeld, Demos!At, AfterClaiming, o
  <2>4. \A y \in Actions : /\ ~ Demos!At(y, "idle")' => Demos!Op(y)' \in Demos!Operations
                           /\ actions'[y].on <= day
                           /\ actions'[y].at \in AfterLanding => Demos!Op(y)' \in landed
    BY <1>1, <1>4, <1>6, <2>1, <2>2 DEF DemosHeld, ActionsHeld, AfterLanding
  <2>5. \A y \in Actions : actions'[y].at \in AfterClaiming => claims'[Demos!Op(y)'] # "none"
    BY <1>6, <1>7, <2>1, <2>2, <2>3 DEF DemosHeld, ActionsHeld
  <2>6. \A y \in Actions : Demos!At(y, "broadcasting") => Demos!Op(y) # o
    BY <2>3 DEF Demos!At, AfterClaiming
  <2>7. \A y \in Actions : Demos!At(y, "broadcasting")' => broadcasts[Demos!Op(y)'] = 0
    BY <1>7, <2>1, <2>2 DEF DemosHeld, ActionsHeld
  <2>8. \A y, z \in Actions : Demos!At(y, "broadcasting")' /\ Demos!At(z, "broadcasting")'
                                 /\ Demos!Op(y)' = Demos!Op(z)' => y = z
    BY <2>1, <2>2, <2>6 DEF DemosHeld, ActionsHeld
  <2>. QED
    BY <1>6, <2>4, <2>5, <2>7, <2>8 DEF ActionsHeld
<1>. QED
  BY <1>3, <1>5, <1>8, <1>9 DEF DemosHeld

\* An operation is broadcast by the one action that holds its claim.
LEMMA OperationIsBroadcast ==
    ASSUME DemosHeld, NEW x \in Actions, Demos!Broadcast(x)
    PROVE  DemosHeld'
<1>. DEFINE o == Demos!Op(x)
<1>1. /\ o \in Demos!Operations /\ claims[o] # "none" /\ broadcasts[o] = 0 /\ actions[x].on <= day
      /\ UNCHANGED <<claims, spent, recorded, landed, day, demoPage>>
  BY DEF Demos!Broadcast, DemosHeld, ActionsHeld, Demos!At, AfterClaiming
<1>2. /\ broadcasts' \in [Demos!Operations -> {0, 1}] /\ broadcasts'[o] = 1
      /\ \A q \in Demos!Operations \ {o} : broadcasts'[q] = broadcasts[q]
  <2>1. broadcasts' = [broadcasts EXCEPT ![o] = broadcasts[o] + 1]
    BY DEF Demos!Broadcast
  <2>2. broadcasts' = [broadcasts EXCEPT ![o] = 1]
    BY <1>1, <2>1
  <2>. QED
    BY <1>1, <2>2 DEF DemosHeld, ClaimsHeld
<1>3. o[2] = Demos!Settle => Demos!Ring(o[1]) \subseteq landed
  BY DEF Demos!Broadcast, Demos!Settleable, Demos!Op
<1>4. PICK new \in DemoActions : /\ actions' = [actions EXCEPT ![x] = new]
                                 /\ new.at = "awaiting" /\ Work(new) = o
                                 /\ new.on = actions[x].on
  <2>1. "awaiting" \in DemoPlaces /\ ActionsHeld /\ Demos!Go(x, "awaiting")
    BY DEF DemoPlaces, DemosHeld, Demos!Broadcast
  <2>. QED
    BY <2>1, ActionGoes
<1>5. PageHeld'
  BY <1>1, <1>4, PageKept DEF DemosHeld
<1>6. /\ actions' \in [Actions -> DemoActions] /\ actions'[x] = new
      /\ \A y \in Actions \ {x} : actions'[y] = actions[y]
  BY <1>4 DEF DemosHeld, ActionsHeld
<1>7. ClaimsHeld'
  <2>1. ASSUME NEW r \in 1 .. Runs, broadcasts'[<<r, Demos!Settle>>] > 0
        PROVE  Demos!Ring(r)' \subseteq landed
    <3>1. <<r, Demos!Settle>> \in Demos!Operations
      BY ServicesAssumption DEF Demos!Operations, Demos!Settle
    <3>2. <<r, Demos!Settle>> = o => Demos!Ring(r) \subseteq landed
      BY <1>3
    <3>3. <<r, Demos!Settle>> # o => Demos!Ring(r) \subseteq landed
      BY <1>2, <2>1, <3>1 DEF DemosHeld, ClaimsHeld
    <3>. QED
      BY <3>2, <3>3 DEF Demos!Ring
  <2>2. \A q \in Demos!Operations : claims[q] = "none" => broadcasts'[q] = 0
    BY <1>1, <1>2 DEF DemosHeld, ClaimsHeld
  <2>. QED
    BY <1>1, <1>2, <2>1, <2>2 DEF DemosHeld, ClaimsHeld
<1>8. ActionsHeld'
  <2>. HIDE DEF o
  <2>1. /\ Demos!Op(x)' = o /\ \A place : Demos!At(x, place)' <=> place = "awaiting"
    BY <1>4, <1>6, ItsWork DEF Demos!At
  <2>2. \A y \in Actions \ {x} : /\ Demos!Op(y)' = Demos!Op(y)
                                 /\ \A place : Demos!At(y, place)' <=> Demos!At(y, place)
    BY <1>6 DEF Demos!At, Demos!Op
  <2>3. \A y \in Actions \ {x} : Demos!At(y, "broadcasting") =>
           Demos!Op(y) \in Demos!Operations \ {o} /\ broadcasts[Demos!Op(y)] = 0
    <3>1. Demos!At(x, "broadcasting")
      BY DEF Demos!Broadcast
    <3>. QED
      BY <3>1 DEF DemosHeld, ActionsHeld, Demos!At, o
  <2>4. \A y \in Actions : /\ ~ Demos!At(y, "idle")' => Demos!Op(y)' \in Demos!Operations
                           /\ actions'[y].on <= day
                           /\ actions'[y].at \in AfterLanding => Demos!Op(y)' \in landed
                           /\ actions'[y].at \in AfterClaiming => claims[Demos!Op(y)'] # "none"
    BY <1>1, <1>4, <1>6, <2>1, <2>2 DEF DemosHeld, ActionsHeld, AfterLanding, AfterClaiming
  <2>5. \A y \in Actions : Demos!At(y, "broadcasting")' => broadcasts'[Demos!Op(y)'] = 0
    BY <1>2, <2>1, <2>2, <2>3
  <2>6. \A y, z \in Actions : Demos!At(y, "broadcasting")' /\ Demos!At(z, "broadcasting")'
                                 /\ Demos!Op(y)' = Demos!Op(z)' => y = z
    BY <2>1, <2>2 DEF DemosHeld, ActionsHeld
  <2>. QED
    BY <1>1, <1>6, <2>4, <2>5, <2>6 DEF ActionsHeld
<1>9. BudgetHeld'
  BY <1>1 DEF DemosHeld, BudgetHeld, Claimed, Rings
<1>. QED
  BY <1>1, <1>5, <1>7, <1>8, <1>9 DEF DemosHeld

\* What an operation may do besides: its claim is completed once it has landed.
LEMMA OperationCompletes ==
    ASSUME DemosHeld, NEW x \in Actions, Demos!Complete(x)
    PROVE  DemosHeld'
<1>. DEFINE o == Demos!Op(x)
<1>1. /\ Demos!At(x, "completing") /\ Demos!Go(x, "ok")
      /\ UNCHANGED <<spent, recorded, broadcasts, landed, day, demoPage>>
      /\ claims' = [claims EXCEPT ![o] = "complete"] \/ claims' = claims
  BY DEF Demos!Complete
<1>2. o \in Demos!Operations /\ o \in landed /\ claims[o] # "none"
  BY <1>1 DEF DemosHeld, ActionsHeld, Demos!At, AfterClaiming, AfterLanding
<1>3. CASE claims' = claims
  BY <1>1, <1>2, <1>3, ActionGoesOn DEF DemoPlaces, Demos!At, AfterClaiming, DemosHeld
<1>4. CASE claims' = [claims EXCEPT ![o] = "complete"]
  <2>1. PICK new \in DemoActions : /\ actions' = [actions EXCEPT ![x] = new]
                                   /\ new.at = "ok" /\ Work(new) = o
                                   /\ new.on = actions[x].on
    <3>1. "ok" \in DemoPlaces /\ ActionsHeld
      BY DEF DemoPlaces, DemosHeld
    <3>. QED
      BY <1>1, <3>1, ActionGoes
  <2>2. PageHeld'
    BY <1>1, <2>1, PageKept DEF DemosHeld
  <2>3. /\ actions' \in [Actions -> DemoActions] /\ actions'[x] = new
        /\ \A y \in Actions \ {x} : actions'[y] = actions[y]
    BY <2>1 DEF DemosHeld, ActionsHeld
  <2>4. /\ claims' \in [Demos!Operations -> {"none", "pending", "complete"}] /\ claims'[o] = "complete"
        /\ \A q \in Demos!Operations \ {o} : claims'[q] = claims[q]
    BY <1>2, <1>4 DEF DemosHeld, ClaimsHeld
  <2>5. ClaimsHeld'
    BY <1>1, <1>2, <2>4 DEF DemosHeld, ClaimsHeld, Demos!Ring
  <2>6. Claimed' = Claimed
    BY <1>2, <2>4 DEF Claimed
  <2>7. BudgetHeld'
    BY <1>1, <2>6 DEF DemosHeld, BudgetHeld, Rings
  <2>8. ActionsHeld'
    <3>. HIDE DEF o
    <3>1. Demos!Op(x)' = o /\ \A place : Demos!At(x, place)' <=> place = "ok"
      BY <2>1, <2>3, ItsWork DEF Demos!At
    <3>2. \A y \in Actions \ {x} : /\ Demos!Op(y)' = Demos!Op(y)
                                   /\ \A place : Demos!At(y, place)' <=> Demos!At(y, place)
      BY <2>3 DEF Demos!At, Demos!Op
    <3>3. \A y \in Actions : actions'[y].at \in AfterClaiming => claims'[Demos!Op(y)'] # "none"
      <4>1. \A y \in Actions : actions[y].at \in AfterClaiming => Demos!Op(y) \in Demos!Operations
        BY DEF DemosHeld, ActionsHeld, Demos!At, AfterClaiming
      <4>2. "ok" \notin AfterClaiming
        BY DEF AfterClaiming
      <4>. QED
        BY <1>2, <2>1, <2>3, <2>4, <3>1, <3>2, <4>1, <4>2 DEF DemosHeld, ActionsHeld
    <3>4. \A y \in Actions : /\ ~ Demos!At(y, "idle")' => Demos!Op(y)' \in Demos!Operations
                             /\ actions'[y].on <= day
                             /\ actions'[y].at \in AfterLanding => Demos!Op(y)' \in landed
      BY <1>2, <2>1, <2>3, <3>1, <3>2 DEF DemosHeld, ActionsHeld
    <3>5. \A y \in Actions : Demos!At(y, "broadcasting")' => broadcasts[Demos!Op(y)'] = 0
      BY <3>1, <3>2 DEF DemosHeld, ActionsHeld
    <3>6. \A y, z \in Actions : Demos!At(y, "broadcasting")' /\ Demos!At(z, "broadcasting")'
                                   /\ Demos!Op(y)' = Demos!Op(z)' => y = z
      BY <3>1, <3>2 DEF DemosHeld, ActionsHeld
    <3>. QED
      BY <1>1, <2>3, <3>3, <3>4, <3>5, <3>6 DEF ActionsHeld
  <2>. QED
    BY <1>1, <2>2, <2>5, <2>7, <2>8 DEF DemosHeld
<1>. QED
  BY <1>1, <1>3, <1>4

\* What landed stays landed.
LEMMA OperationLands ==
    ASSUME DemosHeld, NEW o \in Demos!Operations, Demos!Land(o)
    PROVE  DemosHeld'
<1>1. /\ landed' = landed \cup {o}
      /\ UNCHANGED <<claims, spent, recorded, broadcasts, day, actions, demoPage>>
  BY DEF Demos!Land
<1>2. ActionsHeld'
  BY <1>1 DEF DemosHeld, ActionsHeld, Demos!At, Demos!Op
<1>3. ClaimsHeld'
  BY <1>1 DEF DemosHeld, ClaimsHeld, Demos!Ring
<1>4. PageHeld'
  BY <1>1 DEF DemosHeld, PageHeld, Demos!At, Demos!Op
<1>5. BudgetHeld'
  BY <1>1 DEF DemosHeld, BudgetHeld, Claimed, Rings
<1>. QED
  BY <1>1, <1>2, <1>3, <1>4, <1>5 DEF DemosHeld

\* The page goes on to another phase in which it awaits nothing.
LEMMA PageGoes ==
    ASSUME DemosHeld, NEW turn \in DemoPhases, turn \notin {"running", "settling"},
           turn # "idle" => demoPage.phase # "idle",
           turn = "done" => <<demoPage.run, Demos!Settle>> \in landed,
           NEW old, old = demoPage, NEW waits \in SUBSET Actions,
           demoPage' = [old EXCEPT !.phase = turn, !.awaits = waits],
           landed' = landed
    PROVE  PageHeld'
<1>1. /\ old \in [phase : DemoPhases, run : 0 .. Runs, step : Nat, awaits : SUBSET Actions]
      /\ old.phase # "idle" => old.run \in 1 .. Runs
  BY DEF DemosHeld, PageHeld
<1>2. PICK new : new = [old EXCEPT !.phase = turn, !.awaits = waits]
  OBVIOUS
<1>3. /\ new \in [phase : DemoPhases, run : 0 .. Runs, step : Nat, awaits : SUBSET Actions]
      /\ new.phase = turn /\ new.run = old.run
  BY <1>1, <1>2
<1>. QED
  BY <1>1, <1>2, <1>3 DEF PageHeld

LEMMA DemosStep ==
    ASSUME DemosHeld, Demos!Next
    PROVE  DemosHeld'
<1>. DEFINE quiet == <<claims, spent, broadcasts, landed, day>>
<1>1. ASSUME NEW x \in Actions,
             \/ Demos!Bind(x) \/ Demos!Inspect(x) \/ Demos!Propose(x) \/ Demos!AwaitReceipt(x)
             \/ Demos!Fail(x) \/ Demos!WriteRecorded(x)
      PROVE  DemosHeld'
  <2>1. ASSUME NEW place \in DemoPlaces, place \notin {"idle", "broadcasting"}, Demos!Go(x, place),
               place \in AfterLanding => Demos!Op(x) \in landed,
               place \in AfterClaiming => actions[x].at \in AfterClaiming,
               UNCHANGED quiet, recorded' \in [1 .. Runs -> SUBSET Nat], UNCHANGED demoPage,
               ~ Demos!At(x, "idle")
        PROVE  DemosHeld'
    BY <2>1, ActionGoesOn
  <2>2. recorded \in [1 .. Runs -> SUBSET Nat]
    BY DEF DemosHeld
  <2>3. CASE Demos!Bind(x)
    <3>1. PICK place \in {"inspecting", "error"} :
             place = IF recorded[actions[x].run] = 1 .. RingInvoices THEN "inspecting" ELSE "error"
      OBVIOUS
    <3>2. /\ Demos!Go(x, place) /\ ~ Demos!At(x, "idle")
          /\ UNCHANGED quiet /\ UNCHANGED <<recorded, demoPage>>
      BY <2>3, <3>1 DEF Demos!Bind, Demos!At
    <3>. QED
      BY <2>1, <2>2, <3>1, <3>2 DEF DemoPlaces, AfterLanding, AfterClaiming
  <2>4. CASE Demos!Inspect(x)
    <3>1. PICK place : place = Demos!Found(x)
      OBVIOUS
    <3>2. /\ Demos!Go(x, place) /\ ~ Demos!At(x, "idle")
          /\ UNCHANGED quiet /\ UNCHANGED <<recorded, demoPage>>
      BY <2>4, <3>1 DEF Demos!Inspect, Demos!At
    <3>. QED
      BY <2>1, <2>2, <3>1, <3>2, FoundIsSo DEF DemoPlaces, AfterClaiming
  <2>5. CASE Demos!Propose(x)
    <3>1. PICK place \in {"claiming", "error"} :
             place = IF Demos!Settleable(actions[x].run) THEN "claiming" ELSE "error"
      OBVIOUS
    <3>2. /\ Demos!Go(x, place) /\ ~ Demos!At(x, "idle")
          /\ UNCHANGED quiet /\ UNCHANGED <<recorded, demoPage>>
      BY <2>5, <3>1 DEF Demos!Propose, Demos!At
    <3>. QED
      BY <2>1, <2>2, <3>1, <3>2 DEF DemoPlaces, AfterLanding, AfterClaiming
  <2>6. CASE Demos!AwaitReceipt(x)
    <3>1. PICK place \in {"completing", "remembering"} :
             place = IF actions[x].step = Demos!Settle THEN "completing" ELSE "remembering"
      OBVIOUS
    <3>2. /\ Demos!Go(x, place) /\ actions[x].at = "awaiting" /\ Demos!Op(x) \in landed
          /\ UNCHANGED quiet /\ UNCHANGED <<recorded, demoPage>>
      BY <2>6, <3>1 DEF Demos!AwaitReceipt, Demos!At
    <3>. QED
      BY <2>1, <2>2, <3>1, <3>2 DEF DemoPlaces, AfterClaiming, Demos!At
  <2>7. CASE Demos!Fail(x)
    <3>1. /\ Demos!Go(x, "error") /\ ~ Demos!At(x, "idle")
          /\ UNCHANGED quiet /\ UNCHANGED <<recorded, demoPage>>
      BY <2>7 DEF Demos!Fail, Demos!At
    <3>. QED
      BY <2>1, <2>2, <3>1 DEF DemoPlaces, AfterLanding, AfterClaiming
  <2>8. CASE Demos!WriteRecorded(x)
    <3>1. PICK place \in {"completing", "ok"} :
             place = IF Demos!At(x, "recording") THEN "completing" ELSE "ok"
      OBVIOUS
    <3>2. /\ Demos!Go(x, place) /\ actions[x].at \in {"recording", "rerecording"}
          /\ actions[x].at = "recording" \/ place = "ok"
          /\ UNCHANGED quiet /\ UNCHANGED <<demoPage>>
      BY <2>8, <3>1 DEF Demos!WriteRecorded, Demos!At
    <3>3. Demos!Op(x) \in landed
      BY <3>2 DEF DemosHeld, ActionsHeld, AfterLanding
    <3>4. recorded' \in [1 .. Runs -> SUBSET Nat]
      <4>1. actions[x].read \cup {actions[x].step} \in SUBSET Nat
        BY ServicesAssumption DEF DemosHeld, ActionsHeld, DemoActions, Demos!Settle
      <4>. QED
        BY <2>2, <2>8, <4>1 DEF Demos!WriteRecorded
    <3>. QED
      BY <2>1, <3>1, <3>2, <3>3, <3>4 DEF DemoPlaces, AfterClaiming, Demos!At
  <2>. QED
    BY <1>1, <2>3, <2>4, <2>5, <2>6, <2>7, <2>8
<1>2. ASSUME NEW x \in Actions, Demos!SendClaim(x)
      PROVE  DemosHeld'
  <2>1. PICK old \in DemoActions : old = actions[x]
    BY DEF DemosHeld, ActionsHeld
  <2>2. PICK new : new = [old EXCEPT !.at = "claim sent", !.on = day]
    OBVIOUS
  <2>3. /\ new \in DemoActions /\ new.at = "claim sent" /\ new.on = day
        /\ new.run = old.run /\ new.step = old.step
    BY <2>2 DEF DemoActions, DemoPlaces, DemosHeld
  <2>4. /\ actions' = [actions EXCEPT ![x] = new] /\ ~ Demos!At(x, "idle")
        /\ UNCHANGED quiet /\ UNCHANGED <<recorded, demoPage>>
    BY <1>2, <2>1, <2>2 DEF Demos!SendClaim, Demos!At, DemosHeld, ActionsHeld
  <2>5. Work(new) = Demos!Op(x)
    BY <2>1, <2>3 DEF Work, Demos!Op
  <2>6. new.on <= day /\ recorded' \in [1 .. Runs -> SUBSET Nat]
    <3>1. day <= day
      BY ServicesAssumption DEF DemosHeld
    <3>. QED
      BY <2>3, <2>4, <3>1 DEF DemosHeld
  <2>. QED
    BY <2>3, <2>4, <2>5, <2>6, ActionMoves DEF AfterLanding, AfterClaiming
<1>3. ASSUME NEW x \in Actions, Demos!ReadRecorded(x)
      PROVE  DemosHeld'
  <2>1. PICK old \in DemoActions : old = actions[x]
    BY DEF DemosHeld, ActionsHeld
  <2>2. PICK place \in {"recording", "rerecording"} :
           place = IF Demos!At(x, "remembering") THEN "recording" ELSE "rerecording"
    OBVIOUS
  <2>3. PICK list : list = recorded[actions[x].run]
    OBVIOUS
  <2>4. /\ old.at \in {"remembering", "replaying"}
        /\ place = "recording" => old.at = "remembering"
        /\ UNCHANGED quiet /\ UNCHANGED <<recorded, demoPage>>
    BY <1>3, <2>1, <2>2 DEF Demos!ReadRecorded, Demos!At
  <2>5. Demos!Op(x) \in Demos!Operations /\ Demos!Op(x) \in landed
    BY <2>1, <2>4 DEF DemosHeld, ActionsHeld, Demos!At, AfterLanding
  <2>6. list \in SUBSET Nat
    BY <2>3, <2>5 DEF DemosHeld, Demos!Op, Demos!Operations
  <2>7. PICK new : new = [old EXCEPT !.read = list, !.at = place]
    OBVIOUS
  <2>8. /\ new \in DemoActions /\ new.at = place /\ new.on = old.on
        /\ new.run = old.run /\ new.step = old.step
    BY <2>2, <2>6, <2>7 DEF DemoActions, DemoPlaces
  <2>9. actions' = [actions EXCEPT ![x] = new] /\ ~ Demos!At(x, "idle")
    BY <1>3, <2>1, <2>2, <2>3, <2>4, <2>7 DEF Demos!ReadRecorded, Demos!At, DemosHeld, ActionsHeld
  <2>10. Work(new) = Demos!Op(x) /\ new.on <= day /\ recorded' \in [1 .. Runs -> SUBSET Nat]
    BY <2>1, <2>4, <2>8 DEF Work, Demos!Op, DemosHeld, ActionsHeld
  <2>11. new.at \in AfterClaiming => actions[x].at \in AfterClaiming
    BY <2>1, <2>2, <2>4, <2>8 DEF AfterClaiming
  <2>. QED
    BY <2>2, <2>4, <2>5, <2>8, <2>9, <2>10, <2>11, ActionMoves
<1>4. ASSUME NEW x \in Actions, Demos!Claim(x)
      PROVE  DemosHeld'
  <2>1. /\ Demos!At(x, "claim sent") /\ ~ Demos!At(x, "idle")
        /\ UNCHANGED <<recorded, broadcasts, landed, day, demoPage>>
        /\ recorded' \in [1 .. Runs -> SUBSET Nat]
    BY <1>4 DEF Demos!Claim, Demos!At, DemosHeld
  <2>2. ASSUME NEW place \in {"ok", "replaying", "error", "proposing", "claiming"},
               place \in AfterLanding => Demos!Op(x) \in landed,
               Demos!Go(x, place), UNCHANGED <<claims, spent>>
        PROVE  DemosHeld'
    <3>1. place \in DemoPlaces /\ place \notin {"idle", "broadcasting"} /\ place \notin AfterClaiming
      BY DEF DemoPlaces, AfterClaiming
    <3>. QED
      BY <2>1, <2>2, <3>1, ActionGoesOn
  <2>3. ASSUME claims[Demos!Op(x)] = "none",
               spent[actions[x].on] + Demos!Cost(actions[x].step) <= Budget,
               spent' = [spent EXCEPT ![actions[x].on] = @ + Demos!Cost(actions[x].step)],
               claims' = [claims EXCEPT ![Demos!Op(x)] = "pending"],
               Demos!Go(x, "broadcasting") \/ Demos!Go(x, "error")
        PROVE  DemosHeld'
    BY <2>1, <2>3, ClaimIsGiven
  <2>4. CASE claims[Demos!Op(x)] # "none" /\ Demos!Go(x, Demos!Found(x)) /\ UNCHANGED <<claims, spent>>
    BY <2>1, <2>2, <2>4, FoundIsSo
  <2>5. CASE claims[Demos!Op(x)] = "none" /\ Demos!Go(x, "error") /\ UNCHANGED <<claims, spent>>
    BY <2>2, <2>5 DEF AfterLanding
  <2>. QED
    BY <1>4, <2>3, <2>4, <2>5 DEF Demos!Claim
<1>5. ASSUME NEW x \in Actions, Demos!RunFixture(x)
      PROVE  DemosHeld'
  <2>1. PICK next : next = demoPage.run + 1
    OBVIOUS
  <2>2. /\ demoPage.run < Runs /\ Demos!Begin(x, next, 1)
        /\ demoPage' = [phase |-> "running", run |-> next, step |-> 1, awaits |-> {x}]
        /\ UNCHANGED quiet /\ UNCHANGED recorded
    BY <1>5, <2>1 DEF Demos!RunFixture
  <2>3. next \in 1 .. Runs /\ 1 \in 1 .. Demos!Settle
    BY ServicesAssumption, <2>1, <2>2 DEF DemosHeld, PageHeld, Demos!Settle
  <2>4. ActionsHeld' /\ ClaimsHeld' /\ BudgetHeld'
    BY <2>2, <2>3, ActionBegins
  <2>5. PageHeld'
    BY <2>2, <2>3, ServicesAssumption DEF PageHeld, DemoPhases
  <2>. QED
    BY <2>2, <2>4, <2>5 DEF DemosHeld
<1>6. ASSUME NEW x \in Actions, Demos!SettleClick(x)
      PROVE  DemosHeld'
  <2>1. PICK old : old = demoPage
    OBVIOUS
  <2>2. /\ old.phase = "readyToSettle" /\ Demos!Begin(x, old.run, Demos!Settle)
        /\ demoPage' = [old EXCEPT !.phase = "settling", !.awaits = {x}]
        /\ UNCHANGED quiet /\ UNCHANGED recorded
    BY <1>6, <2>1 DEF Demos!SettleClick
  <2>3. /\ old \in [phase : DemoPhases, run : 0 .. Runs, step : Nat, awaits : SUBSET Actions]
        /\ old.run \in 1 .. Runs /\ Demos!Settle \in 1 .. Demos!Settle
    BY ServicesAssumption, <2>1, <2>2 DEF DemosHeld, PageHeld, Demos!Settle
  <2>4. /\ ActionsHeld' /\ ClaimsHeld' /\ BudgetHeld'
        /\ ~ Demos!At(x, "idle")' /\ Demos!Op(x)' = <<old.run, Demos!Settle>>
    BY <2>2, <2>3, ActionBegins
  <2>5. PICK new : new = [old EXCEPT !.phase = "settling", !.awaits = {x}]
    OBVIOUS
  <2>6. /\ new \in [phase : DemoPhases, run : 0 .. Runs, step : Nat, awaits : SUBSET Actions]
        /\ new.phase = "settling" /\ new.run = old.run /\ new.awaits = {x}
    BY <2>3, <2>5 DEF DemoPhases
  <2>7. PageHeld'
    BY <2>2, <2>3, <2>4, <2>5, <2>6 DEF PageHeld
  <2>. QED
    BY <2>2, <2>4, <2>7 DEF DemosHeld
<1>7. ASSUME NEW x \in Actions, Demos!Registered(x)
      PROVE  DemosHeld'
  <2>1. PICK old : old = demoPage
    OBVIOUS
  <2>2. old.phase = "running" /\ UNCHANGED quiet /\ UNCHANGED recorded
    BY <1>7, <2>1 DEF Demos!Registered
  <2>3. /\ old \in [phase : DemoPhases, run : 0 .. Runs, step : Nat, awaits : SUBSET Actions]
        /\ old.run \in 1 .. Runs
    BY <2>1, <2>2 DEF DemosHeld, PageHeld
  <2>4. ASSUME NEW turn \in {"proposing", "idle"}, actions' = [actions EXCEPT ![x] = Demos!NoAction],
               demoPage' = [old EXCEPT !.phase = turn, !.awaits = {}]
        PROVE  DemosHeld'
    <3>1. turn \in DemoPhases /\ turn \notin {"running", "settling", "done"} /\ {} \in SUBSET Actions
      BY DEF DemoPhases
    <3>2. PageHeld'
      BY <2>1, <2>2, <2>4, <3>1, PageGoes
    <3>3. ActionsHeld' /\ ClaimsHeld' /\ BudgetHeld'
      BY <2>2, <2>4, ActionForgotten
    <3>. QED
      BY <2>2, <3>2, <3>3 DEF DemosHeld
  <2>5. ASSUME old.step < RingInvoices,
               actions' = [actions EXCEPT ![x] = [Demos!NoAction EXCEPT
                   !.at = "inspecting", !.run = old.run, !.step = old.step + 1]],
               demoPage' = [old EXCEPT !.step = old.step + 1]
        PROVE  DemosHeld'
    <3>0. PICK new : new = [Demos!NoAction EXCEPT
                            !.at = "inspecting", !.run = old.run, !.step = old.step + 1]
      OBVIOUS
    <3>1. new = [at |-> "inspecting", run |-> old.run, step |-> old.step + 1, on |-> 1, read |-> {}]
      BY <3>0 DEF Demos!NoAction
    <3>2. actions' = [actions EXCEPT ![x] = new]
      BY <2>5, <3>0
    <3>3. old.step + 1 \in 1 .. Demos!Settle /\ old.step + 1 \in Nat /\ old.run \in Nat
          /\ 1 \in 1 .. DemoDays /\ 1 <= day
      BY ServicesAssumption, <2>3, <2>5 DEF Demos!Settle, DemosHeld
    <3>4. /\ new \in DemoActions /\ new.at = "inspecting" /\ new.on <= day
          /\ Work(new) \in Demos!Operations
      BY <2>3, <3>1, <3>3 DEF DemoActions, DemoPlaces, Work, Demos!Operations
    <3>5. ActionsHeld' /\ ClaimsHeld' /\ BudgetHeld'
      BY <2>2, <3>2, <3>4, ActionsKept DEF DemosHeld, AfterLanding, AfterClaiming
    <3>6. PICK turned : turned = [old EXCEPT !.step = old.step + 1]
      OBVIOUS
    <3>7. /\ turned \in [phase : DemoPhases, run : 0 .. Runs, step : Nat, awaits : SUBSET Actions]
          /\ turned.phase = "running" /\ turned.run = old.run
      BY <2>2, <2>3, <3>3, <3>6
    <3>8. PageHeld'
      BY <2>3, <2>5, <3>6, <3>7 DEF PageHeld
    <3>. QED
      BY <2>2, <3>5, <3>8 DEF DemosHeld
  <2>. QED
    BY <1>7, <2>1, <2>4, <2>5 DEF Demos!Registered
<1>8. ASSUME NEW x \in Actions, Demos!Settled(x)
      PROVE  DemosHeld'
  <2>1. PICK old : old = demoPage
    OBVIOUS
  <2>2. /\ old.phase = "settling" /\ x \in old.awaits /\ UNCHANGED quiet /\ UNCHANGED recorded
        /\ actions' = [actions EXCEPT ![x] = Demos!NoAction]
    BY <1>8, <2>1 DEF Demos!Settled
  <2>3. Demos!Op(x) = <<old.run, Demos!Settle>>
    BY <2>1, <2>2 DEF DemosHeld, PageHeld
  <2>4. Demos!At(x, "ok") => <<old.run, Demos!Settle>> \in landed
    BY <2>3 DEF DemosHeld, ActionsHeld, Demos!At, AfterLanding
  <2>5. PICK turn \in {"done", "settleFailed"} :
           /\ turn = "done" => Demos!At(x, "ok")
           /\ demoPage' = [old EXCEPT !.phase = turn, !.awaits = {}]
    BY <1>8, <2>1 DEF Demos!Settled
  <2>6. turn \in DemoPhases /\ turn \notin {"running", "settling"} /\ {} \in SUBSET Actions
    BY DEF DemoPhases
  <2>7. PageHeld'
    BY <2>1, <2>2, <2>4, <2>5, <2>6, PageGoes
  <2>8. ActionsHeld' /\ ClaimsHeld' /\ BudgetHeld'
    BY <2>2, ActionForgotten
  <2>. QED
    BY <2>2, <2>7, <2>8 DEF DemosHeld
<1>9. ASSUME NEW x \in Actions, Demos!Forget(x)
      PROVE  DemosHeld'
  <2>1. /\ x \notin demoPage.awaits /\ actions' = [actions EXCEPT ![x] = Demos!NoAction]
        /\ UNCHANGED quiet /\ UNCHANGED <<recorded, demoPage>>
    BY <1>9 DEF Demos!Forget
  <2>. QED
    BY <2>1, ActionForgotten DEF DemosHeld
<1>10. ASSUME NEW x \in Actions, NEW step \in 1 .. Demos!Settle, Demos!Repeat(x, step)
       PROVE  DemosHeld'
  <2>1. PICK run : run = demoPage.run
    OBVIOUS
  <2>2. run \in 1 .. Runs
    BY <1>10, <2>1, ServicesAssumption DEF Demos!Repeat, DemosHeld, PageHeld
  <2>3. Demos!Begin(x, run, step) /\ UNCHANGED quiet /\ UNCHANGED <<recorded, demoPage>>
    BY <1>10, <2>1 DEF Demos!Repeat
  <2>. QED
    BY <2>2, <2>3, ActionBegins DEF DemosHeld
<1>11. ASSUME Demos!ProposeCycle \/ Demos!Reset
       PROVE  DemosHeld'
  <2>1. PICK old : old = demoPage
    OBVIOUS
  <2>2. UNCHANGED quiet /\ UNCHANGED <<recorded, actions>> /\ old.phase # "idle"
    BY <1>11, <2>1 DEF Demos!ProposeCycle, Demos!Reset
  <2>3. /\ old \in [phase : DemoPhases, run : 0 .. Runs, step : Nat, awaits : SUBSET Actions]
        /\ old.run \in 1 .. Runs
    BY <2>1, <2>2 DEF DemosHeld, PageHeld
  <2>4. PICK turn \in {"readyToSettle", "idle"}, waits \in SUBSET Actions :
           demoPage' = [old EXCEPT !.phase = turn, !.awaits = waits]
    <3>1. ASSUME NEW turn, demoPage' = [old EXCEPT !.phase = turn]
          PROVE  demoPage' = [old EXCEPT !.phase = turn, !.awaits = old.awaits]
      BY <2>3, <3>1
    <3>2. old.awaits \in SUBSET Actions /\ {} \in SUBSET Actions
      BY <2>3
    <3>. QED
      BY <1>11, <2>1, <3>1, <3>2 DEF Demos!ProposeCycle, Demos!Reset
  <2>5. turn \in DemoPhases /\ turn \notin {"running", "settling", "done"}
    BY DEF DemoPhases
  <2>6. PageHeld'
    BY <2>1, <2>2, <2>4, <2>5, PageGoes
  <2>7. ActionsHeld' /\ ClaimsHeld' /\ BudgetHeld'
    BY <2>2 DEF DemosHeld, ActionsHeld, ClaimsHeld, BudgetHeld, Claimed, Rings, Demos!At, Demos!Op, Demos!Ring
  <2>. QED
    BY <2>2, <2>6, <2>7 DEF DemosHeld
<1>12. ASSUME NEW r \in 1 .. Runs, Demos!Expire(r)
       PROVE  DemosHeld'
  <2>1. /\ UNCHANGED quiet /\ UNCHANGED <<actions, demoPage>>
        /\ recorded' \in [1 .. Runs -> SUBSET Nat]
    BY <1>12 DEF Demos!Expire, DemosHeld
  <2>. QED
    BY <2>1 DEF DemosHeld, ActionsHeld, ClaimsHeld, PageHeld, BudgetHeld, Claimed, Rings,
                Demos!At, Demos!Op, Demos!Ring
<1>13. ASSUME Demos!NextDay
       PROVE  DemosHeld'
  <2>1. /\ day < DemoDays /\ day' = day + 1
        /\ UNCHANGED <<claims, spent, recorded, broadcasts, landed, actions, demoPage>>
    BY <1>13 DEF Demos!NextDay
  <2>2. day \in Nat /\ day' \in 1 .. DemoDays
    BY <2>1, ServicesAssumption DEF DemosHeld
  <2>3. ActionsHeld'
    <3>1. \A x \in Actions : actions[x].on \in Nat /\ actions[x].on <= day
      BY DEF DemosHeld, ActionsHeld, DemoActions
    <3>2. \A x \in Actions : actions[x].on <= day'
      BY <2>1, <2>2, <3>1
    <3>. QED
      BY <2>1, <3>2 DEF DemosHeld, ActionsHeld, Demos!At, Demos!Op
  <2>4. BudgetHeld'
    <3>1. \A n \in 1 .. DemoDays : n > day' => n > day
      BY <2>1, <2>2
    <3>. QED
      BY <2>1, <3>1 DEF DemosHeld, BudgetHeld, Claimed, Rings
  <2>5. ClaimsHeld' /\ PageHeld'
    BY <2>1 DEF DemosHeld, ClaimsHeld, PageHeld, Demos!At, Demos!Op, Demos!Ring
  <2>. QED
    BY <2>1, <2>2, <2>3, <2>4, <2>5 DEF DemosHeld
<1>. QED
  BY <1>1, <1>2, <1>3, <1>4, <1>5, <1>6, <1>7, <1>8, <1>9, <1>10, <1>11, <1>12, <1>13,
     OperationIsBroadcast, OperationCompletes, OperationLands DEF Demos!Next

\* The demo's invariant is kept by every step of the services.
LEMMA DemosStays ==
    ASSUME part = "demo" => DemosHeld, [ServicesNext]_<<part, servicesVars>>
    PROVE  (part = "demo" => DemosHeld)'
<1>1. ASSUME UNCHANGED <<part, servicesVars>>
      PROVE  (part = "demo" => DemosHeld)'
  <2>1. ASSUME part = "demo" => DemosHeld, UNCHANGED part, UNCHANGED demosVars
        PROVE  (part = "demo" => DemosHeld)'
    BY <2>1 DEF demosVars, DemosHeld, ActionsHeld, ClaimsHeld, PageHeld, BudgetHeld,
                Claimed, Rings, Demos!At, Demos!Op, Demos!Ring
  <2>. QED
    BY <1>1, <2>1 DEF servicesVars
<1>2. ASSUME ServicesNext
      PROVE  (part = "demo" => DemosHeld)'
  BY <1>2, DemosStep DEF ServicesNext
<1>. QED
  BY <1>1, <1>2

\* The operations that were broadcast cost no more than those that were claimed.
LEMMA WithinBudget ==
    ASSUME DemosHeld
    PROVE  Demos!SpentWithinBudget
<1>. DEFINE out == {o \in Demos!Operations : broadcasts[o] > 0}
            settlements == {o \in out : o[2] = Demos!Settle}
            days == 1 .. DemoDays
<1>1. \A o \in out : broadcasts[o] = 1 /\ o \in Claimed
  BY DEF DemosHeld, ClaimsHeld, Claimed
<1>2. out \ settlements \subseteq Claimed \ Rings /\ settlements \subseteq Claimed \cap Rings
  BY <1>1 DEF Rings
<1>3. IsFiniteSet(Claimed \ Rings) /\ IsFiniteSet(Claimed \cap Rings)
  <2>1. IsFiniteSet(1 .. Runs) /\ IsFiniteSet(1 .. Demos!Settle)
    BY ServicesAssumption, FS_Interval DEF Demos!Settle
  <2>2. IsFiniteSet(Demos!Operations)
    BY <2>1, FS_Product DEF Demos!Operations
  <2>. QED
    BY <2>2, FS_Subset DEF Claimed
<1>4. /\ Cardinality(out \ settlements) \in Nat /\ Cardinality(settlements) \in Nat
      /\ Cardinality(Claimed \ Rings) \in Nat /\ Cardinality(Claimed \cap Rings) \in Nat
      /\ Cardinality(out \ settlements) <= Cardinality(Claimed \ Rings)
      /\ Cardinality(settlements) <= Cardinality(Claimed \cap Rings)
  <2>. HIDE DEF out, settlements
  <2>. QED
    BY <1>2, <1>3, FS_Subset, FS_CardinalityType
<1>5. SumFunctionOnSet(spent, days) <= Budget * Cardinality(days \cap (1 .. day))
  <2>1. IsFiniteSet(days) /\ Budget \in Nat
    BY ServicesAssumption, FS_Interval
  <2>2. PICK f : f = spent
    OBVIOUS
  <2>3. PICK past : past = 1 .. day
    OBVIOUS
  <2>4. \A n \in days : f[n] \in Nat /\ f[n] <= Budget /\ (n \notin past => f[n] = 0)
    BY ServicesAssumption, <2>2, <2>3 DEF DemosHeld, BudgetHeld
  <2>. HIDE DEF days
  <2>5. SumFunctionOnSet(f, days) <= Budget * Cardinality(days \cap past)
    BY <2>1, <2>4, SumBounded
  <2>. QED
    BY <2>2, <2>3, <2>5
<1>6. Cardinality(days \cap (1 .. day)) = day
  <2>1. days \cap (1 .. day) = 1 .. day /\ day \in Nat /\ day >= 1
    BY ServicesAssumption DEF DemosHeld
  <2>2. Cardinality(1 .. day) = IF 1 > day THEN 0 ELSE day - 1 + 1
    BY <2>1, FS_Interval
  <2>3. Cardinality(1 .. day) = day
    BY <2>1, <2>2
  <2>. QED
    BY <2>1, <2>3
<1>7. Cardinality(Claimed \ Rings) + 2 * Cardinality(Claimed \cap Rings) <= Budget * day
  BY <1>5, <1>6 DEF DemosHeld, BudgetHeld, Demos!SettleCost
<1>8. Cardinality(out \ settlements) + 2 * Cardinality(settlements) <= Budget * day
  <2>. HIDE DEF out, settlements, days
  <2>1. PICK total \in Int : total = Budget * day
    BY ServicesAssumption DEF DemosHeld
  <2>. QED
    BY <1>4, <1>7, <2>1
<1>. QED
  <2>1. \A o \in out : broadcasts[o] = 1
    BY <1>1
  <2>2. Cardinality(out \ settlements) + Demos!SettleCost * Cardinality(settlements) <= Budget * day
    BY <1>8 DEF Demos!SettleCost
  <2>3. \A S : Demos!Cardinality(S) = Cardinality(S)
    BY Zenon DEF Demos!Cardinality, Cardinality
  <2>. QED
    BY <2>1, <2>2, <2>3, Zenon DEF Demos!SpentWithinBudget

\* What the page shows as settled landed, and only rings that landed are settled.
THEOREM ShownCorrect == ServicesSpec => []ShownAsDone
<1>1. ServicesInit => (part = "demo" => DemosHeld)
  BY DemosInit DEF ServicesInit
<1>2. (part = "demo" => DemosHeld) /\ [ServicesNext]_<<part, servicesVars>>
         => (part = "demo" => DemosHeld)'
  BY DemosStays
<1>3. DemosHeld => Demos!ShownAsDone
  BY DEF DemosHeld, PageHeld, ClaimsHeld, Demos!ShownAsDone
<1>. QED
  BY <1>1, <1>2, <1>3, PTL DEF ServicesSpec, ShownAsDone

\* Nothing is broadcast twice, and what is broadcast costs at most what the days
\* have reserved, each within its budget.
THEOREM BudgetCorrect == ServicesSpec => []SpentWithinBudget
<1>1. ServicesInit => (part = "demo" => DemosHeld)
  BY DemosInit DEF ServicesInit
<1>2. (part = "demo" => DemosHeld) /\ [ServicesNext]_<<part, servicesVars>>
         => (part = "demo" => DemosHeld)'
  BY DemosStays
<1>3. DemosHeld => Demos!SpentWithinBudget
  BY WithinBudget
<1>. QED
  BY <1>1, <1>2, <1>3, PTL DEF ServicesSpec, SpentWithinBudget

-----------------------------------------------------------------------------
(* Starter grants.                                                         *)

GrantPlaces == {"idle", "reading", "read", "reconciling", "limiting", "reserving", "sending",
                "submitting", "lost", "unrecorded", "waiting", "already", "refused", "granted"}
\* Where a request may be after its transfer was broadcast, and where it is only
\* then.
MayHaveSent == {"submitting", "lost", "unrecorded", "waiting", "refused", "granted"}
HasSent == {"submitting", "unrecorded", "waiting"}

GrantRows == [status : {"none", "reserved", "submitted", "unknown", "reverted", "confirmed"},
              tx : Asks \cup {NoAsk}]
GrantAsks == [at : GrantPlaces, to : Grantees \cup {NoAsk}, day : 0 .. LastDay]

Sent(k) == transfers[k] # "none"
Paid(n) == n \in GrantedBefore \/ \E k \in Asks : transfers[k] = "success" /\ asks[k].to = n

\* Who has the reservation of an address: it will send, or has sent.
Holds(k) == asks[k].at = "sending" \/ Sent(k)

GrantTypes ==
    /\ operations \in [Grantees -> GrantRows]
    /\ transfers \in [Asks -> {"none", "pending", "success", "reverted"}]
    /\ granted \in [Grantees -> Asks \cup {NoAsk}]
    /\ counted \in [1 .. LastDay -> Nat]
    /\ today \in 1 .. LastDay
    /\ asks \in [Asks -> GrantAsks]

AsksHeld ==
    /\ \A k \in Asks :
          /\ asks[k].at # "idle" => asks[k].to \in Grantees
          /\ Sent(k) => asks[k].at \in MayHaveSent
          /\ asks[k].at \in HasSent => Sent(k)
          /\ asks[k].at = "reconciling" => operations[asks[k].to].tx # NoAsk
          /\ asks[k].at \in {"already", "granted"} => Paid(asks[k].to)
    /\ \A j, k \in Asks : Holds(j) /\ Holds(k) /\ asks[j].to = asks[k].to => j = k

\* What the row of an address says is so.
RowHeld(n, word, tx) ==
    /\ tx # NoAsk => Sent(tx) /\ asks[tx].to = n
    /\ word = "none" => \A k \in Asks : asks[k].to = n => ~ Holds(k)
    /\ word = "reverted" => \E k \in Asks : asks[k].to = n /\ transfers[k] = "reverted"
    /\ word = "confirmed" => Paid(n)
GrantedHeld(n, tx) == tx # NoAsk => transfers[tx] = "success" /\ asks[tx].to = n
RowsHeld == \A n \in Grantees : /\ RowHeld(n, operations[n].status, operations[n].tx)
                                /\ GrantedHeld(n, granted[n])

\* Requests that were counted and go on are within the day's counter and cap.
Taken(n) == {k \in Asks : asks[k].day = n /\ (asks[k].at = "reserving" \/ Holds(k))}
DaysHeld ==
    \A n \in 1 .. LastDay : Cardinality(Taken(n)) <= counted[n] /\ Cardinality(Taken(n)) <= DailyGrants

GrantsHeld == GrantTypes /\ AsksHeld /\ RowsHeld /\ DaysHeld

\* Dropping a request from those that were counted keeps within the cap.
LEMMA FewerTaken ==
    ASSUME GrantsHeld, NEW n \in 1 .. LastDay, NEW T \in SUBSET Taken(n)
    PROVE  /\ IsFiniteSet(Taken(n)) /\ Cardinality(Taken(n)) \in Nat
           /\ Cardinality(T) <= counted[n] /\ Cardinality(T) <= DailyGrants
<1>1. IsFiniteSet(Taken(n))
  BY ServicesAssumption, FS_Subset DEF Taken
<1>2. Cardinality(T) <= Cardinality(Taken(n)) /\ Cardinality(T) \in Nat /\ Cardinality(Taken(n)) \in Nat
  BY <1>1, FS_Subset, FS_CardinalityType
<1>3. /\ Cardinality(Taken(n)) <= counted[n] /\ Cardinality(Taken(n)) <= DailyGrants
      /\ counted[n] \in Nat /\ DailyGrants \in Nat
  BY ServicesAssumption DEF GrantsHeld, DaysHeld, GrantTypes
<1>. QED
  BY <1>1, <1>2, <1>3

\* A request that moves on.
LEMMA AskGoes ==
    ASSUME GrantsHeld, NEW k \in Asks, NEW place \in GrantPlaces, Grants!Go(k, place)
    PROVE  /\ asks' \in [Asks -> GrantAsks]
           /\ asks'[k].at = place /\ asks'[k].to = asks[k].to /\ asks'[k].day = asks[k].day
           /\ \A j \in Asks \ {k} : asks'[j] = asks[j]
<1>1. PICK old \in GrantAsks : old = asks[k]
  BY DEF GrantsHeld, GrantTypes
<1>2. PICK new : new = [old EXCEPT !.at = place]
  OBVIOUS
<1>3. new \in GrantAsks /\ new.at = place /\ new.to = old.to /\ new.day = old.day
  BY <1>2 DEF GrantAsks
<1>4. asks \in [Asks -> GrantAsks] /\ asks' = [asks EXCEPT ![k] = new]
  BY <1>1, <1>2 DEF Grants!Go, GrantsHeld, GrantTypes
<1>. QED
  BY <1>1, <1>3, <1>4

\* The rows of an address are written, and what they say is so.
Written(n) ==
    /\ operations' \in [Grantees -> GrantRows]
    /\ granted' \in [Grantees -> Asks \cup {NoAsk}]
    /\ \A m \in Grantees \ {n} : operations'[m] = operations[m] /\ granted'[m] = granted[m]
    /\ RowHeld(n, operations'[n].status, operations'[n].tx)
    /\ GrantedHeld(n, granted'[n])
    /\ operations[n].tx # NoAsk => operations'[n].tx # NoAsk

\* A request that goes on without taking the reservation, whatever it writes to
\* the row of its address, as long as what it writes is so.
LEMMA AskMoves ==
    ASSUME GrantsHeld, NEW k \in Asks, asks[k].at # "idle",
           NEW place \in GrantPlaces \ {"idle", "reserving", "sending"}, Grants!Go(k, place),
           UNCHANGED <<transfers, counted, today>>,
           NEW n \in Grantees, n = asks[k].to, Written(n),
           Sent(k) => place \in MayHaveSent, place \in HasSent => Sent(k),
           place = "reconciling" => operations'[n].tx # NoAsk,
           place \in {"already", "granted"} => Paid(n)
    PROVE  GrantsHeld'
<1>1. /\ asks' \in [Asks -> GrantAsks]
      /\ asks'[k].at = place /\ asks'[k].to = n /\ asks'[k].day = asks[k].day
      /\ \A j \in Asks \ {k} : asks'[j] = asks[j]
  BY AskGoes
<1>2. \A j \in Asks : /\ Sent(j)' <=> Sent(j)
                      /\ Holds(j)' => Holds(j)
                      /\ asks'[j].to = asks[j].to /\ asks'[j].day = asks[j].day
  BY <1>1 DEF Sent, Holds
<1>3. \A m : Paid(m)' <=> Paid(m)
  BY <1>2 DEF Paid
<1>4. GrantTypes'
  BY <1>1 DEF GrantsHeld, GrantTypes, Written
<1>5. AsksHeld'
  <2>1. \A j \in Asks : asks[j].at # "idle" => asks[j].to \in Grantees
    BY DEF GrantsHeld, AsksHeld
  <2>2. \A j \in Asks \ {k} : asks[j].at = "reconciling" => operations'[asks[j].to].tx # NoAsk
    BY <2>1 DEF GrantsHeld, AsksHeld, Written
  <2>3. \A j \in Asks : /\ asks'[j].at # "idle" => asks'[j].to \in Grantees
                        /\ Sent(j)' => asks'[j].at \in MayHaveSent
                        /\ asks'[j].at \in HasSent => Sent(j)'
                        /\ asks'[j].at = "reconciling" => operations'[asks'[j].to].tx # NoAsk
    BY <1>1, <1>2, <2>1, <2>2 DEF GrantsHeld, AsksHeld
  <2>4. \A i, j \in Asks : Holds(i)' /\ Holds(j)' /\ asks'[i].to = asks'[j].to => i = j
    BY <1>2 DEF GrantsHeld, AsksHeld
  <2>5. ASSUME NEW j \in Asks, asks'[j].at \in {"already", "granted"}
        PROVE  Paid(asks[j].to)'
    <3>1. PICK m : m = asks[j].to
      OBVIOUS
    <3>2. Paid(m)
      BY <1>1, <2>5, <3>1 DEF GrantsHeld, AsksHeld
    <3>. QED
      BY <1>2, <1>3, <3>1, <3>2 DEF Paid
  <2>. QED
    BY <2>3, <2>4, <2>5 DEF AsksHeld
<1>6. RowsHeld'
  <2>1. ASSUME NEW m \in Grantees, NEW word, NEW tx \in Asks \cup {NoAsk}, RowHeld(m, word, tx)
        PROVE  RowHeld(m, word, tx)'
    BY <1>2, <1>3, <2>1 DEF RowHeld
  <2>2. ASSUME NEW m \in Grantees, NEW tx \in Asks \cup {NoAsk}, GrantedHeld(m, tx)
        PROVE  GrantedHeld(m, tx)'
    BY <1>2, <2>2 DEF GrantedHeld
  <2>3. \A m \in Grantees : /\ operations'[m].tx \in Asks \cup {NoAsk}
                            /\ RowHeld(m, operations'[m].status, operations'[m].tx)
                            /\ granted'[m] \in Asks \cup {NoAsk} /\ GrantedHeld(m, granted'[m])
    BY DEF GrantsHeld, RowsHeld, GrantRows, Written
  <2>4. ASSUME NEW m \in Grantees
        PROVE  RowHeld(m, operations[m].status, operations[m].tx)' /\ GrantedHeld(m, granted[m])'
    <3>1. PICK word, tx, paid : word = operations'[m].status /\ tx = operations'[m].tx /\ paid = granted'[m]
      OBVIOUS
    <3>2. RowHeld(m, word, tx)' /\ GrantedHeld(m, paid)'
      BY <2>1, <2>2, <2>3, <3>1
    <3>. QED
      BY <3>1, <3>2 DEF RowHeld, GrantedHeld
  <2>. QED
    BY <2>4 DEF RowsHeld
<1>7. DaysHeld'
  <2>1. ASSUME NEW m \in 1 .. LastDay
        PROVE  Cardinality(Taken(m)') <= counted[m] /\ Cardinality(Taken(m)') <= DailyGrants
    <3>1. Taken(m)' \in SUBSET Taken(m)
      BY <1>1, <1>2 DEF Taken
    <3>. QED
      BY <3>1, FewerTaken
  <2>2. counted' = counted
    OBVIOUS
  <2>. QED
    BY <2>1, <2>2 DEF DaysHeld
<1>. QED
  BY <1>4, <1>5, <1>6, <1>7 DEF GrantsHeld

LEMMA NothingWritten ==
    ASSUME GrantsHeld, NEW n \in Grantees, UNCHANGED <<operations, granted>>
    PROVE  Written(n)
BY DEF GrantsHeld, GrantTypes, RowsHeld, Written

LEMMA RowWritten ==
    ASSUME GrantsHeld, NEW n \in Grantees,
           NEW word \in {"reserved", "submitted", "unknown", "reverted", "confirmed"},
           NEW tx \in Asks \cup {NoAsk}, Grants!SetOperation(n, word, tx), RowHeld(n, word, tx),
           operations[n].tx # NoAsk => tx # NoAsk,
           granted' \in [Grantees -> Asks \cup {NoAsk}], GrantedHeld(n, granted'[n]),
           \A m \in Grantees \ {n} : granted'[m] = granted[m]
    PROVE  Written(n)
<1>1. PICK new : new = [status |-> word, tx |-> tx]
  OBVIOUS
<1>2. new \in GrantRows /\ new.status = word /\ new.tx = tx
  BY <1>1 DEF GrantRows
<1>3. operations' = [operations EXCEPT ![n] = new] /\ operations \in [Grantees -> GrantRows]
  BY <1>1 DEF Grants!SetOperation, GrantsHeld, GrantTypes
<1>4. /\ operations' \in [Grantees -> GrantRows] /\ operations'[n] = new
      /\ \A m \in Grantees \ {n} : operations'[m] = operations[m]
  BY <1>2, <1>3
<1>5. operations'[n].status = word /\ operations'[n].tx = tx
  BY <1>2, <1>4
<1>. QED
  BY <1>4, <1>5 DEF Written

\* A row that is written for a transfer of the address, its grant unchanged.
LEMMA SetIsSo ==
    ASSUME GrantsHeld, NEW n \in Grantees, UNCHANGED granted,
           NEW word \in {"submitted", "unknown"},
           NEW tx \in Asks \cup {NoAsk}, Grants!SetOperation(n, word, tx),
           tx # NoAsk => Sent(tx) /\ asks[tx].to = n,
           operations[n].tx # NoAsk => tx # NoAsk
    PROVE  Written(n)
<1>1. RowHeld(n, word, tx)
  BY DEF RowHeld
<1>2. GrantedHeld(n, granted'[n]) /\ granted' \in [Grantees -> Asks \cup {NoAsk}]
  BY DEF GrantsHeld, RowsHeld, GrantTypes
<1>. QED
  BY <1>1, <1>2, RowWritten

LEMMA SubmittedIsSo ==
    ASSUME GrantsHeld, NEW k \in Asks, Sent(k), asks[k].to \in Grantees,
           Grants!markSubmitted(asks[k].to, k)
    PROVE  Written(asks[k].to)
<1>1. PICK n \in Grantees : n = asks[k].to
  OBVIOUS
<1>2. k # NoAsk
  BY ServicesAssumption
<1>. QED
  BY <1>1, <1>2, SetIsSo, NothingWritten DEF Grants!markSubmitted

LEMMA UnknownIsSo ==
    ASSUME GrantsHeld, NEW k \in Asks, asks[k].to \in Grantees, NEW tx \in {NoAsk, k},
           tx = k => Sent(k), Grants!markUnknown(asks[k].to, tx)
    PROVE  Written(asks[k].to)
<1>1. PICK n \in Grantees : n = asks[k].to
  OBVIOUS
<1>2. PICK kept : kept = operations[n].tx
  OBVIOUS
<1>3. kept \in Asks \cup {NoAsk} /\ (kept # NoAsk => Sent(kept) /\ asks[kept].to = n)
  BY <1>2 DEF GrantsHeld, GrantTypes, GrantRows, RowsHeld, RowHeld
<1>4. PICK new : new = IF tx = NoAsk THEN kept ELSE tx
  OBVIOUS
<1>5. /\ new \in Asks \cup {NoAsk} /\ (new # NoAsk => Sent(new) /\ asks[new].to = n)
      /\ operations[n].tx # NoAsk => new # NoAsk
  BY <1>1, <1>2, <1>3, <1>4
<1>6. CASE Grants!SetOperation(n, "unknown", new) /\ UNCHANGED granted
  BY <1>1, <1>5, <1>6, SetIsSo
<1>7. CASE UNCHANGED <<operations, granted>>
  BY <1>1, <1>7, NothingWritten
<1>. QED
  BY <1>1, <1>2, <1>4, <1>6, <1>7 DEF Grants!markUnknown

LEMMA RevertedIsSo ==
    ASSUME GrantsHeld, NEW tx \in Asks, transfers[tx] = "reverted", NEW n \in Grantees, asks[tx].to = n,
           Grants!markReverted(n)
    PROVE  Written(n)
<1>1. PICK kept : kept = operations[n].tx
  OBVIOUS
<1>2. kept \in Asks \cup {NoAsk} /\ (kept # NoAsk => Sent(kept) /\ asks[kept].to = n)
  BY <1>1 DEF GrantsHeld, GrantTypes, GrantRows, RowsHeld, RowHeld
<1>3. RowHeld(n, "reverted", kept)
  BY <1>2 DEF RowHeld
<1>4. GrantedHeld(n, granted[n]) /\ granted \in [Grantees -> Asks \cup {NoAsk}]
  BY DEF GrantsHeld, RowsHeld, GrantTypes
<1>5. CASE Grants!SetOperation(n, "reverted", kept) /\ UNCHANGED granted
  BY <1>1, <1>2, <1>3, <1>4, <1>5, RowWritten
<1>6. CASE UNCHANGED <<operations, granted>>
  BY <1>6, NothingWritten
<1>. QED
  BY <1>1, <1>5, <1>6 DEF Grants!markReverted

LEMMA CompleteIsSo ==
    ASSUME GrantsHeld, NEW tx \in Asks, transfers[tx] = "success", NEW n \in Grantees, asks[tx].to = n,
           Grants!complete(n, tx)
    PROVE  Written(n) /\ Paid(n)
<1>1. Paid(n) /\ Sent(tx) /\ tx # NoAsk
  BY ServicesAssumption DEF Paid, Sent
<1>2. /\ granted' \in [Grantees -> Asks \cup {NoAsk}] /\ granted'[n] = tx
      /\ \A m \in Grantees \ {n} : granted'[m] = granted[m]
  BY DEF Grants!complete, GrantsHeld, GrantTypes
<1>3. GrantedHeld(n, granted'[n])
  BY <1>2 DEF GrantedHeld
<1>4. CASE Grants!SetOperation(n, "confirmed", tx)
  <2>1. RowHeld(n, "confirmed", tx)
    BY <1>1 DEF RowHeld
  <2>. QED
    BY <1>1, <1>2, <1>3, <1>4, <2>1, RowWritten
<1>5. CASE UNCHANGED operations
  BY <1>1, <1>2, <1>3, <1>5 DEF Written, GrantsHeld, GrantTypes, RowsHeld
<1>. QED
  BY <1>1, <1>4, <1>5 DEF Grants!complete

LEMMA GrantsInit ==
    ASSUME Grants!Init
    PROVE  GrantsHeld
<1>. DEFINE blank == [at |-> "idle", to |-> NoAsk, day |-> 0]
<1>1. /\ transfers = [k \in Asks |-> "none"] /\ granted = [n \in Grantees |-> NoAsk]
      /\ counted = [n \in 1 .. LastDay |-> 0] /\ today = 1 /\ asks = [k \in Asks |-> blank]
  BY DEF Grants!Init
<1>2. blank \in GrantAsks /\ blank.at = "idle" /\ today \in 1 .. LastDay /\ 0 \in Nat
  BY <1>1, ServicesAssumption DEF GrantAsks, GrantPlaces
<1>. HIDE DEF blank
<1>3. \A k \in Asks : asks[k].at = "idle" /\ ~ Sent(k) /\ ~ Holds(k)
  BY <1>1, <1>2 DEF Sent, Holds
<1>4. \A n \in Grantees : /\ operations[n] \in GrantRows
                          /\ operations[n].tx = NoAsk
                          /\ operations[n].status = IF n \in GrantedBefore THEN "confirmed" ELSE "none"
  BY DEF Grants!Init, GrantRows
<1>5. operations \in [Grantees -> GrantRows]
  <2>1. operations = [n \in Grantees |-> operations[n]]
    BY DEF Grants!Init
  <2>. QED
    BY <1>4, <2>1
<1>6. GrantTypes
  BY <1>1, <1>2, <1>5 DEF GrantTypes
<1>7. AsksHeld
  BY <1>3 DEF AsksHeld, HasSent
<1>8. RowsHeld
  BY <1>1, <1>3, <1>4 DEF RowsHeld, RowHeld, GrantedHeld, Paid
<1>9. DaysHeld
  <2>1. \A n : Taken(n) = {}
    BY <1>3 DEF Taken
  <2>2. \A n \in 1 .. LastDay : counted[n] = 0 /\ DailyGrants >= 0
    BY <1>1, ServicesAssumption
  <2>3. Cardinality({}) = 0
    BY FS_EmptySet
  <2>. QED
    BY <2>1, <2>2, <2>3 DEF DaysHeld
<1>. QED
  BY <1>6, <1>7, <1>8, <1>9 DEF GrantsHeld

\* A new request holds nothing yet.
LEMMA AskBegins ==
    ASSUME GrantsHeld, NEW k \in Asks, NEW n \in Grantees, Grants!Ask(k, n)
    PROVE  GrantsHeld'
<1>1. PICK new : new = [at |-> "reading", to |-> n, day |-> 0]
  OBVIOUS
<1>2. /\ asks[k].at = "idle" /\ asks' = [asks EXCEPT ![k] = new]
      /\ UNCHANGED <<operations, transfers, granted, counted, today>>
  BY <1>1 DEF Grants!Ask, Grants!At
<1>3. new \in GrantAsks /\ new.at = "reading" /\ new.to = n /\ new.day = 0
  BY <1>1, ServicesAssumption DEF GrantAsks, GrantPlaces
<1>4. /\ asks' \in [Asks -> GrantAsks] /\ asks'[k] = new
      /\ \A j \in Asks \ {k} : asks'[j] = asks[j]
  BY <1>2, <1>3 DEF GrantsHeld, GrantTypes
<1>5. ~ Sent(k) /\ ~ Holds(k) /\ ~ Holds(k)' /\ \A j \in Asks : Sent(j)' <=> Sent(j)
  BY <1>2, <1>3, <1>4 DEF GrantsHeld, AsksHeld, MayHaveSent, Sent, Holds
<1>6. \A j \in Asks : Holds(j)' => Holds(j) /\ j # k
  BY <1>4, <1>5 DEF Holds
<1>7. \A m : Paid(m) => Paid(m)'
  BY <1>2, <1>4, <1>5 DEF Paid, Sent
<1>8. AsksHeld'
  <2>1. ASSUME NEW j \in Asks, asks'[j].at \in {"already", "granted"}
        PROVE  Paid(asks[j].to)'
    <3>1. PICK m : m = asks[j].to
      OBVIOUS
    <3>2. j # k /\ Paid(m)
      BY <1>3, <1>4, <2>1, <3>1 DEF GrantsHeld, AsksHeld
    <3>3. Paid(m)'
      BY <1>7, <3>2
    <3>. QED
      BY <1>4, <3>1, <3>2, <3>3 DEF Paid
  <2>2. \A j \in Asks : /\ asks'[j].at # "idle" => asks'[j].to \in Grantees
                        /\ Sent(j)' => asks'[j].at \in MayHaveSent
                        /\ asks'[j].at \in HasSent => Sent(j)'
                        /\ asks'[j].at = "reconciling" => operations'[asks'[j].to].tx # NoAsk
    BY <1>2, <1>3, <1>4, <1>5 DEF GrantsHeld, AsksHeld, HasSent
  <2>3. \A i, j \in Asks : Holds(i)' /\ Holds(j)' /\ asks'[i].to = asks'[j].to => i = j
    BY <1>4, <1>6 DEF GrantsHeld, AsksHeld
  <2>. QED
    BY <2>1, <2>2, <2>3 DEF AsksHeld
<1>9. RowsHeld'
  <2>1. \A m \in Grantees : operations[m].tx \in Asks \cup {NoAsk} /\ granted[m] \in Asks \cup {NoAsk}
    BY DEF GrantsHeld, GrantTypes, GrantRows
  <2>2. ASSUME NEW m \in Grantees
        PROVE  RowHeld(m, operations[m].status, operations[m].tx)'
    <3>1. PICK word, tx : word = operations[m].status /\ tx = operations[m].tx
      OBVIOUS
    <3>2. RowHeld(m, word, tx) /\ tx \in Asks \cup {NoAsk}
      BY <2>1, <3>1 DEF GrantsHeld, RowsHeld
    <3>3. tx # NoAsk => Sent(tx)' /\ asks'[tx].to = m
      BY <1>4, <1>5, <3>2 DEF RowHeld
    <3>4. word = "none" => \A j \in Asks : asks'[j].to = m => ~ Holds(j)'
      BY <1>4, <1>6, <3>2 DEF RowHeld
    <3>5. word = "reverted" => \E j \in Asks : asks'[j].to = m /\ transfers'[j] = "reverted"
      BY <1>2, <1>4, <1>5, <3>2 DEF RowHeld, Sent
    <3>6. word = "confirmed" => Paid(m)'
      BY <1>7, <3>2 DEF RowHeld
    <3>. QED
      BY <1>2, <3>1, <3>3, <3>4, <3>5, <3>6 DEF RowHeld
  <2>3. ASSUME NEW m \in Grantees
        PROVE  GrantedHeld(m, granted[m])'
    <3>1. granted[m] # NoAsk => transfers[granted[m]] = "success" /\ asks[granted[m]].to = m
      BY DEF GrantsHeld, RowsHeld, GrantedHeld
    <3>2. granted[m] # NoAsk => granted[m] # k
      BY <1>5, <3>1 DEF Sent
    <3>. QED
      BY <1>2, <1>4, <2>1, <3>1, <3>2 DEF GrantedHeld
  <2>. QED
    BY <2>2, <2>3 DEF RowsHeld
<1>10. DaysHeld'
  <2>1. ASSUME NEW m \in 1 .. LastDay
        PROVE  Cardinality(Taken(m)') <= counted[m] /\ Cardinality(Taken(m)') <= DailyGrants
    <3>1. Taken(m)' \in SUBSET Taken(m)
      BY <1>3, <1>4, <1>5, <1>6 DEF Taken
    <3>. QED
      BY <3>1, FewerTaken
  <2>. QED
    BY <1>2, <2>1 DEF DaysHeld
<1>11. GrantTypes'
  BY <1>2, <1>4 DEF GrantsHeld, GrantTypes
<1>. QED
  BY <1>8, <1>9, <1>10, <1>11 DEF GrantsHeld

LEMMA AskMovesOnly ==
    ASSUME GrantsHeld, NEW k \in Asks, asks[k].at # "idle",
           NEW place \in GrantPlaces \ {"idle", "reserving", "sending"}, Grants!Go(k, place),
           UNCHANGED <<operations, transfers, granted, counted, today>>,
           Sent(k) => place \in MayHaveSent, place \in HasSent => Sent(k),
           place = "reconciling" => operations[asks[k].to].tx # NoAsk,
           place \in {"already", "granted"} => Paid(asks[k].to)
    PROVE  GrantsHeld'
<1>1. PICK n \in Grantees : n = asks[k].to
  BY DEF GrantsHeld, AsksHeld
<1>2. Written(n)
  BY NothingWritten
<1>3. /\ place = "reconciling" => operations'[n].tx # NoAsk
      /\ place \in {"already", "granted"} => Paid(n)
  BY <1>1
<1>. QED
  BY <1>1, <1>2, <1>3, AskMoves

\* A request is counted before it goes on, and refused past the cap.
LEMMA AskIsCounted ==
    ASSUME GrantsHeld, NEW k \in Asks, Grants!CountGrant(k)
    PROVE  GrantsHeld'
<1>1. asks[k].at = "limiting" /\ ~ Sent(k) /\ ~ Holds(k)
      /\ UNCHANGED <<operations, transfers, granted, today>>
  BY DEF Grants!CountGrant, Grants!At, GrantsHeld, AsksHeld, MayHaveSent, Holds
<1>2. CASE Grants!Go(k, "refused") /\ UNCHANGED counted
  BY <1>1, <1>2, AskMovesOnly DEF GrantPlaces, HasSent
<1>3. ASSUME NEW place \in {"refused", "reserving"},
             place = IF counted[today] + 1 > DailyGrants THEN "refused" ELSE "reserving",
             counted' = [counted EXCEPT ![today] = @ + 1],
             asks' = [asks EXCEPT ![k].day = today, ![k].at = place]
      PROVE  GrantsHeld'
  <2>1. PICK old \in GrantAsks : old = asks[k]
    BY DEF GrantsHeld, GrantTypes
  <2>2. PICK new : new = [old EXCEPT !.day = today, !.at = place]
    OBVIOUS
  <2>3. today \in 1 .. LastDay /\ today \in 0 .. LastDay
    BY DEF GrantsHeld, GrantTypes
  <2>4. new \in GrantAsks /\ new.at = place /\ new.to = old.to /\ new.day = today
    BY <2>2, <2>3 DEF GrantAsks, GrantPlaces
  <2>5. asks' = [asks EXCEPT ![k] = new] /\ asks \in [Asks -> GrantAsks]
    BY <1>3, <2>1, <2>2 DEF GrantsHeld, GrantTypes
  <2>6. /\ asks' \in [Asks -> GrantAsks] /\ asks'[k] = new
        /\ asks'[k].at = place /\ asks'[k].to = asks[k].to /\ asks'[k].day = today
        /\ \A j \in Asks \ {k} : asks'[j] = asks[j]
    BY <2>1, <2>4, <2>5
  <2>7. \A j \in Asks : /\ Sent(j)' <=> Sent(j)
                        /\ Holds(j)' <=> Holds(j)
                        /\ asks'[j].to = asks[j].to
    BY <1>1, <2>6 DEF Sent, Holds
  <2>8. \A m : Paid(m)' <=> Paid(m)
    BY <1>1, <2>7 DEF Paid
  <2>9. PICK count \in Nat : count = counted[today]
    BY <2>3 DEF GrantsHeld, GrantTypes
  <2>10. /\ counted' \in [1 .. LastDay -> Nat] /\ counted'[today] = count + 1
         /\ \A m \in 1 .. LastDay : m # today => counted'[m] = counted[m]
    BY <1>3, <2>3, <2>9 DEF GrantsHeld, GrantTypes
  <2>11. AsksHeld'
    <3>1. ASSUME NEW j \in Asks, asks'[j].at \in {"already", "granted"}
          PROVE  Paid(asks[j].to)'
      <4>1. PICK m : m = asks[j].to
        OBVIOUS
      <4>2. Paid(m)
        BY <2>6, <3>1, <4>1 DEF GrantsHeld, AsksHeld
      <4>3. Paid(m)'
        BY <2>8, <4>2
      <4>. QED
        BY <2>7, <4>1, <4>3 DEF Paid
    <3>2. \A j \in Asks : /\ asks'[j].at # "idle" => asks'[j].to \in Grantees
                          /\ Sent(j)' => asks'[j].at \in MayHaveSent
                          /\ asks'[j].at \in HasSent => Sent(j)'
                          /\ asks'[j].at = "reconciling" => operations'[asks'[j].to].tx # NoAsk
      BY <1>1, <2>6, <2>7 DEF GrantsHeld, AsksHeld, HasSent
    <3>3. \A i, j \in Asks : Holds(i)' /\ Holds(j)' /\ asks'[i].to = asks'[j].to => i = j
      BY <2>7 DEF GrantsHeld, AsksHeld
    <3>. QED
      BY <3>1, <3>2, <3>3 DEF AsksHeld
  <2>12. RowsHeld'
    <3>1. ASSUME NEW m \in Grantees
          PROVE  RowHeld(m, operations[m].status, operations[m].tx)' /\ GrantedHeld(m, granted[m])'
      <4>1. /\ operations[m].tx \in Asks \cup {NoAsk} /\ granted[m] \in Asks \cup {NoAsk}
            /\ RowHeld(m, operations[m].status, operations[m].tx) /\ GrantedHeld(m, granted[m])
        BY DEF GrantsHeld, GrantTypes, GrantRows, RowsHeld
      <4>. QED
        BY <1>1, <2>7, <2>8, <4>1 DEF RowHeld, GrantedHeld
    <3>. QED
      BY <3>1 DEF RowsHeld
  <2>13. DaysHeld'
    <3>1. ASSUME NEW m \in 1 .. LastDay
          PROVE  Cardinality(Taken(m)') <= counted'[m] /\ Cardinality(Taken(m)') <= DailyGrants
      <4>1. CASE m # today \/ place = "refused"
        <5>1. Taken(m)' \in SUBSET Taken(m)
          BY <1>1, <2>6, <2>7, <4>1 DEF Taken
        <5>2. Cardinality(Taken(m)') <= counted[m] /\ Cardinality(Taken(m)') <= DailyGrants
              /\ Cardinality(Taken(m)') \in Nat
          BY <5>1, FewerTaken, FS_Subset, FS_CardinalityType
        <5>3. counted[m] <= counted'[m] /\ counted[m] \in Nat /\ counted'[m] \in Nat
          BY <2>9, <2>10 DEF GrantsHeld, GrantTypes
        <5>. QED
          BY <5>2, <5>3
      <4>2. CASE m = today /\ place = "reserving"
        <5>1. Taken(m)' = Taken(m) \cup {k} /\ k \notin Taken(m)
          BY <1>1, <2>6, <2>7, <4>2 DEF Taken
        <5>2. Taken(m) \in SUBSET Taken(m)
          OBVIOUS
        <5>3. /\ IsFiniteSet(Taken(m)) /\ Cardinality(Taken(m)) \in Nat
              /\ Cardinality(Taken(m)) <= count
          BY <2>9, <4>2, <5>2, FewerTaken
        <5>4. Cardinality(Taken(m)') = Cardinality(Taken(m)) + 1
          BY <5>1, <5>3, FS_AddElement
        <5>5. count + 1 <= DailyGrants
          BY <1>3, <2>9, <4>2, ServicesAssumption
        <5>. QED
          BY <2>10, <4>2, <5>3, <5>4, <5>5, ServicesAssumption
      <4>. QED
        BY <4>1, <4>2
    <3>. QED
      BY <3>1 DEF DaysHeld
  <2>14. GrantTypes'
    BY <1>1, <2>6, <2>10 DEF GrantsHeld, GrantTypes
  <2>. QED
    BY <2>11, <2>12, <2>13, <2>14 DEF GrantsHeld
<1>. QED
  BY <1>1, <1>2, <1>3 DEF Grants!CountGrant

\* The reservation of an address is taken when nobody has it.
LEMMA AskReserves ==
    ASSUME GrantsHeld, NEW k \in Asks, asks[k].at = "reserving",
           operations[asks[k].to].status = "none", Grants!reserve(asks[k].to),
           Grants!Go(k, "sending"), UNCHANGED <<transfers, counted, today>>
    PROVE  GrantsHeld'
<1>1. PICK n \in Grantees : n = asks[k].to
  BY DEF GrantsHeld, AsksHeld
<1>2. PICK new : new = [status |-> "reserved", tx |-> NoAsk]
  OBVIOUS
<1>3. new \in GrantRows /\ new.status = "reserved" /\ new.tx = NoAsk
  BY <1>2 DEF GrantRows
<1>4. operations' = [operations EXCEPT ![n] = new] /\ granted' = granted
  BY <1>1, <1>2 DEF Grants!reserve, Grants!SetOperation
<1>5. /\ operations' \in [Grantees -> GrantRows] /\ operations'[n] = new
      /\ \A m \in Grantees \ {n} : operations'[m] = operations[m]
  BY <1>3, <1>4 DEF GrantsHeld, GrantTypes
<1>6. RowHeld(n, "none", operations[n].tx)
  BY <1>1 DEF GrantsHeld, RowsHeld
<1>7. (\A j \in Asks : asks[j].to = n => ~ Holds(j)) /\ operations[n].tx = NoAsk
  <2>1. operations[n].tx \in Asks \cup {NoAsk}
    BY DEF GrantsHeld, GrantTypes, GrantRows
  <2>. QED
    BY <1>6, <2>1 DEF RowHeld, Holds
<1>8. /\ asks' \in [Asks -> GrantAsks]
      /\ asks'[k].at = "sending" /\ asks'[k].to = n /\ asks'[k].day = asks[k].day
      /\ \A j \in Asks \ {k} : asks'[j] = asks[j]
  <2>1. "sending" \in GrantPlaces
    BY DEF GrantPlaces
  <2>. QED
    BY <1>1, <2>1, AskGoes
<1>9. \A j \in Asks : /\ Sent(j)' <=> Sent(j)
                      /\ Holds(j)' <=> Holds(j) \/ j = k
                      /\ asks'[j].to = asks[j].to /\ asks'[j].day = asks[j].day
  BY <1>1, <1>8 DEF Sent, Holds
<1>10. \A m : Paid(m)' <=> Paid(m)
  BY <1>9 DEF Paid
<1>11. AsksHeld'
  <2>1. ASSUME NEW j \in Asks, asks'[j].at \in {"already", "granted"}
        PROVE  Paid(asks[j].to)'
    <3>1. PICK m : m = asks[j].to
      OBVIOUS
    <3>2. Paid(m)
      BY <1>8, <2>1, <3>1 DEF GrantsHeld, AsksHeld
    <3>3. Paid(m)'
      BY <1>10, <3>2
    <3>. QED
      BY <1>9, <3>1, <3>3 DEF Paid
  <2>2. \A j \in Asks : /\ asks'[j].at # "idle" => asks'[j].to \in Grantees
                        /\ Sent(j)' => asks'[j].at \in MayHaveSent
                        /\ asks'[j].at \in HasSent => Sent(j)'
    BY <1>1, <1>7, <1>8, <1>9 DEF GrantsHeld, AsksHeld, HasSent, Holds
  <2>3. \A j \in Asks : asks'[j].at = "reconciling" => operations'[asks'[j].to].tx # NoAsk
    <3>1. SUFFICES ASSUME NEW j \in Asks, asks'[j].at = "reconciling"
                   PROVE  operations'[asks'[j].to].tx # NoAsk
      OBVIOUS
    <3>2. j # k /\ asks[j].at = "reconciling" /\ asks[j].to \in Grantees /\ operations[asks[j].to].tx # NoAsk
      BY <1>8, <3>1 DEF GrantsHeld, AsksHeld
    <3>. QED
      BY <1>5, <1>7, <1>9, <3>2
  <2>4. \A i, j \in Asks : Holds(i)' /\ Holds(j)' /\ asks'[i].to = asks'[j].to => i = j
    BY <1>1, <1>7, <1>9 DEF GrantsHeld, AsksHeld
  <2>. QED
    BY <2>1, <2>2, <2>3, <2>4 DEF AsksHeld
<1>12. RowsHeld'
  <2>1. ASSUME NEW m \in Grantees
        PROVE  RowHeld(m, operations[m].status, operations[m].tx)'
    <3>1. CASE m = n
      BY <1>3, <1>5, <3>1 DEF RowHeld
    <3>2. CASE m # n
      <4>1. /\ operations'[m] = operations[m] /\ operations[m].tx \in Asks \cup {NoAsk}
            /\ RowHeld(m, operations[m].status, operations[m].tx)
        BY <1>5, <3>2 DEF GrantsHeld, GrantTypes, GrantRows, RowsHeld
      <4>2. \A j \in Asks : asks[j].to = m => j # k
        BY <1>1, <3>2
      <4>. QED
        BY <1>9, <1>10, <4>1, <4>2 DEF RowHeld
    <3>. QED
      BY <3>1, <3>2
  <2>2. ASSUME NEW m \in Grantees
        PROVE  GrantedHeld(m, granted[m])'
    <3>1. granted[m] \in Asks \cup {NoAsk} /\ GrantedHeld(m, granted[m])
      BY DEF GrantsHeld, GrantTypes, RowsHeld
    <3>. QED
      BY <1>4, <1>9, <3>1 DEF GrantedHeld
  <2>. QED
    BY <2>1, <2>2 DEF RowsHeld
<1>13. DaysHeld'
  <2>1. ASSUME NEW m \in 1 .. LastDay
        PROVE  Cardinality(Taken(m)') <= counted[m] /\ Cardinality(Taken(m)') <= DailyGrants
    <3>1. Taken(m)' \in SUBSET Taken(m)
      BY <1>8, <1>9 DEF Taken
    <3>. QED
      BY <3>1, FewerTaken
  <2>. QED
    BY <2>1 DEF DaysHeld
<1>14. GrantTypes'
  BY <1>4, <1>5, <1>8 DEF GrantsHeld, GrantTypes
<1>. QED
  BY <1>11, <1>12, <1>13, <1>14 DEF GrantsHeld

\* Whoever has the reservation sends, or is told that it failed, or both.
LEMMA AskSends ==
    ASSUME GrantsHeld, NEW k \in Asks, Grants!Send(k)
    PROVE  GrantsHeld'
<1>1. PICK place \in {"submitting", "lost"} :
         /\ asks[k].at = "sending" /\ Grants!Go(k, place)
         /\ \/ transfers' = [transfers EXCEPT ![k] = "pending"]
            \/ transfers' = transfers /\ place = "lost"
         /\ UNCHANGED <<operations, granted, counted, today>>
  BY DEF Grants!Send, Grants!At
<1>2. /\ asks' \in [Asks -> GrantAsks]
      /\ asks'[k].at = place /\ asks'[k].to = asks[k].to /\ asks'[k].day = asks[k].day
      /\ \A j \in Asks \ {k} : asks'[j] = asks[j]
  <2>1. place \in GrantPlaces
    BY DEF GrantPlaces
  <2>. QED
    BY <1>1, <2>1, AskGoes
<1>3. Holds(k) /\ ~ Sent(k)
  BY <1>1 DEF GrantsHeld, AsksHeld, MayHaveSent, Holds
<1>4. /\ transfers' \in [Asks -> {"none", "pending", "success", "reverted"}]
      /\ transfers'[k] \in {"none", "pending"}
      /\ place = "submitting" => transfers'[k] = "pending"
      /\ \A j \in Asks \ {k} : transfers'[j] = transfers[j]
  BY <1>1, <1>3 DEF GrantsHeld, GrantTypes, Sent
<1>5. \A j \in Asks : /\ Sent(j) => Sent(j)'
                      /\ Sent(j)' => Sent(j) \/ j = k
                      /\ Holds(j)' => Holds(j)
                      /\ transfers[j] \in {"success", "reverted"} => transfers'[j] = transfers[j]
                      /\ transfers'[j] \in {"success", "reverted"} => transfers'[j] = transfers[j]
                      /\ asks'[j].to = asks[j].to /\ asks'[j].day = asks[j].day
  BY <1>1, <1>2, <1>3, <1>4 DEF Sent, Holds
<1>6. \A m : Paid(m)' <=> Paid(m)
  BY <1>5 DEF Paid
<1>7. AsksHeld'
  <2>1. ASSUME NEW j \in Asks, asks'[j].at \in {"already", "granted"}
        PROVE  Paid(asks[j].to)'
    <3>1. PICK m : m = asks[j].to
      OBVIOUS
    <3>2. Paid(m)
      BY <1>2, <2>1, <3>1 DEF GrantsHeld, AsksHeld
    <3>3. Paid(m)'
      BY <1>6, <3>2
    <3>. QED
      BY <1>5, <3>1, <3>3 DEF Paid
  <2>2. \A j \in Asks : /\ asks'[j].at # "idle" => asks'[j].to \in Grantees
                        /\ Sent(j)' => asks'[j].at \in MayHaveSent
                        /\ asks'[j].at = "reconciling" => operations'[asks'[j].to].tx # NoAsk
    BY <1>1, <1>2, <1>5 DEF GrantsHeld, AsksHeld, MayHaveSent
  <2>3. \A j \in Asks : asks'[j].at \in HasSent => Sent(j)'
    BY <1>2, <1>4, <1>5 DEF GrantsHeld, AsksHeld, HasSent, Sent
  <2>4. \A i, j \in Asks : Holds(i)' /\ Holds(j)' /\ asks'[i].to = asks'[j].to => i = j
    BY <1>5 DEF GrantsHeld, AsksHeld
  <2>. QED
    BY <2>1, <2>2, <2>3, <2>4 DEF AsksHeld
<1>8. RowsHeld'
  <2>1. ASSUME NEW m \in Grantees
        PROVE  RowHeld(m, operations[m].status, operations[m].tx)' /\ GrantedHeld(m, granted[m])'
    <3>1. /\ operations[m].tx \in Asks \cup {NoAsk} /\ granted[m] \in Asks \cup {NoAsk}
          /\ RowHeld(m, operations[m].status, operations[m].tx) /\ GrantedHeld(m, granted[m])
      BY DEF GrantsHeld, GrantTypes, GrantRows, RowsHeld
    <3>. QED
      BY <1>1, <1>5, <1>6, <3>1 DEF RowHeld, GrantedHeld
  <2>. QED
    BY <2>1 DEF RowsHeld
<1>9. DaysHeld'
  <2>1. ASSUME NEW m \in 1 .. LastDay
        PROVE  Cardinality(Taken(m)') <= counted[m] /\ Cardinality(Taken(m)') <= DailyGrants
    <3>1. Taken(m)' \in SUBSET Taken(m)
      BY <1>1, <1>2, <1>5 DEF Taken
    <3>. QED
      BY <3>1, FewerTaken
  <2>. QED
    BY <1>1, <2>1 DEF DaysHeld
<1>10. GrantTypes'
  BY <1>1, <1>2, <1>4 DEF GrantsHeld, GrantTypes
<1>. QED
  BY <1>7, <1>8, <1>9, <1>10 DEF GrantsHeld

\* A transfer is mined, whoever waits for it.
LEMMA TransferIsMined ==
    ASSUME GrantsHeld, NEW k \in Asks, Grants!Mine(k)
    PROVE  GrantsHeld'
<1>1. PICK outcome \in {"success", "reverted"} :
         /\ transfers[k] = "pending" /\ transfers' = [transfers EXCEPT ![k] = outcome]
         /\ UNCHANGED <<operations, granted, counted, today, asks>>
  BY DEF Grants!Mine
<1>2. /\ transfers' \in [Asks -> {"none", "pending", "success", "reverted"}]
      /\ transfers'[k] = outcome /\ \A j \in Asks \ {k} : transfers'[j] = transfers[j]
  BY <1>1 DEF GrantsHeld, GrantTypes
<1>3. \A j \in Asks : /\ Sent(j)' <=> Sent(j)
                      /\ Holds(j)' <=> Holds(j)
                      /\ transfers[j] \in {"success", "reverted"} => transfers'[j] = transfers[j]
  BY <1>1, <1>2 DEF Sent, Holds
<1>4. \A m : Paid(m) => Paid(m)'
  BY <1>1, <1>3 DEF Paid
<1>5. AsksHeld'
  <2>1. ASSUME NEW j \in Asks, asks'[j].at \in {"already", "granted"}
        PROVE  Paid(asks[j].to)'
    <3>1. PICK m : m = asks[j].to
      OBVIOUS
    <3>2. Paid(m)
      BY <1>1, <2>1, <3>1 DEF GrantsHeld, AsksHeld
    <3>3. Paid(m)'
      BY <1>4, <3>2
    <3>. QED
      BY <1>1, <3>1, <3>3 DEF Paid
  <2>. QED
    BY <1>1, <1>3, <2>1 DEF GrantsHeld, AsksHeld
<1>6. RowsHeld'
  <2>1. ASSUME NEW m \in Grantees
        PROVE  RowHeld(m, operations[m].status, operations[m].tx)' /\ GrantedHeld(m, granted[m])'
    <3>1. /\ operations[m].tx \in Asks \cup {NoAsk} /\ granted[m] \in Asks \cup {NoAsk}
          /\ RowHeld(m, operations[m].status, operations[m].tx) /\ GrantedHeld(m, granted[m])
      BY DEF GrantsHeld, GrantTypes, GrantRows, RowsHeld
    <3>. QED
      BY <1>1, <1>3, <1>4, <3>1 DEF RowHeld, GrantedHeld
  <2>. QED
    BY <2>1 DEF RowsHeld
<1>7. DaysHeld'
  <2>1. \A m : Taken(m)' = Taken(m)
    BY <1>1, <1>3 DEF Taken
  <2>. QED
    BY <1>1, <2>1 DEF GrantsHeld, DaysHeld
<1>8. GrantTypes'
  BY <1>1, <1>2 DEF GrantsHeld, GrantTypes
<1>. QED
  BY <1>5, <1>6, <1>7, <1>8 DEF GrantsHeld

LEMMA GrantsStep ==
    ASSUME GrantsHeld, Grants!Next
    PROVE  GrantsHeld'
<1>1. ASSUME NEW k \in Asks, asks[k].at # "idle"
      PROVE  asks[k].to \in Grantees
  BY <1>1 DEF GrantsHeld, AsksHeld
<1>2. ASSUME NEW k \in Asks, Grants!ReadGranted(k)
      PROVE  GrantsHeld'
  <2>1. PICK place \in {"already", "read"} :
           place = IF asks[k].to \in GrantedBefore THEN "already" ELSE "read"
    OBVIOUS
  <2>2. /\ asks[k].at = "reading" /\ Grants!Go(k, place)
        /\ UNCHANGED <<operations, transfers, granted, counted, today>>
    BY <1>2, <2>1 DEF Grants!ReadGranted, Grants!At, Grants!To
  <2>3. ~ Sent(k) /\ (place = "already" => Paid(asks[k].to))
    BY <2>1, <2>2 DEF GrantsHeld, AsksHeld, MayHaveSent, Paid
  <2>. QED
    BY <2>2, <2>3, AskMovesOnly DEF GrantPlaces, HasSent
<1>3. ASSUME NEW k \in Asks, Grants!ReadOperation(k)
      PROVE  GrantsHeld'
  <2>1. PICK n, word, tx : n = asks[k].to /\ word = operations[n].status /\ tx = operations[n].tx
    OBVIOUS
  <2>2. PICK place : place = CASE word = "none" -> "limiting"
                               [] word = "confirmed" -> "already"
                               [] word \in {"submitted", "unknown"} /\ tx # NoAsk -> "reconciling"
                               [] OTHER -> "refused"
    OBVIOUS
  <2>3. /\ asks[k].at = "read" /\ Grants!Go(k, place)
        /\ UNCHANGED <<operations, transfers, granted, counted, today>>
    BY <1>3, <2>1, <2>2 DEF Grants!ReadOperation, Grants!At, Grants!To
  <2>4. ~ Sent(k) /\ n \in Grantees /\ RowHeld(n, word, tx)
    BY <1>1, <2>1, <2>3 DEF GrantsHeld, AsksHeld, MayHaveSent, RowsHeld
  <2>5. word \in {"none", "reserved", "submitted", "unknown", "reverted", "confirmed"}
    BY <2>1, <2>4 DEF GrantsHeld, GrantTypes, GrantRows
  <2>6. /\ place \in {"limiting", "already", "reconciling", "refused"}
        /\ place = "reconciling" => operations[asks[k].to].tx # NoAsk
        /\ place = "already" => Paid(asks[k].to)
    BY <2>1, <2>2, <2>4, <2>5 DEF RowHeld
  <2>. QED
    BY <2>3, <2>4, <2>6, AskMovesOnly DEF GrantPlaces, HasSent
<1>4. ASSUME NEW k \in Asks, Grants!Reconcile(k)
      PROVE  GrantsHeld'
  <2>1. PICK n, tx : n = asks[k].to /\ tx = operations[n].tx
    OBVIOUS
  <2>2. /\ asks[k].at = "reconciling" /\ UNCHANGED <<transfers, counted, today>>
        /\ n \in Grantees /\ ~ Sent(k) /\ tx # NoAsk
    BY <1>1, <1>4, <2>1 DEF Grants!Reconcile, Grants!At, GrantsHeld, AsksHeld, MayHaveSent
  <2>3. tx \in Asks /\ asks[tx].to = n
    BY <2>1, <2>2 DEF GrantsHeld, GrantTypes, GrantRows, RowsHeld, RowHeld
  <2>4. ASSUME NEW place \in {"refused", "already"}, Grants!Go(k, place), Written(n),
               place = "already" => Paid(n)
        PROVE  GrantsHeld'
    BY <2>1, <2>2, <2>4, AskMoves DEF GrantPlaces, HasSent
  <2>5. CASE Grants!Go(k, "refused") /\ UNCHANGED <<operations, granted>>
    BY <2>2, <2>4, <2>5, NothingWritten
  <2>6. CASE transfers[tx] = "success" /\ Grants!complete(n, tx) /\ Grants!Go(k, "already")
    BY <2>2, <2>3, <2>4, <2>6, CompleteIsSo
  <2>7. CASE transfers[tx] = "reverted" /\ Grants!markReverted(n) /\ Grants!Go(k, "refused")
    BY <2>2, <2>3, <2>4, <2>7, RevertedIsSo
  <2>. QED
    BY <1>4, <2>1, <2>5, <2>6, <2>7 DEF Grants!Reconcile, Grants!To
<1>5. ASSUME NEW k \in Asks, Grants!Reserve(k)
      PROVE  GrantsHeld'
  <2>1. asks[k].at = "reserving" /\ ~ Sent(k) /\ UNCHANGED <<transfers, counted, today>>
    BY <1>5 DEF Grants!Reserve, Grants!At, GrantsHeld, AsksHeld, MayHaveSent
  <2>2. CASE Grants!Go(k, "refused") /\ UNCHANGED <<operations, granted>>
    BY <2>1, <2>2, AskMovesOnly DEF GrantPlaces, HasSent
  <2>3. CASE operations[asks[k].to].status = "none" /\ Grants!reserve(asks[k].to) /\ Grants!Go(k, "sending")
    BY <2>1, <2>3, AskReserves
  <2>. QED
    BY <1>5, <2>2, <2>3 DEF Grants!Reserve, Grants!To
<1>6. ASSUME NEW k \in Asks, Grants!RecordUnknown(k)
      PROVE  GrantsHeld'
  <2>1. PICK n : n = asks[k].to
    OBVIOUS
  <2>2. PICK tx \in {NoAsk, k} : tx = IF asks[k].at = "lost" THEN NoAsk ELSE k
    OBVIOUS
  <2>3. /\ asks[k].at \in {"lost", "unrecorded"} /\ Grants!Kept(Grants!markUnknown(n, tx))
        /\ Grants!Go(k, "refused") /\ UNCHANGED <<transfers, counted, today>>
    BY <1>6, <2>1, <2>2 DEF Grants!RecordUnknown, Grants!At, Grants!To
  <2>4. n \in Grantees /\ (tx = k => Sent(k))
    BY <1>1, <2>1, <2>2, <2>3, ServicesAssumption DEF GrantsHeld, AsksHeld, HasSent
  <2>5. Written(n)
    <3>1. CASE Grants!markUnknown(n, tx)
      BY <2>1, <2>4, <3>1, UnknownIsSo
    <3>2. CASE UNCHANGED <<operations, granted>>
      BY <2>4, <3>2, NothingWritten
    <3>. QED
      BY <2>3, <3>1, <3>2 DEF Grants!Kept
  <2>. QED
    BY <2>1, <2>3, <2>4, <2>5, AskMoves DEF GrantPlaces, HasSent, MayHaveSent
<1>7. ASSUME NEW k \in Asks, Grants!RecordSubmitted(k)
      PROVE  GrantsHeld'
  <2>1. PICK n : n = asks[k].to
    OBVIOUS
  <2>2. PICK place \in {"waiting", "unrecorded"} :
           /\ asks[k].at = "submitting" /\ Grants!Go(k, place)
           /\ Grants!markSubmitted(n, k) \/ UNCHANGED <<operations, granted>>
           /\ UNCHANGED <<transfers, counted, today>>
    BY <1>7, <2>1 DEF Grants!RecordSubmitted, Grants!At, Grants!To, Grants!Kept
  <2>3. n \in Grantees /\ Sent(k)
    BY <1>1, <2>1, <2>2 DEF GrantsHeld, AsksHeld, HasSent
  <2>4. Written(n)
    BY <2>1, <2>2, <2>3, SubmittedIsSo, NothingWritten
  <2>. QED
    BY <2>1, <2>2, <2>3, <2>4, AskMoves DEF GrantPlaces, HasSent, MayHaveSent
<1>8. ASSUME NEW k \in Asks, Grants!AwaitReceipt(k)
      PROVE  GrantsHeld'
  <2>1. PICK n : n = asks[k].to
    OBVIOUS
  <2>2. asks[k].at = "waiting" /\ UNCHANGED <<transfers, counted, today>>
    BY <1>8 DEF Grants!AwaitReceipt, Grants!At
  <2>3. n \in Grantees /\ Sent(k)
    BY <1>1, <2>1, <2>2 DEF GrantsHeld, AsksHeld, HasSent
  <2>4. ASSUME NEW place \in {"refused", "granted"}, Grants!Go(k, place), Written(n),
               place = "granted" => Paid(n)
        PROVE  GrantsHeld'
    BY <2>1, <2>2, <2>3, <2>4, AskMoves DEF GrantPlaces, HasSent, MayHaveSent
  <2>5. CASE Grants!Go(k, "refused") /\ UNCHANGED <<operations, granted>>
    BY <2>3, <2>4, <2>5, NothingWritten
  <2>6. CASE transfers[k] = "success" /\ Grants!complete(n, k) /\ Grants!Go(k, "granted")
    BY <2>1, <2>3, <2>4, <2>6, CompleteIsSo
  <2>7. CASE transfers[k] = "reverted" /\ Grants!markReverted(n) /\ Grants!Go(k, "refused")
    BY <2>1, <2>3, <2>4, <2>7, RevertedIsSo
  <2>. QED
    BY <1>8, <2>1, <2>5, <2>6, <2>7 DEF Grants!AwaitReceipt, Grants!To, Grants!Kept
<1>9. ASSUME NEW k \in Asks, Grants!Die(k)
      PROVE  GrantsHeld'
  <2>1. /\ asks[k].at # "idle" /\ Grants!Go(k, "refused")
        /\ UNCHANGED <<operations, transfers, granted, counted, today>>
    BY <1>9 DEF Grants!Die
  <2>. QED
    BY <2>1, AskMovesOnly DEF GrantPlaces, HasSent, MayHaveSent
<1>10. ASSUME Grants!NextDay
       PROVE  GrantsHeld'
  <2>1. /\ today < LastDay /\ today' = today + 1
        /\ UNCHANGED <<operations, transfers, granted, counted, asks>>
    BY <1>10 DEF Grants!NextDay
  <2>2. GrantTypes'
    BY <2>1, ServicesAssumption DEF GrantsHeld, GrantTypes
  <2>. QED
    BY <2>1, <2>2 DEF GrantsHeld, AsksHeld, RowsHeld, DaysHeld, RowHeld, GrantedHeld, Taken,
                      Holds, Sent, Paid
<1>. QED
  BY <1>2, <1>3, <1>4, <1>5, <1>6, <1>7, <1>8, <1>9, <1>10, AskBegins, AskIsCounted, AskSends,
     TransferIsMined DEF Grants!Next

\* However requests race, fail and are made again, an address is paid once, a
\* day pays out no more than its cap, and nobody is told of a grant that is not.
THEOREM GrantsCorrect == ServicesSpec => []PaidOnce
<1>1. ServicesInit => (part = "grants" => GrantsHeld)
  BY GrantsInit DEF ServicesInit
<1>2. (part = "grants" => GrantsHeld) /\ [ServicesNext]_<<part, servicesVars>>
         => (part = "grants" => GrantsHeld)'
  <2>1. ASSUME part = "grants" => GrantsHeld, UNCHANGED part, UNCHANGED grantsVars
        PROVE  (part = "grants" => GrantsHeld)'
    BY <2>1 DEF grantsVars, GrantsHeld, GrantTypes, AsksHeld, RowsHeld, DaysHeld, RowHeld, GrantedHeld,
                Taken, Holds, Sent, Paid
  <2>2. ASSUME part = "grants" => GrantsHeld, UNCHANGED <<part, servicesVars>>
        PROVE  (part = "grants" => GrantsHeld)'
    BY <2>1, <2>2 DEF servicesVars
  <2>3. ASSUME part = "grants" => GrantsHeld, ServicesNext
        PROVE  (part = "grants" => GrantsHeld)'
    BY <2>3, GrantsStep DEF ServicesNext
  <2>. QED
    BY <2>2, <2>3
<1>3. GrantsHeld => Grants!PaidOnce
  <2>. SUFFICES ASSUME GrantsHeld
                PROVE  Grants!PaidOnce
    OBVIOUS
  <2>. DEFINE sent == {k \in Asks : transfers[k] # "none"}
              paid == {Grants!To(k) : k \in {j \in sent : transfers[j] = "success"}}
  <2>1. \A j, k \in sent : Grants!To(j) = Grants!To(k) => j = k
    BY DEF GrantsHeld, AsksHeld, Holds, Sent, Grants!To
  <2>2. ASSUME NEW n \in 1 .. LastDay
        PROVE  Cardinality({k \in sent : asks[k].day = n}) <= DailyGrants
    <3>1. {k \in sent : asks[k].day = n} \in SUBSET Taken(n)
      BY DEF Taken, Holds, Sent
    <3>. QED
      BY <3>1, FewerTaken
  <2>3. \A n : n \in paid \cup GrantedBefore <=> Paid(n)
    BY DEF Paid, Grants!To
  <2>4. \A k \in Asks : asks[k].at \in {"already", "granted"} => Grants!To(k) \in paid \cup GrantedBefore
    <3>1. ASSUME NEW k \in Asks, asks[k].at \in {"already", "granted"}
          PROVE  Paid(asks[k].to)
      BY <3>1 DEF GrantsHeld, AsksHeld
    <3>. HIDE DEF paid
    <3>. QED
      BY <2>3, <3>1 DEF Grants!To
  <2>5. \A n \in Grantees :
           granted[n] # NoAsk => transfers[granted[n]] = "success" /\ Grants!To(granted[n]) = n
    BY DEF GrantsHeld, RowsHeld, GrantedHeld, Grants!To
  <2>6. ASSUME NEW n \in Grantees, operations[n].status = "reverted"
        PROVE  n \notin paid
    <3>1. PICK k \in Asks : asks[k].to = n /\ transfers[k] = "reverted"
      BY <2>6 DEF GrantsHeld, RowsHeld, RowHeld
    <3>2. \A j \in sent : asks[j].to = n => j = k
      BY <2>1, <3>1 DEF Grants!To
    <3>. QED
      BY <3>1, <3>2 DEF Grants!To
  <2>7. \A S : Grants!Cardinality(S) = Cardinality(S)
    BY Zenon DEF Grants!Cardinality, Cardinality
  <2>. QED
    BY <2>1, <2>2, <2>4, <2>5, <2>6, <2>7, Zenon DEF Grants!PaidOnce
<1>. QED
  BY <1>1, <1>2, <1>3, PTL DEF ServicesSpec, PaidOnce

-----------------------------------------------------------------------------
(* Protocol totals.                                                        *)

\* Every state that a refresh reads, folds or saves has counted each block up
\* to its cursor once, and what it fetched are the logs of the next blocks.
StatsPlaces == {"idle", "reading", "heading", "chunk", "saving", "finishing", "clearing", "releasing"}
Tallies == [cursor : Nat, head : Nat, total : Nat]
StatsRuns == [at : StatsPlaces, state : Tallies, logs : Seq(Nat)]
Tallied(s) == s.total = s.cursor /\ s.cursor <= s.head
FetchedHeld(s, logs) ==
    \E to \in s.cursor + 1 .. s.head : Stats!ToSet(logs) = s.cursor + 1 .. to
StatsHeld ==
    /\ height \in Nat
    /\ saved \in Tallies /\ Tallied(saved)
    /\ refreshes \in [Refreshes -> StatsRuns]
    /\ \A r \in Refreshes :
          /\ Tallied(refreshes[r].state)
          /\ refreshes[r].at = "saving" => FetchedHeld(refreshes[r].state, refreshes[r].logs)
    /\ view.current => view.total = view.to

LEMMA MinAndMax ==
    ASSUME NEW m \in Nat, NEW n \in Nat
    PROVE  /\ Stats!Min({m, n}) = IF m <= n THEN m ELSE n
           /\ Stats!Max({m, n}) = IF m <= n THEN n ELSE m
<1>1. \A x \in {m, n} : (\A y \in {m, n} : x <= y) => x = IF m <= n THEN m ELSE n
  OBVIOUS
<1>2. \A x \in {m, n} : (\A y \in {m, n} : x >= y) => x = IF m <= n THEN n ELSE m
  OBVIOUS
<1>3. \E x \in {m, n} : \A y \in {m, n} : x <= y
  OBVIOUS
<1>4. \E x \in {m, n} : \A y \in {m, n} : x >= y
  OBVIOUS
<1>. QED
  BY <1>1, <1>2, <1>3, <1>4 DEF Stats!Min, Stats!Max

\* The logs of a range, and the same logs twice, are those of the same blocks.
LEMMA LogsOfRange ==
    ASSUME NEW n \in Nat, NEW from \in Nat, NEW logs \in [1 .. n -> Nat],
           \A i \in 1 .. n : logs[i] = from + i
    PROVE  /\ logs \in Seq(Nat) /\ logs \o logs \in Seq(Nat)
           /\ Stats!ToSet(logs) = from + 1 .. from + n
           /\ Stats!ToSet(logs \o logs) = from + 1 .. from + n
<1>1. logs \in Seq(Nat) /\ Len(logs) = n
  <2>1. logs \in Seq(Nat)
    BY SeqDef
  <2>2. Len(logs) \in Nat /\ 1 .. n = 1 .. Len(logs)
    BY <2>1, LenProperties
  <2>. QED
    BY <2>1, <2>2
<1>2. Stats!ToSet(logs) = from + 1 .. from + n
  <2>1. \A b \in from + 1 .. from + n : b - from \in 1 .. n /\ logs[b - from] = b
    OBVIOUS
  <2>. QED
    BY <2>1 DEF Stats!ToSet
<1>3. PICK twice : twice = logs \o logs
  OBVIOUS
<1>4. /\ twice \in Seq(Nat) /\ Len(twice) = n + n
      /\ \A i \in 1 .. n + n : twice[i] = IF i <= n THEN logs[i] ELSE logs[i - n]
  BY <1>1, <1>3, ConcatProperties
<1>5. DOMAIN twice = 1 .. n + n
  BY <1>4, LenProperties
<1>6. ASSUME NEW i \in 1 .. n + n
      PROVE  twice[i] \in from + 1 .. from + n
  <2>1. PICK j \in 1 .. n : j = IF i <= n THEN i ELSE i - n
    <3>1. CASE i <= n
      BY <3>1
    <3>2. CASE ~ (i <= n)
      <4>1. i - n \in 1 .. n
        BY <3>2
      <4>. QED
        BY <3>2, <4>1
    <3>. QED
      BY <3>1, <3>2
  <2>2. twice[i] = logs[j] /\ logs[j] = from + j
    BY <1>4, <2>1
  <2>. QED
    BY <2>1, <2>2
<1>7. \A b \in from + 1 .. from + n : b - from \in 1 .. n + n /\ twice[b - from] = b
  <2>1. ASSUME NEW i \in 1 .. n
        PROVE  i \in 1 .. n + n /\ twice[i] = from + i
    <3>1. i \in 1 .. n + n /\ i <= n
      OBVIOUS
    <3>. QED
      BY <1>4, <3>1
  <2>2. \A b \in from + 1 .. from + n : b - from \in 1 .. n /\ from + (b - from) = b
    OBVIOUS
  <2>. QED
    BY <2>1, <2>2
<1>8. Stats!ToSet(twice) = from + 1 .. from + n
  BY <1>5, <1>6, <1>7 DEF Stats!ToSet
<1>. QED
  BY <1>1, <1>2, <1>3, <1>4, <1>8

\* A range is fetched to the end of the chunk or to the head, and a log that a
\* node returns twice is still one log.
LEMMA RangeIsFetched ==
    ASSUME NEW s \in Tallies, s.cursor < s.head,
           NEW to, to = Stats!Min({s.cursor + StatsChunk, s.head}),
           NEW logs, logs = [i \in 1 .. (to - s.cursor) |-> s.cursor + i]
    PROVE  /\ logs \in Seq(Nat) /\ logs \o logs \in Seq(Nat)
           /\ FetchedHeld(s, logs) /\ FetchedHeld(s, logs \o logs)
<1>1. PICK from \in Nat, head \in Nat : from = s.cursor /\ head = s.head /\ from < head
  BY DEF Tallies
<1>2. to \in Nat /\ from < to /\ to <= head
  BY <1>1, MinAndMax, ServicesAssumption
<1>3. PICK n \in Nat : n = to - from /\ to = from + n
  BY <1>2
<1>4. logs \in [1 .. n -> Nat] /\ \A i \in 1 .. n : logs[i] = from + i
  <2>1. logs = [i \in 1 .. n |-> from + i]
    BY <1>1, <1>3
  <2>2. \A i \in 1 .. n : from + i \in Nat
    BY <1>1
  <2>. QED
    BY <2>1, <2>2
<1>5. /\ logs \in Seq(Nat) /\ logs \o logs \in Seq(Nat)
      /\ Stats!ToSet(logs) = from + 1 .. to /\ Stats!ToSet(logs \o logs) = from + 1 .. to
  <2>1. /\ logs \in Seq(Nat) /\ logs \o logs \in Seq(Nat)
        /\ Stats!ToSet(logs) = from + 1 .. from + n /\ Stats!ToSet(logs \o logs) = from + 1 .. from + n
    <3>1. PICK range \in [1 .. n -> Nat] : range = logs /\ \A i \in 1 .. n : range[i] = from + i
      BY <1>4
    <3>2. /\ range \in Seq(Nat) /\ range \o range \in Seq(Nat)
          /\ Stats!ToSet(range) = from + 1 .. from + n /\ Stats!ToSet(range \o range) = from + 1 .. from + n
      BY <3>1, LogsOfRange
    <3>. QED
      BY <3>1, <3>2
  <2>. QED
    BY <1>3, <2>1
<1>6. to \in from + 1 .. head
  BY <1>2
<1>. QED
  BY <1>1, <1>5, <1>6, Zenon DEF FetchedHeld

\* What was fetched is folded and the cursor moves by as much.
LEMMA RangeIsFolded ==
    ASSUME NEW s \in Tallies, Tallied(s), NEW logs, FetchedHeld(s, logs),
           NEW next, next = [s EXCEPT !.total = @ + Stats!Folded(s, logs),
                                      !.cursor = Stats!Max(Stats!ToSet(logs))]
    PROVE  next \in Tallies /\ Tallied(next)
<1>1. PICK from \in Nat, head \in Nat, total \in Nat :
         from = s.cursor /\ head = s.head /\ total = s.total
  BY DEF Tallies
<1>2. PICK to \in Nat : from + 1 <= to /\ to <= head /\ Stats!ToSet(logs) = from + 1 .. to
  BY <1>1 DEF FetchedHeld
<1>3. Stats!Max(Stats!ToSet(logs)) = to
  <2>1. to \in from + 1 .. to /\ \A b \in from + 1 .. to : to >= b
    BY <1>2
  <2>2. \A b \in from + 1 .. to : (\A c \in from + 1 .. to : b >= c) => b = to
    BY <1>2
  <2>. QED
    BY <1>2, <2>1, <2>2 DEF Stats!Max
<1>4. Stats!Folded(s, logs) = to - from
  <2>1. {b \in Stats!ToSet(logs) : b > s.cursor} = from + 1 .. to
    BY <1>1, <1>2
  <2>2. Cardinality(from + 1 .. to) = to - from
    <3>1. PICK first \in Int : first = from + 1 /\ first <= to /\ to - first + 1 = to - from
      BY <1>2
    <3>. QED
      BY <3>1, FS_Interval
  <2>3. \A S : Stats!Cardinality(S) = Cardinality(S)
    BY Zenon DEF Stats!Cardinality, Cardinality
  <2>. QED
    BY <2>1, <2>2, <2>3 DEF Stats!Folded
<1>5. PICK sum \in Nat : sum = total + (to - from) /\ sum = to
  BY <1>1, <1>2 DEF Tallied
<1>6. next = [s EXCEPT !.total = sum, !.cursor = to]
  BY <1>1, <1>3, <1>4, <1>5
<1>7. next \in Tallies /\ next.total = sum /\ next.cursor = to /\ next.head = head
  BY <1>1, <1>6 DEF Tallies
<1>. QED
  BY <1>2, <1>5, <1>7 DEF Tallied

\* A run that moves on, with nothing new in hand.
LEMMA RunGoes ==
    ASSUME StatsHeld, NEW r \in Refreshes, NEW place \in StatsPlaces \ {"saving"},
           Stats!Go(r, place), UNCHANGED <<height, view>>,
           saved' \in Tallies, Tallied(saved)'
    PROVE  StatsHeld'
<1>1. PICK old \in StatsRuns : old = refreshes[r]
  BY DEF StatsHeld
<1>2. PICK new : new = [old EXCEPT !.at = place]
  OBVIOUS
<1>3. new \in StatsRuns /\ new.at = place /\ new.state = old.state
  BY <1>2 DEF StatsRuns
<1>4. refreshes' = [refreshes EXCEPT ![r] = new] /\ refreshes \in [Refreshes -> StatsRuns]
  BY <1>1, <1>2 DEF Stats!Go, StatsHeld
<1>. QED
  BY <1>1, <1>3, <1>4 DEF StatsHeld, Tallied

\* A run that takes a state and a range of logs.
LEMMA RunTakes ==
    ASSUME StatsHeld, NEW r \in Refreshes, NEW new \in StatsRuns,
           refreshes' = [refreshes EXCEPT ![r] = new], UNCHANGED <<height, view>>,
           Tallied(new.state), new.at = "saving" => FetchedHeld(new.state, new.logs),
           saved' \in Tallies, Tallied(saved)'
    PROVE  StatsHeld'
BY DEF StatsHeld, Tallied

LEMMA StatsInit ==
    ASSUME Stats!Init
    PROVE  StatsHeld
<1>. DEFINE zero == [cursor |-> 0, head |-> 0, total |-> 0]
            none == [at |-> "idle", state |-> zero, logs |-> <<>>]
<1>1. zero \in Tallies /\ Tallied(zero)
  BY DEF Tallies, Tallied
<1>2. <<>> \in Seq(Nat)
  BY EmptySeq
<1>3. height = 0 /\ saved = zero /\ refreshes = [r \in Refreshes |-> none]
  BY DEF Stats!Init, Stats!NoRun, Stats!emptyState
<1>4. view.current = FALSE
  BY DEF Stats!Init
<1>5. none \in StatsRuns /\ none.at = "idle" /\ none.state = zero
  BY <1>1, <1>2 DEF StatsRuns, StatsPlaces
<1>. HIDE DEF zero, none
<1>. QED
  BY <1>1, <1>3, <1>4, <1>5 DEF StatsHeld

LEMMA StatsStep ==
    ASSUME StatsHeld, Stats!Next
    PROVE  StatsHeld'
<1>1. saved \in Tallies /\ Tallied(saved)
  BY DEF StatsHeld
<1>2. ASSUME NEW r \in Refreshes, UNCHANGED <<height, saved, view>>, NEW place \in StatsPlaces \ {"saving"},
             Stats!Go(r, place)
      PROVE  StatsHeld'
  BY <1>1, <1>2, RunGoes DEF Tallied
<1>3. ASSUME NEW r \in Refreshes, Stats!ReadState(r)
      PROVE  StatsHeld'
  <2>1. PICK old \in StatsRuns : old = refreshes[r]
    BY DEF StatsHeld
  <2>2. PICK new : new = [old EXCEPT !.state = saved, !.at = "heading"]
    OBVIOUS
  <2>3. new \in StatsRuns /\ new.at = "heading" /\ new.state = saved
    BY <1>1, <2>2 DEF StatsRuns, StatsPlaces
  <2>4. /\ refreshes' = [refreshes EXCEPT ![r] = new]
        /\ UNCHANGED <<height, saved, view>>
    BY <1>3, <2>1, <2>2 DEF Stats!ReadState
  <2>. QED
    BY <1>1, <2>3, <2>4, RunTakes DEF Tallied
<1>4. ASSUME NEW r \in Refreshes, Stats!ReadHead(r)
      PROVE  StatsHeld'
  <2>1. PICK old \in StatsRuns : old = refreshes[r] /\ Tallied(old.state)
    BY DEF StatsHeld
  <2>2. PICK s \in Tallies : s = old.state
    BY <2>1 DEF StatsRuns
  <2>3. PICK head \in Nat : head = Stats!Max({s.head, height}) /\ s.head <= head
    <3>1. PICK m \in Nat, n \in Nat : m = s.head /\ n = height
      BY DEF StatsHeld, Tallies
    <3>2. PICK head \in Nat : head = (IF m <= n THEN n ELSE m) /\ m <= head
      BY <3>1
    <3>3. Stats!Max({m, n}) = IF m <= n THEN n ELSE m
      BY MinAndMax
    <3>. QED
      BY <3>1, <3>2, <3>3
  <2>4. PICK next : next = [s EXCEPT !.head = head]
    OBVIOUS
  <2>5. next \in Tallies /\ Tallied(next)
    BY <2>1, <2>2, <2>3, <2>4 DEF Tallies, Tallied
  <2>6. PICK new : new = [old EXCEPT !.state = next, !.at = "chunk"]
    OBVIOUS
  <2>7. new \in StatsRuns /\ new.at = "chunk" /\ new.state = next
    BY <2>5, <2>6 DEF StatsRuns, StatsPlaces
  <2>8. /\ refreshes' = [refreshes EXCEPT ![r] = new]
        /\ UNCHANGED <<height, saved, view>>
    BY <1>4, <2>1, <2>2, <2>3, <2>4, <2>6 DEF Stats!ReadHead
  <2>. QED
    BY <1>1, <2>5, <2>7, <2>8, RunTakes DEF Tallied
<1>5. ASSUME NEW r \in Refreshes, Stats!Fetch(r)
      PROVE  StatsHeld'
  <2>1. PICK old \in StatsRuns : old = refreshes[r] /\ Tallied(old.state)
    BY DEF StatsHeld
  <2>2. PICK s \in Tallies : s = old.state
    BY <2>1 DEF StatsRuns
  <2>3. UNCHANGED <<height, saved, view>>
    BY <1>5 DEF Stats!Fetch
  <2>4. CASE \E place \in {"clearing", "finishing"} : Stats!Go(r, place)
    BY <1>2, <2>3, <2>4 DEF StatsPlaces
  <2>5. PICK to, range : /\ to = Stats!Min({s.cursor + StatsChunk, s.head})
                         /\ range = [i \in 1 .. (to - s.cursor) |-> s.cursor + i]
    OBVIOUS
  <2>6. CASE /\ s.cursor < s.head
             /\ \E list \in {range, range \o range} :
                   refreshes' = [refreshes EXCEPT ![r].at = "saving", ![r].logs = list]
    <3>1. PICK list \in {range, range \o range} :
             refreshes' = [refreshes EXCEPT ![r].at = "saving", ![r].logs = list]
      BY <2>6
    <3>2. list \in Seq(Nat) /\ FetchedHeld(s, list)
      <4>1. /\ range \in Seq(Nat) /\ range \o range \in Seq(Nat)
            /\ FetchedHeld(s, range) /\ FetchedHeld(s, range \o range)
        BY <2>5, <2>6, RangeIsFetched, Zenon
      <4>. QED
        BY <3>1, <4>1, Zenon
    <3>3. PICK new : new = [old EXCEPT !.at = "saving", !.logs = list]
      OBVIOUS
    <3>4. new \in StatsRuns /\ new.at = "saving" /\ new.state = s /\ new.logs = list
      BY <2>2, <3>2, <3>3 DEF StatsRuns, StatsPlaces
    <3>5. refreshes' = [refreshes EXCEPT ![r] = new]
      BY <2>1, <3>1, <3>3
    <3>. QED
      BY <1>1, <2>1, <2>2, <2>3, <3>2, <3>4, <3>5, RunTakes DEF Tallied
  <2>. QED
    BY <1>5, <2>1, <2>2, <2>4, <2>5, <2>6 DEF Stats!Fetch
<1>6. ASSUME NEW r \in Refreshes, Stats!SaveChunk(r)
      PROVE  StatsHeld'
  <2>1. PICK s, list : s = refreshes[r].state /\ list = refreshes[r].logs
    OBVIOUS
  <2>2. s \in Tallies /\ Tallied(s) /\ FetchedHeld(s, list)
    BY <1>6, <2>1 DEF Stats!SaveChunk, Stats!At, StatsHeld, StatsRuns
  <2>3. PICK next : next = [s EXCEPT !.total = @ + Stats!Folded(s, list),
                                     !.cursor = Stats!Max(Stats!ToSet(list))]
    OBVIOUS
  <2>4. next \in Tallies /\ Tallied(next)
    BY <2>2, <2>3, RangeIsFolded
  <2>5. PICK new : new = [at |-> "chunk", state |-> next, logs |-> <<>>]
    OBVIOUS
  <2>6. new \in StatsRuns /\ new.at = "chunk" /\ new.state = next
    BY <2>4, <2>5, EmptySeq DEF StatsRuns, StatsPlaces
  <2>7. /\ saved' = next /\ refreshes' = [refreshes EXCEPT ![r] = new]
        /\ UNCHANGED <<height, view>>
    BY <1>6, <2>1, <2>3, <2>5 DEF Stats!SaveChunk
  <2>. QED
    BY <2>4, <2>6, <2>7, RunTakes DEF Tallied
<1>7. ASSUME NEW r \in Refreshes, Stats!SaveUpdated(r)
      PROVE  StatsHeld'
  <2>1. PICK s \in Tallies : s = refreshes[r].state /\ Tallied(s)
    BY DEF StatsHeld, StatsRuns
  <2>2. saved' = s /\ Stats!Go(r, "clearing") /\ UNCHANGED <<height, view>>
    BY <1>7, <2>1 DEF Stats!SaveUpdated
  <2>. QED
    BY <2>1, <2>2, RunGoes DEF StatsPlaces, Tallied
<1>8. ASSUME NEW r \in Refreshes, refreshes' = [refreshes EXCEPT ![r] = Stats!NoRun],
             UNCHANGED <<height, saved, view>>
      PROVE  StatsHeld'
  <2>1. PICK zero : zero = [cursor |-> 0, head |-> 0, total |-> 0]
    OBVIOUS
  <2>2. zero \in Tallies /\ Tallied(zero)
    BY <2>1 DEF Tallies, Tallied
  <2>3. PICK none : none = [at |-> "idle", state |-> zero, logs |-> <<>>]
    OBVIOUS
  <2>4. none \in StatsRuns /\ none.at = "idle" /\ none.state = zero
    BY <2>2, <2>3, EmptySeq DEF StatsRuns, StatsPlaces
  <2>5. refreshes' = [refreshes EXCEPT ![r] = none]
    BY <1>8, <2>1, <2>3 DEF Stats!NoRun, Stats!emptyState
  <2>. QED
    BY <1>1, <1>8, <2>2, <2>4, <2>5, RunTakes DEF Tallied
<1>9. ASSUME Stats!Confirm \/ Stats!LockExpires
      PROVE  StatsHeld'
  BY <1>9 DEF Stats!Confirm, Stats!LockExpires, StatsHeld, Tallied, FetchedHeld
<1>10. ASSUME Stats!Show
       PROVE  StatsHeld'
  <2>1. PICK old \in BOOLEAN :
           view' = [total |-> saved.total, to |-> saved.head,
                    current |-> saved.cursor >= saved.head /\ ~ old /\ ~ lastError]
    BY <1>10 DEF Stats!Show
  <2>2. view'.total = saved.total /\ view'.to = saved.head
    BY <2>1
  <2>3. view'.current => saved.cursor >= saved.head
    BY <2>1, Zenon
  <2>4. saved.cursor >= saved.head => saved.total = saved.head
    BY <1>1 DEF Tallies, Tallied
  <2>5. view'.current => view'.total = view'.to
    BY <2>2, <2>3, <2>4
  <2>6. UNCHANGED <<height, saved, refreshes>>
    BY <1>10 DEF Stats!Show
  <2>. QED
    BY <2>5, <2>6 DEF StatsHeld, Tallied, FetchedHeld
<1>11. ASSUME NEW r \in Refreshes,
              Stats!Lock(r) \/ Stats!ClearError(r) \/ Stats!Throw(r)
       PROVE  StatsHeld'
  BY <1>2, <1>11 DEF Stats!Lock, Stats!ClearError, Stats!Throw, StatsPlaces
<1>12. ASSUME NEW r \in Refreshes, Stats!Release(r) \/ Stats!Die(r)
       PROVE  StatsHeld'
  BY <1>8, <1>12 DEF Stats!Release, Stats!Die
<1>. QED
  BY <1>3, <1>4, <1>5, <1>6, <1>7, <1>9, <1>10, <1>11, <1>12 DEF Stats!Next

\* Whatever crashes, overlaps, loses its lock or is returned twice, the totals
\* are those of the blocks up to the cursor, and a page that calls its figures
\* current shows those of the head it names.
THEOREM TotalsCorrect == ServicesSpec => []TotalsAddUp
<1>1. ServicesInit => (part = "stats" => StatsHeld)
  BY StatsInit DEF ServicesInit
<1>2. (part = "stats" => StatsHeld) /\ [ServicesNext]_<<part, servicesVars>>
         => (part = "stats" => StatsHeld)'
  <2>1. ASSUME part = "stats" => StatsHeld, UNCHANGED part, UNCHANGED statsVars
        PROVE  (part = "stats" => StatsHeld)'
    BY <2>1 DEF statsVars, StatsHeld, Tallied, FetchedHeld
  <2>2. ASSUME part = "stats" => StatsHeld, UNCHANGED <<part, servicesVars>>
        PROVE  (part = "stats" => StatsHeld)'
    BY <2>1, <2>2 DEF servicesVars
  <2>3. ASSUME part = "stats" => StatsHeld, ServicesNext
        PROVE  (part = "stats" => StatsHeld)'
    BY <2>3, StatsStep DEF ServicesNext
  <2>. QED
    BY <2>2, <2>3
<1>3. StatsHeld => Stats!TotalsAddUp
  BY DEF StatsHeld, Tallied, Stats!TotalsAddUp
<1>. QED
  BY <1>1, <1>2, <1>3, PTL DEF ServicesSpec, TotalsAddUp

-----------------------------------------------------------------------------
(* The chain index.                                                        *)

\* Every copy of the cursor that a run carries is backed by stored events, or
\* says that some were left out.  A run that works within its lock is alone, so
\* the cursor it carries is the stored one, and the nonce it found or wrote is
\* that of its range or of a later block.
IndexPlaces == {"idle", "locking", "reading", "heading", "chunk", "nonces", "raising", "counting",
                "storing", "moving", "releasing"}
InRange == {"nonces", "raising", "counting", "storing", "moving"}
Raised == {"counting", "storing", "moving"}
IndexMetas == [cursor : Nat, head : Nat, truncated : BOOLEAN]
IndexRuns == [at : IndexPlaces, meta : IndexMetas, to : Nat, known : Nat, have : Nat]

IndexTypes ==
    /\ blocks \in Seq({"registered", "netted"})
    /\ meta \in IndexMetas
    /\ events \subseteq 1 .. Len(blocks)
    /\ nonce \in Nat
    /\ indexLock \in Syncs \cup {NoSync}
    /\ syncs \in [Syncs -> IndexRuns]

Backed(n, truncated) == ~ truncated => 1 .. n \subseteq events
MetaHeld(m) == m.cursor <= m.head /\ m.head <= Len(blocks) /\ Backed(m.cursor, m.truncated)
RangeHeld(run) ==
    /\ MetaHeld(run.meta)
    /\ run.at \in InRange => run.to \in run.meta.cursor + 1 .. run.meta.head
    /\ run.at = "moving" => Backed(run.to, run.meta.truncated)
EventsHeld == MetaHeld(meta) /\ \A s \in Syncs : RangeHeld(syncs[s])

Works(run) == run.at \notin {"idle", "locking"}
Reached(n) == \E i \in n .. Len(blocks) : nonce = Indexes!RegisteredTo(i)
WorkHeld(s, run) ==
    Works(run) => /\ indexLock = s
                  /\ run.at # "reading" => run.meta.cursor = meta.cursor
                  /\ run.at = "raising" => run.known = nonce
                  /\ run.at \in Raised => Reached(run.to)
NonceHeld == ~ outlived => Reached(meta.cursor) /\ \A s \in Syncs : WorkHeld(s, syncs[s])

IndexHeld == IndexTypes /\ EventsHeld /\ NonceHeld

\* The nonce of the pair never falls from block to block, and stays where no
\* invoice was registered.
LEMMA NonceGrows ==
    ASSUME NEW m \in Nat, NEW n \in Nat, m <= n
    PROVE  /\ Indexes!RegisteredTo(m) \in Nat
           /\ Indexes!RegisteredTo(m) <= Indexes!RegisteredTo(n)
           /\ (\A i \in m + 1 .. n : blocks[i] # "registered")
                 => Indexes!RegisteredTo(m) = Indexes!RegisteredTo(n)
<1>. DEFINE upTo(j) == {i \in 1 .. j : blocks[i] = "registered"}
<1>1. \A S : Indexes!Cardinality(S) = Cardinality(S)
  BY Zenon DEF Indexes!Cardinality, Cardinality
<1>2. \A j : Indexes!RegisteredTo(j) = Cardinality(upTo(j))
  BY <1>1 DEF Indexes!RegisteredTo
<1>3. IsFiniteSet(1 .. n)
  BY FS_Interval
<1>4. upTo(n) \in SUBSET (1 .. n) /\ upTo(m) \in SUBSET upTo(n)
  OBVIOUS
<1>5. (\A i \in m + 1 .. n : blocks[i] # "registered") => upTo(m) = upTo(n)
  OBVIOUS
<1>. HIDE DEF upTo
<1>6. IsFiniteSet(upTo(n))
  BY <1>3, <1>4, FS_Subset
<1>7. Cardinality(upTo(m)) \in Nat /\ Cardinality(upTo(m)) <= Cardinality(upTo(n))
  BY <1>4, <1>6, FS_Subset, FS_CardinalityType
<1>. QED
  BY <1>2, <1>5, <1>7

\* A run that moves on leaves what it carries, and what the other runs carry,
\* backed by the events.
LEMMA EventsKept ==
    ASSUME IndexTypes, EventsHeld, NEW s \in Syncs, NEW new \in IndexRuns,
           syncs' = [syncs EXCEPT ![s] = new], blocks' = blocks, events \subseteq events',
           MetaHeld(meta)', RangeHeld(new)'
    PROVE  EventsHeld'
<1>1. \A n, truncated : Backed(n, truncated) => Backed(n, truncated)'
  BY DEF Backed
<1>2. \A run : RangeHeld(run) => RangeHeld(run)'
  BY <1>1 DEF RangeHeld, MetaHeld
<1>3. \A r \in Syncs : syncs'[r] = IF r = s THEN new ELSE syncs[r]
  BY DEF IndexTypes
<1>4. ASSUME NEW r \in Syncs
      PROVE  RangeHeld(syncs[r])'
  <2>1. PICK run : run = syncs'[r]
    OBVIOUS
  <2>2. RangeHeld(run)'
    BY <1>2, <1>3, <2>1 DEF EventsHeld
  <2>. QED
    BY <2>1, <2>2 DEF RangeHeld, MetaHeld, Backed
<1>. QED
  BY <1>4 DEF EventsHeld

\* A run that does not work within the lock changes nothing for the one that
\* does.
LEMMA IdleMoves ==
    ASSUME IndexTypes, NonceHeld, NEW s \in Syncs, NEW new \in IndexRuns,
           syncs' = [syncs EXCEPT ![s] = new], ~ Works(new),
           UNCHANGED <<blocks, meta, nonce, indexLock, outlived>>
    PROVE  NonceHeld'
<1>1. \A r \in Syncs : syncs'[r] = IF r = s THEN new ELSE syncs[r]
  BY DEF IndexTypes
<1>2. \A n : Reached(n)' <=> Reached(n)
  BY DEF Reached, Indexes!RegisteredTo
<1>. QED
  BY <1>1, <1>2 DEF NonceHeld, WorkHeld, Works

\* Within the lock one run works alone.
LEMMA WorkMoves ==
    ASSUME IndexTypes, NonceHeld, NEW s \in Syncs, NEW new \in IndexRuns,
           syncs' = [syncs EXCEPT ![s] = new], outlived' = outlived,
           Works(syncs[s]) \/ indexLock = NoSync,
           ~ outlived => Reached(meta.cursor)' /\ WorkHeld(s, new)'
    PROVE  NonceHeld'
<1>1. \A r \in Syncs : syncs'[r] = IF r = s THEN new ELSE syncs[r]
  BY DEF IndexTypes
<1>2. ASSUME ~ outlived, NEW r \in Syncs \ {s}
      PROVE  ~ Works(syncs[r])
  BY <1>2, ServicesAssumption DEF NonceHeld, WorkHeld
<1>. QED
  BY <1>1, <1>2 DEF NonceHeld, WorkHeld, Works

\* A run that reads, waits or ends, and writes nothing.
LEMMA IndexMoves ==
    ASSUME IndexHeld, NEW s \in Syncs, NEW new \in IndexRuns,
           syncs' = [syncs EXCEPT ![s] = new],
           UNCHANGED <<blocks, meta, events, nonce, indexLock, outlived>>,
           RangeHeld(new),
           ~ Works(new) \/ (Works(syncs[s]) /\ (~ outlived => WorkHeld(s, new)))
    PROVE  IndexHeld'
<1>1. IndexTypes'
  BY DEF IndexHeld, IndexTypes
<1>2. MetaHeld(meta)' /\ RangeHeld(new)'
  BY DEF IndexHeld, EventsHeld, MetaHeld, RangeHeld, Backed
<1>3. EventsHeld'
  BY <1>2, EventsKept DEF IndexHeld
<1>4. \A n : Reached(n)' <=> Reached(n)
  BY DEF Reached, Indexes!RegisteredTo
<1>5. NonceHeld'
  <2>1. CASE ~ Works(new)
    BY <2>1, IdleMoves DEF IndexHeld
  <2>2. CASE Works(syncs[s]) /\ (~ outlived => WorkHeld(s, new))
    <3>1. ~ outlived => Reached(meta.cursor)'
      BY <1>4 DEF IndexHeld, NonceHeld
    <3>2. ~ outlived => WorkHeld(s, new)'
      BY <1>4, <2>2 DEF WorkHeld
    <3>. QED
      BY <2>2, <3>1, <3>2, WorkMoves DEF IndexHeld
  <2>. QED
    BY <2>1, <2>2
<1>. QED
  BY <1>1, <1>3, <1>5 DEF IndexHeld

\* A run that writes what it has found, with the lock held or lost.
LEMMA IndexWrites ==
    ASSUME IndexHeld, NEW s \in Syncs, NEW new \in IndexRuns,
           syncs' = [syncs EXCEPT ![s] = new], UNCHANGED <<blocks, outlived>>,
           meta' \in IndexMetas, events \subseteq events', events' \subseteq 1 .. Len(blocks),
           nonce' \in Nat, indexLock' \in Syncs \cup {NoSync},
           MetaHeld(meta)', RangeHeld(new)',
           Works(syncs[s]) \/ indexLock = NoSync,
           ~ outlived => Reached(meta.cursor)' /\ WorkHeld(s, new)'
    PROVE  IndexHeld'
<1>1. IndexTypes'
  BY DEF IndexHeld, IndexTypes
<1>2. EventsHeld'
  BY EventsKept DEF IndexHeld
<1>3. NonceHeld'
  BY WorkMoves DEF IndexHeld
<1>. QED
  BY <1>1, <1>2, <1>3 DEF IndexHeld

\* A run that is nowhere yet.
LEMMA NoRunHeld ==
    ASSUME IndexHeld, NEW new, new = Indexes!NoRun
    PROVE  new \in IndexRuns /\ ~ Works(new) /\ RangeHeld(new)
<1>1. PICK zero : zero = [cursor |-> 0, head |-> 0, truncated |-> FALSE]
  OBVIOUS
<1>2. zero \in IndexMetas /\ zero.cursor = 0 /\ zero.head = 0
  BY <1>1 DEF IndexMetas
<1>3. new = [at |-> "idle", meta |-> zero, to |-> 0, known |-> 0, have |-> 0]
  BY <1>1 DEF Indexes!NoRun, Indexes!emptyMeta
<1>4. new \in IndexRuns /\ new.at = "idle" /\ new.meta = zero
  BY <1>2, <1>3 DEF IndexRuns, IndexPlaces
<1>5. Len(blocks) \in Nat /\ 1 .. 0 = {}
  BY LenProperties DEF IndexHeld, IndexTypes
<1>. QED
  BY <1>2, <1>4, <1>5 DEF Works, RangeHeld, MetaHeld, Backed, InRange

\* A run whose place alone changes.
LEMMA PlaceChanges ==
    ASSUME IndexHeld, NEW s \in Syncs, NEW place \in IndexPlaces, Indexes!Go(s, place)
    PROVE  \E new \in IndexRuns :
              /\ syncs' = [syncs EXCEPT ![s] = new]
              /\ new.at = place /\ new.meta = syncs[s].meta /\ new.to = syncs[s].to
<1>1. PICK old \in IndexRuns : old = syncs[s]
  BY DEF IndexHeld, IndexTypes
<1>2. PICK new : new = [old EXCEPT !.at = place]
  OBVIOUS
<1>3. new \in IndexRuns /\ new.at = place /\ new.meta = old.meta /\ new.to = old.to
  BY <1>2 DEF IndexRuns
<1>4. syncs' = [syncs EXCEPT ![s] = new]
  BY <1>1, <1>2 DEF Indexes!Go
<1>. QED
  BY <1>1, <1>3, <1>4

LEMMA IndexInit ==
    ASSUME Indexes!Init
    PROVE  IndexHeld
<1>1. PICK zero : zero = [cursor |-> 0, head |-> 0, truncated |-> FALSE]
  OBVIOUS
<1>2. zero \in IndexMetas /\ zero.cursor = 0 /\ zero.head = 0
  BY <1>1 DEF IndexMetas
<1>3. PICK none : none = [at |-> "idle", meta |-> zero, to |-> 0, known |-> 0, have |-> 0]
  OBVIOUS
<1>4. none \in IndexRuns /\ none.at = "idle" /\ none.meta = zero
  BY <1>2, <1>3 DEF IndexRuns, IndexPlaces
<1>5. /\ blocks = <<>> /\ meta = zero /\ events = {} /\ nonce = 0 /\ indexLock = NoSync
      /\ syncs = [s \in Syncs |-> none]
  BY <1>1, <1>3 DEF Indexes!Init, Indexes!NoRun, Indexes!emptyMeta
<1>6. blocks \in Seq({"registered", "netted"}) /\ Len(blocks) = 0
  BY <1>5, EmptySeq
<1>7. IndexTypes
  BY <1>2, <1>4, <1>5, <1>6 DEF IndexTypes
<1>8. 1 .. 0 = {}
  OBVIOUS
<1>9. EventsHeld
  BY <1>2, <1>4, <1>5, <1>6, <1>8 DEF EventsHeld, MetaHeld, RangeHeld, Backed, InRange
<1>10. Indexes!RegisteredTo(0) = 0
  <2>1. \A S : Indexes!Cardinality(S) = Cardinality(S)
    BY Zenon DEF Indexes!Cardinality, Cardinality
  <2>2. {i \in 1 .. 0 : blocks[i] = "registered"} = {}
    BY <1>8
  <2>. QED
    BY <2>1, <2>2, FS_EmptySet DEF Indexes!RegisteredTo
<1>11. Reached(0)
  <2>1. 0 \in 0 .. Len(blocks)
    BY <1>6
  <2>. QED
    BY <1>5, <1>10, <2>1 DEF Reached
<1>12. NonceHeld
  BY <1>2, <1>4, <1>5, <1>11 DEF NonceHeld, WorkHeld, Works
<1>. QED
  BY <1>7, <1>9, <1>12 DEF IndexHeld

\* The chain grows at its end.
LEMMA ChainGrows ==
    ASSUME IndexHeld, NEW kind \in {"registered", "netted"}, Indexes!Grow(kind)
    PROVE  IndexHeld'
<1>1. PICK size \in Nat : size = Len(blocks)
  BY LenProperties DEF IndexHeld, IndexTypes
<1>2. UNCHANGED <<meta, events, nonce, indexLock, syncs, outlived>>
  BY DEF Indexes!Grow
<1>3. /\ blocks' \in Seq({"registered", "netted"}) /\ Len(blocks') = size + 1
      /\ \A i \in 1 .. size : blocks'[i] = blocks[i]
  BY <1>1, AppendProperties DEF Indexes!Grow, IndexHeld, IndexTypes
<1>4. IndexTypes'
  <2>1. 1 .. size \subseteq 1 .. size + 1
    BY <1>1
  <2>. QED
    BY <1>1, <1>2, <1>3, <2>1 DEF IndexHeld, IndexTypes
<1>5. \A n : n <= size /\ n \in Nat => n <= size + 1
  BY <1>1
<1>6. \A run \in IndexRuns : RangeHeld(run) => RangeHeld(run)'
  BY <1>1, <1>2, <1>3, <1>5 DEF RangeHeld, MetaHeld, Backed, IndexRuns, IndexMetas
<1>7. EventsHeld'
  <2>1. MetaHeld(meta)'
    BY <1>1, <1>2, <1>3, <1>5 DEF IndexHeld, IndexTypes, EventsHeld, MetaHeld, Backed, IndexMetas
  <2>2. ASSUME NEW s \in Syncs
        PROVE  RangeHeld(syncs[s])'
    <3>1. PICK run \in IndexRuns : run = syncs[s]
      BY DEF IndexHeld, IndexTypes
    <3>2. RangeHeld(run)'
      BY <1>6, <3>1 DEF IndexHeld, EventsHeld
    <3>. QED
      BY <1>2, <3>1, <3>2 DEF RangeHeld, MetaHeld, Backed
  <2>. QED
    BY <2>1, <2>2 DEF EventsHeld
<1>8. \A n \in 0 .. size : Indexes!RegisteredTo(n)' = Indexes!RegisteredTo(n)
  <2>1. ASSUME NEW n \in 0 .. size
        PROVE  {i \in 1 .. n : blocks'[i] = "registered"} = {i \in 1 .. n : blocks[i] = "registered"}
    BY <1>1, <1>3
  <2>. QED
    BY <2>1 DEF Indexes!RegisteredTo
<1>9. \A n \in Nat : Reached(n) => Reached(n)'
  <2>1. ASSUME NEW n \in Nat, Reached(n)
        PROVE  Reached(n)'
    <3>1. PICK i \in n .. size : nonce = Indexes!RegisteredTo(i)
      BY <1>1, <2>1 DEF Reached
    <3>2. i \in 0 .. size /\ i \in n .. size + 1
      BY <1>1
    <3>3. nonce' = Indexes!RegisteredTo(i)'
      BY <1>2, <1>8, <3>1, <3>2
    <3>. QED
      BY <1>3, <3>2, <3>3 DEF Reached
  <2>. QED
    BY <2>1
<1>10. NonceHeld'
  <2>1. meta.cursor \in Nat /\ \A s \in Syncs : syncs[s].to \in Nat
    BY DEF IndexHeld, IndexTypes, IndexRuns, IndexMetas
  <2>. QED
    BY <1>2, <1>9, <2>1 DEF IndexHeld, NonceHeld, WorkHeld
<1>. QED
  BY <1>4, <1>7, <1>10 DEF IndexHeld

\* The larger of the nonce known and that of the range is the nonce at the end
\* of the range or after it.
LEMMA RangeIsReached ==
    ASSUME IndexHeld, NEW m \in Nat, NEW n \in Nat, m <= n, n <= Len(blocks), Reached(m)
    PROVE  /\ Indexes!RegisteredTo(n) <= nonce => Reached(n)
           /\ (\A i \in m + 1 .. n : blocks[i] # "registered") => Reached(n)
<1>1. PICK size \in Nat : size = Len(blocks)
  BY LenProperties DEF IndexHeld, IndexTypes
<1>2. PICK i \in Nat : m <= i /\ i <= size /\ nonce = Indexes!RegisteredTo(i)
  BY <1>1 DEF Reached
<1>3. CASE n <= i
  <2>1. i \in n .. size
    BY <1>1, <1>2, <1>3
  <2>. QED
    BY <1>1, <1>2, <2>1 DEF Reached
<1>4. CASE i <= n
  <2>1. /\ Indexes!RegisteredTo(i) \in Nat /\ Indexes!RegisteredTo(n) \in Nat
        /\ Indexes!RegisteredTo(i) <= Indexes!RegisteredTo(n)
    BY <1>4, NonceGrows
  <2>2. Indexes!RegisteredTo(n) <= nonce => Indexes!RegisteredTo(n) = nonce
    BY <1>2, <2>1
  <2>3. (\A j \in m + 1 .. n : blocks[j] # "registered") => Indexes!RegisteredTo(n) = nonce
    <3>1. i + 1 .. n \subseteq m + 1 .. n
      BY <1>2
    <3>. QED
      BY <1>2, <1>4, <3>1, NonceGrows
  <2>4. n \in n .. size
    BY <1>1
  <2>. QED
    BY <1>1, <2>2, <2>3, <2>4 DEF Reached
<1>. QED
  BY <1>2, <1>3, <1>4

LEMMA IndexMinAndMax ==
    ASSUME NEW m \in Nat, NEW n \in Nat
    PROVE  /\ Indexes!Min({m, n}) = IF m <= n THEN m ELSE n
           /\ Indexes!Max({m, n}) = IF m <= n THEN n ELSE m
<1>1. \A x \in {m, n} : (\A y \in {m, n} : x <= y) => x = IF m <= n THEN m ELSE n
  OBVIOUS
<1>2. \A x \in {m, n} : (\A y \in {m, n} : x >= y) => x = IF m <= n THEN n ELSE m
  OBVIOUS
<1>3. \E x \in {m, n} : \A y \in {m, n} : x <= y
  OBVIOUS
<1>4. \E x \in {m, n} : \A y \in {m, n} : x >= y
  OBVIOUS
<1>. QED
  BY <1>1, <1>2, <1>3, <1>4 DEF Indexes!Min, Indexes!Max

\* The next range is read, or nothing more is, or the head is written.
LEMMA LogsAreRead ==
    ASSUME IndexHeld, NEW s \in Syncs, Indexes!ReadLogs(s)
    PROVE  IndexHeld'
<1>1. PICK old \in IndexRuns : old = syncs[s] /\ RangeHeld(old) /\ (~ outlived => WorkHeld(s, old))
  BY DEF IndexHeld, IndexTypes, EventsHeld, NonceHeld
<1>2. PICK m \in IndexMetas : m = old.meta /\ MetaHeld(m)
  BY <1>1 DEF IndexRuns, RangeHeld
<1>3. /\ old.at = "chunk" /\ Works(old)
      /\ UNCHANGED <<blocks, events, nonce, indexLock, outlived>>
  BY <1>1 DEF Indexes!ReadLogs, Indexes!At, Works
<1>4. CASE Indexes!Go(s, "releasing") /\ UNCHANGED meta
  <2>1. PICK new \in IndexRuns : /\ syncs' = [syncs EXCEPT ![s] = new]
                                 /\ new.at = "releasing" /\ new.meta = m
    BY <1>1, <1>2, <1>4, PlaceChanges DEF IndexPlaces
  <2>2. RangeHeld(new) /\ (~ outlived => WorkHeld(s, new))
    BY <1>1, <1>2, <1>3, <2>1 DEF RangeHeld, InRange, WorkHeld, Works, Raised
  <2>. QED
    BY <1>1, <1>3, <1>4, <2>1, <2>2, IndexMoves
<1>5. CASE /\ m.cursor < m.head
           /\ syncs' = [syncs EXCEPT ![s].to = Indexes!Min({m.cursor + ChunkBlocks, m.head}),
                                     ![s].at = "nonces"]
           /\ UNCHANGED meta
  <2>1. PICK from \in Nat, head \in Nat : from = m.cursor /\ head = m.head /\ from < head
    BY <1>5 DEF IndexMetas
  <2>2. PICK to \in from + 1 .. head : to = Indexes!Min({from + ChunkBlocks, head})
    <3>1. PICK end \in Nat : end = from + ChunkBlocks /\ from < end
      BY ServicesAssumption
    <3>2. Indexes!Min({end, head}) = IF end <= head THEN end ELSE head
      BY IndexMinAndMax
    <3>3. (IF end <= head THEN end ELSE head) \in from + 1 .. head
      BY <2>1, <3>1
    <3>. QED
      BY <3>1, <3>2, <3>3
  <2>3. PICK new : new = [old EXCEPT !.to = to, !.at = "nonces"]
    OBVIOUS
  <2>4. to \in Nat
    BY <2>1, <2>2
  <2>5. new \in IndexRuns /\ new.at = "nonces" /\ new.to = to /\ new.meta = m
    BY <1>2, <2>3, <2>4 DEF IndexRuns, IndexPlaces
  <2>6. syncs' = [syncs EXCEPT ![s] = new]
    BY <1>1, <1>5, <2>1, <2>2, <2>3
  <2>7. RangeHeld(new) /\ (~ outlived => WorkHeld(s, new))
    BY <1>1, <1>2, <1>3, <2>1, <2>2, <2>5 DEF RangeHeld, WorkHeld, Works, Raised
  <2>. QED
    BY <1>1, <1>3, <1>5, <2>5, <2>6, <2>7, IndexMoves
<1>6. CASE meta' = m /\ Indexes!Go(s, "releasing")
  <2>1. PICK new \in IndexRuns : /\ syncs' = [syncs EXCEPT ![s] = new]
                                 /\ new.at = "releasing" /\ new.meta = m
    BY <1>1, <1>2, <1>6, PlaceChanges DEF IndexPlaces
  <2>2. MetaHeld(meta)' /\ RangeHeld(new)'
    BY <1>2, <1>3, <1>6, <2>1 DEF RangeHeld, MetaHeld, Backed, InRange
  <2>3. ~ outlived => Reached(meta.cursor)' /\ WorkHeld(s, new)'
    <3>1. ~ outlived => indexLock = s /\ m.cursor = meta.cursor /\ Reached(meta.cursor)
      BY <1>1, <1>2, <1>3 DEF WorkHeld, IndexHeld, NonceHeld
    <3>2. \A n : Reached(n)' <=> Reached(n)
      BY <1>3 DEF Reached, Indexes!RegisteredTo
    <3>. QED
      BY <1>3, <1>6, <2>1, <3>1, <3>2 DEF WorkHeld, Raised, Reached
  <2>4. /\ events \subseteq events' /\ events' \subseteq 1 .. Len(blocks) /\ nonce' \in Nat
        /\ indexLock' \in Syncs \cup {NoSync}
    BY <1>3 DEF IndexHeld, IndexTypes
  <2>. QED
    BY <1>1, <1>3, <1>6, <2>1, <2>2, <2>3, <2>4, IndexWrites
<1>. QED
  BY <1>1, <1>2, <1>4, <1>5, <1>6 DEF Indexes!ReadLogs

LEMMA NoncesAreRead ==
    ASSUME IndexHeld, NEW s \in Syncs, Indexes!ReadNonces(s)
    PROVE  IndexHeld'
<1>1. PICK old \in IndexRuns : old = syncs[s] /\ RangeHeld(old) /\ (~ outlived => WorkHeld(s, old))
  BY DEF IndexHeld, IndexTypes, EventsHeld, NonceHeld
<1>2. PICK m \in IndexMetas : m = old.meta /\ MetaHeld(m)
  BY <1>1 DEF IndexRuns, RangeHeld
<1>3. /\ old.at = "nonces" /\ Works(old)
      /\ UNCHANGED <<blocks, meta, events, nonce, indexLock, outlived>>
  BY <1>1 DEF Indexes!ReadNonces, Indexes!At, Works
<1>4. CASE syncs' = [syncs EXCEPT ![s].known = nonce, ![s].at = "raising"]
  <2>1. PICK new : new = [old EXCEPT !.known = nonce, !.at = "raising"]
    OBVIOUS
  <2>2. nonce \in Nat
    BY DEF IndexHeld, IndexTypes
  <2>3. /\ new \in IndexRuns /\ new.at = "raising" /\ new.known = nonce
        /\ new.to = old.to /\ new.meta = m
    BY <1>2, <2>1, <2>2 DEF IndexRuns, IndexPlaces
  <2>4. syncs' = [syncs EXCEPT ![s] = new]
    BY <1>1, <1>4, <2>1
  <2>5. RangeHeld(new) /\ (~ outlived => WorkHeld(s, new))
    BY <1>1, <1>2, <1>3, <2>3 DEF RangeHeld, InRange, WorkHeld, Works, Raised
  <2>. QED
    BY <1>1, <1>3, <2>3, <2>4, <2>5, IndexMoves
<1>5. CASE Indexes!Go(s, "counting") /\ ~ \E i \in Indexes!Blocks(s) : blocks[i] = "registered"
  <2>1. PICK new \in IndexRuns : /\ syncs' = [syncs EXCEPT ![s] = new]
                                 /\ new.at = "counting" /\ new.meta = m /\ new.to = old.to
    BY <1>1, <1>2, <1>5, PlaceChanges DEF IndexPlaces
  <2>2. RangeHeld(new)
    BY <1>1, <1>2, <1>3, <2>1 DEF RangeHeld, InRange
  <2>3. ASSUME ~ outlived
        PROVE  WorkHeld(s, new)
    <3>1. indexLock = s /\ m.cursor = meta.cursor /\ Reached(m.cursor)
      BY <1>1, <1>2, <1>3, <2>3 DEF WorkHeld, IndexHeld, NonceHeld
    <3>2. PICK from \in Nat, to \in Nat : /\ from = m.cursor /\ to = old.to
                                          /\ from <= to /\ to <= Len(blocks)
      <4>1. PICK from \in Nat, head \in Nat, to \in Nat, size \in Nat :
               /\ from = m.cursor /\ head = m.head /\ to = old.to /\ size = Len(blocks)
               /\ to \in from + 1 .. head /\ head <= size
        BY <1>1, <1>2, <1>3, LenProperties DEF RangeHeld, InRange, MetaHeld, IndexRuns, IndexMetas,
           IndexHeld, IndexTypes
      <4>. QED
        BY <4>1
    <3>3. \A i \in from + 1 .. to : blocks[i] # "registered"
      BY <1>1, <1>2, <1>5, <3>2 DEF Indexes!Blocks
    <3>4. Reached(to)
      BY <3>1, <3>2, <3>3, RangeIsReached
    <3>. QED
      BY <2>1, <3>1, <3>2, <3>4 DEF WorkHeld
  <2>. QED
    BY <1>1, <1>3, <2>1, <2>2, <2>3, IndexMoves
<1>. QED
  BY <1>1, <1>4, <1>5 DEF Indexes!ReadNonces

LEMMA NonceIsPut ==
    ASSUME IndexHeld, NEW s \in Syncs, Indexes!PutNonces(s)
    PROVE  IndexHeld'
<1>1. PICK old \in IndexRuns : old = syncs[s] /\ RangeHeld(old) /\ (~ outlived => WorkHeld(s, old))
  BY DEF IndexHeld, IndexTypes, EventsHeld, NonceHeld
<1>2. PICK m \in IndexMetas : m = old.meta /\ MetaHeld(m)
  BY <1>1 DEF IndexRuns, RangeHeld
<1>3. /\ old.at = "raising" /\ Works(old)
      /\ UNCHANGED <<blocks, meta, events, indexLock, outlived>>
  BY <1>1 DEF Indexes!PutNonces, Indexes!At, Works
<1>4. PICK from \in Nat, to \in Nat, size \in Nat :
         from = m.cursor /\ to = old.to /\ size = Len(blocks) /\ from <= to /\ to <= size
  <2>1. PICK from \in Nat, head \in Nat, to \in Nat, size \in Nat :
           /\ from = m.cursor /\ head = m.head /\ to = old.to /\ size = Len(blocks)
           /\ to \in from + 1 .. head /\ head <= size
    BY <1>1, <1>2, <1>3, LenProperties DEF RangeHeld, InRange, MetaHeld, IndexRuns, IndexMetas,
       IndexHeld, IndexTypes
  <2>2. from <= to /\ to <= size
    BY <2>1
  <2>. QED
    BY <2>1, <2>2, Zenon
<1>5. PICK last \in Nat : last = Indexes!RegisteredTo(to)
  BY <1>4, NonceGrows
<1>6. /\ Indexes!Go(s, "counting")
      /\ nonce' = IF last > old.known THEN last ELSE nonce
  BY <1>1, <1>4, <1>5 DEF Indexes!PutNonces
<1>7. PICK new \in IndexRuns : /\ syncs' = [syncs EXCEPT ![s] = new]
                               /\ new.at = "counting" /\ new.meta = m /\ new.to = to
  BY <1>1, <1>2, <1>4, <1>6, PlaceChanges DEF IndexPlaces
<1>8. MetaHeld(meta)' /\ RangeHeld(new)'
  BY <1>1, <1>2, <1>3, <1>4, <1>7 DEF IndexHeld, EventsHeld, RangeHeld, InRange, MetaHeld, Backed
<1>9. nonce' \in Nat /\ nonce \in Nat
  BY <1>5, <1>6 DEF IndexHeld, IndexTypes
<1>10. ASSUME ~ outlived
       PROVE  Reached(meta.cursor)' /\ WorkHeld(s, new)'
  <2>1. indexLock = s /\ from = meta.cursor /\ Reached(from) /\ old.known = nonce
    BY <1>1, <1>2, <1>3, <1>4, <1>10 DEF WorkHeld, IndexHeld, NonceHeld
  <2>2. \A n : Indexes!RegisteredTo(n)' = Indexes!RegisteredTo(n)
    BY <1>3 DEF Indexes!RegisteredTo
  <2>3. Reached(to)'
    <3>1. CASE last > nonce
      <4>1. nonce' = Indexes!RegisteredTo(to)' /\ to \in to .. size
        BY <1>4, <1>5, <1>6, <2>1, <2>2, <3>1
      <4>. QED
        BY <1>3, <1>4, <4>1 DEF Reached
    <3>2. CASE ~ (last > nonce)
      <4>1. nonce' = nonce /\ last <= nonce
        BY <1>6, <1>9, <2>1, <3>2
      <4>2. Reached(to)
        BY <1>4, <1>5, <2>1, <4>1, RangeIsReached
      <4>. QED
        BY <1>3, <2>2, <4>1, <4>2 DEF Reached
    <3>. QED
      BY <3>1, <3>2
  <2>4. Reached(from)'
    <3>1. PICK i \in to .. size : nonce' = Indexes!RegisteredTo(i)'
      BY <1>3, <1>4, <2>3 DEF Reached
    <3>2. i \in from .. size
      BY <1>4
    <3>. QED
      BY <1>3, <1>4, <3>1, <3>2 DEF Reached
  <2>. QED
    BY <1>3, <1>4, <1>7, <2>1, <2>3, <2>4 DEF WorkHeld
<1>11. /\ events \subseteq events' /\ events' \subseteq 1 .. Len(blocks) /\ meta' \in IndexMetas
       /\ indexLock' \in Syncs \cup {NoSync}
  BY <1>3 DEF IndexHeld, IndexTypes
<1>. QED
  BY <1>1, <1>3, <1>7, <1>8, <1>9, <1>10, <1>11, IndexWrites

\* The events of a range are stored, or the run notes that some were left out.
LEMMA EventsArePut ==
    ASSUME IndexHeld, NEW s \in Syncs, Indexes!PutEvents(s)
    PROVE  IndexHeld'
<1>1. PICK old \in IndexRuns : old = syncs[s] /\ RangeHeld(old) /\ (~ outlived => WorkHeld(s, old))
  BY DEF IndexHeld, IndexTypes, EventsHeld, NonceHeld
<1>2. PICK m \in IndexMetas : m = old.meta /\ MetaHeld(m)
  BY <1>1 DEF IndexRuns, RangeHeld
<1>3. /\ old.at = "storing" /\ Works(old)
      /\ UNCHANGED <<blocks, meta, nonce, indexLock, outlived>>
  BY <1>1 DEF Indexes!PutEvents, Indexes!At, Works
<1>4. PICK from \in Nat, to \in Nat, size \in Nat, head \in Nat :
         /\ from = m.cursor /\ to = old.to /\ size = Len(blocks) /\ head = m.head
         /\ to \in from + 1 .. head /\ from <= to /\ to <= size
  <2>1. PICK from \in Nat, head \in Nat, to \in Nat, size \in Nat :
           /\ from = m.cursor /\ head = m.head /\ to = old.to /\ size = Len(blocks)
           /\ to \in from + 1 .. head /\ head <= size
    BY <1>1, <1>2, <1>3, LenProperties DEF RangeHeld, InRange, MetaHeld, IndexRuns, IndexMetas,
       IndexHeld, IndexTypes
  <2>2. from <= to /\ to <= size
    BY <2>1
  <2>. QED
    BY <2>1, <2>2, Zenon
<1>5. Indexes!Blocks(s) = from + 1 .. to
  BY <1>1, <1>2, <1>4 DEF Indexes!Blocks
<1>6. PICK kept \in SUBSET (from + 1 .. to) :
         /\ events' = events \cup kept
         /\ syncs' = [syncs EXCEPT ![s].at = "moving",
                                   ![s].meta.truncated = @ \/ kept # from + 1 .. to]
  <2>1. PICK room : room = Indexes!Max({0, MaxEvents - syncs[s].have})
    OBVIOUS
  <2>2. PICK kept : kept = {i \in from + 1 .. to : i <= from + room}
    OBVIOUS
  <2>3. /\ events' = events \cup kept
        /\ syncs' = [syncs EXCEPT ![s].at = "moving",
                                  ![s].meta.truncated = @ \/ kept # from + 1 .. to]
    BY <1>1, <1>2, <1>4, <1>5, <2>1, <2>2 DEF Indexes!PutEvents
  <2>4. kept \in SUBSET (from + 1 .. to)
    BY <2>2
  <2>. QED
    BY <2>3, <2>4
<1>7. PICK flag \in BOOLEAN : flag = (m.truncated \/ kept # from + 1 .. to)
  BY Zenon
<1>8. PICK next : next = [m EXCEPT !.truncated = flag]
  OBVIOUS
<1>9. next \in IndexMetas /\ next.cursor = from /\ next.head = head /\ next.truncated = flag
  BY <1>4, <1>8 DEF IndexMetas
<1>10. PICK new : new = [old EXCEPT !.at = "moving", !.meta = next]
  OBVIOUS
<1>11. new \in IndexRuns /\ new.at = "moving" /\ new.meta = next /\ new.to = to
  BY <1>4, <1>9, <1>10 DEF IndexRuns, IndexPlaces
<1>12. syncs' = [syncs EXCEPT ![s] = new]
  BY <1>1, <1>2, <1>6, <1>7, <1>8, <1>10
<1>13. ~ flag => ~ m.truncated /\ kept = from + 1 .. to
  BY <1>7, Zenon
<1>14. Backed(from, flag)' /\ Backed(to, flag)'
  <2>1. ~ flag => 1 .. from \subseteq events
    BY <1>2, <1>4, <1>13 DEF MetaHeld, Backed
  <2>2. 1 .. to = (1 .. from) \cup (from + 1 .. to)
    BY <1>4
  <2>. QED
    BY <1>6, <1>13, <2>1, <2>2, Zenon DEF Backed
<1>15. RangeHeld(new)'
  BY <1>2, <1>3, <1>4, <1>9, <1>11, <1>14 DEF RangeHeld, MetaHeld
<1>16. MetaHeld(meta)'
  BY <1>3, <1>6 DEF IndexHeld, EventsHeld, MetaHeld, Backed
<1>17. ~ outlived => Reached(meta.cursor)' /\ WorkHeld(s, new)'
  <2>1. \A n : Reached(n)' <=> Reached(n)
    BY <1>3 DEF Reached, Indexes!RegisteredTo
  <2>2. ~ outlived => /\ indexLock = s /\ from = meta.cursor /\ Reached(to) /\ Reached(meta.cursor)
    BY <1>1, <1>2, <1>3, <1>4 DEF WorkHeld, Raised, IndexHeld, NonceHeld
  <2>3. ASSUME ~ outlived
        PROVE  Reached(meta.cursor)'
    BY <1>3, <2>1, <2>2, <2>3 DEF Reached
  <2>. QED
    BY <1>3, <1>9, <1>11, <2>1, <2>2, <2>3 DEF WorkHeld
<1>18. /\ events \subseteq events' /\ events' \subseteq 1 .. Len(blocks)
       /\ meta' \in IndexMetas /\ nonce' \in Nat /\ indexLock' \in Syncs \cup {NoSync}
  <2>1. from + 1 .. to \subseteq 1 .. size
    BY <1>4
  <2>. QED
    BY <1>3, <1>4, <1>6, <2>1 DEF IndexHeld, IndexTypes
<1>. QED
  BY <1>1, <1>3, <1>11, <1>12, <1>15, <1>16, <1>17, <1>18, IndexWrites

LEMMA MetaIsPut ==
    ASSUME IndexHeld, NEW s \in Syncs, Indexes!PutMeta(s)
    PROVE  IndexHeld'
<1>1. PICK old \in IndexRuns : old = syncs[s] /\ RangeHeld(old) /\ (~ outlived => WorkHeld(s, old))
  BY DEF IndexHeld, IndexTypes, EventsHeld, NonceHeld
<1>2. PICK m \in IndexMetas : m = old.meta /\ MetaHeld(m)
  BY <1>1 DEF IndexRuns, RangeHeld
<1>3. /\ old.at = "moving" /\ Works(old)
      /\ UNCHANGED <<blocks, events, nonce, indexLock, outlived>>
  BY <1>1 DEF Indexes!PutMeta, Indexes!At, Works
<1>4. PICK to \in Nat, head \in Nat : /\ to = old.to /\ head = m.head
                                      /\ to <= head /\ head <= Len(blocks) /\ Backed(to, m.truncated)
  <2>1. PICK from \in Nat, head \in Nat, to \in Nat :
           /\ from = m.cursor /\ head = m.head /\ to = old.to /\ Backed(to, m.truncated)
           /\ to \in from + 1 .. head /\ head <= Len(blocks)
    BY <1>1, <1>2, <1>3 DEF RangeHeld, InRange, MetaHeld, IndexRuns, IndexMetas
  <2>. QED
    BY <2>1
<1>5. PICK next : next = [m EXCEPT !.cursor = to]
  OBVIOUS
<1>6. next \in IndexMetas /\ next.cursor = to /\ next.head = head /\ next.truncated = m.truncated
  BY <1>4, <1>5 DEF IndexMetas
<1>7. PICK new : new = [old EXCEPT !.meta = next, !.at = "chunk"]
  OBVIOUS
<1>8. new \in IndexRuns /\ new.at = "chunk" /\ new.meta = next
  BY <1>6, <1>7 DEF IndexRuns, IndexPlaces
<1>9. meta' = next /\ syncs' = [syncs EXCEPT ![s] = new]
  BY <1>1, <1>2, <1>4, <1>5, <1>7 DEF Indexes!PutMeta
<1>10. MetaHeld(meta)' /\ RangeHeld(new)'
  BY <1>3, <1>4, <1>6, <1>8, <1>9 DEF RangeHeld, InRange, MetaHeld, Backed
<1>11. ASSUME ~ outlived
       PROVE  Reached(meta.cursor)' /\ WorkHeld(s, new)'
  <2>1. indexLock = s /\ Reached(to)
    BY <1>1, <1>3, <1>4, <1>11 DEF WorkHeld, Raised
  <2>2. Reached(meta.cursor)'
    BY <1>3, <1>6, <1>9, <2>1 DEF Reached, Indexes!RegisteredTo
  <2>. QED
    BY <1>3, <1>8, <1>9, <2>1, <2>2 DEF WorkHeld, Raised
<1>12. /\ events \subseteq events' /\ events' \subseteq 1 .. Len(blocks) /\ nonce' \in Nat
       /\ meta' \in IndexMetas /\ indexLock' \in Syncs \cup {NoSync}
  BY <1>3, <1>6, <1>9 DEF IndexHeld, IndexTypes
<1>. QED
  BY <1>1, <1>3, <1>8, <1>9, <1>10, <1>11, <1>12, IndexWrites

LEMMA IndexStep ==
    ASSUME IndexHeld, Indexes!Next
    PROVE  IndexHeld'
<1>1. ASSUME NEW s \in Syncs, Indexes!Begin(s)
      PROVE  IndexHeld'
  <2>1. PICK new \in IndexRuns : /\ syncs' = [syncs EXCEPT ![s] = new]
                                 /\ new.at = "locking" /\ new.meta = syncs[s].meta
    BY <1>1, PlaceChanges DEF Indexes!Begin, IndexPlaces
  <2>2. RangeHeld(new) /\ ~ Works(new)
    BY <2>1 DEF RangeHeld, InRange, Works, IndexHeld, EventsHeld
  <2>. QED
    BY <1>1, <2>1, <2>2, IndexMoves DEF Indexes!Begin
<1>2. ASSUME NEW s \in Syncs, Indexes!Lock(s)
      PROVE  IndexHeld'
  <2>1. PICK new \in IndexRuns : /\ syncs' = [syncs EXCEPT ![s] = new]
                                 /\ new.at = "reading" /\ new.meta = syncs[s].meta
    BY <1>2, PlaceChanges DEF Indexes!Lock, IndexPlaces
  <2>2. /\ indexLock = NoSync /\ indexLock' = s
        /\ UNCHANGED <<blocks, meta, events, nonce, outlived>>
    BY <1>2 DEF Indexes!Lock
  <2>3. MetaHeld(meta)' /\ RangeHeld(new)'
    BY <2>1, <2>2 DEF RangeHeld, MetaHeld, Backed, InRange, IndexHeld, EventsHeld
  <2>4. ~ outlived => Reached(meta.cursor)' /\ WorkHeld(s, new)'
    BY <2>1, <2>2 DEF IndexHeld, NonceHeld, WorkHeld, Raised, Reached, Indexes!RegisteredTo
  <2>5. /\ events \subseteq events' /\ events' \subseteq 1 .. Len(blocks) /\ nonce' \in Nat
        /\ meta' \in IndexMetas /\ indexLock' \in Syncs \cup {NoSync}
    BY <2>2 DEF IndexHeld, IndexTypes
  <2>. QED
    BY <2>1, <2>2, <2>3, <2>4, <2>5, IndexWrites
<1>3. ASSUME NEW s \in Syncs, Indexes!ReadMeta(s)
      PROVE  IndexHeld'
  <2>1. PICK old \in IndexRuns : old = syncs[s] /\ (~ outlived => WorkHeld(s, old))
    BY DEF IndexHeld, IndexTypes, NonceHeld
  <2>2. PICK new : new = [old EXCEPT !.meta = meta, !.at = "heading"]
    OBVIOUS
  <2>3. meta \in IndexMetas /\ MetaHeld(meta)
    BY DEF IndexHeld, IndexTypes, EventsHeld
  <2>4. new \in IndexRuns /\ new.at = "heading" /\ new.meta = meta
    BY <2>2, <2>3 DEF IndexRuns, IndexPlaces
  <2>5. /\ old.at = "reading" /\ syncs' = [syncs EXCEPT ![s] = new]
        /\ UNCHANGED <<blocks, meta, events, nonce, indexLock, outlived>>
    BY <1>3, <2>1, <2>2 DEF Indexes!ReadMeta, Indexes!At
  <2>6. RangeHeld(new) /\ Works(old) /\ (~ outlived => WorkHeld(s, new))
    BY <2>1, <2>3, <2>4, <2>5 DEF RangeHeld, InRange, Works, WorkHeld, Raised
  <2>. QED
    BY <2>1, <2>4, <2>5, <2>6, IndexMoves
<1>4. ASSUME NEW s \in Syncs, Indexes!ReadHead(s)
      PROVE  IndexHeld'
  <2>1. PICK old \in IndexRuns : /\ old = syncs[s] /\ RangeHeld(old)
                                 /\ ~ outlived => WorkHeld(s, old)
    BY DEF IndexHeld, IndexTypes, EventsHeld, NonceHeld
  <2>2. PICK m \in IndexMetas : m = old.meta /\ MetaHeld(m)
    BY <2>1 DEF IndexRuns, RangeHeld
  <2>3. PICK size \in Nat, known \in Nat, confirmedTo \in Nat :
           /\ size = Len(blocks) /\ known = m.head /\ confirmedTo = Indexes!Confirmed
           /\ known <= size /\ confirmedTo <= size
    <3>1. Len(blocks) \in Nat /\ (blocks # <<>> => Len(blocks) > 0)
      BY EmptySeq DEF IndexHeld, IndexTypes
    <3>2. Indexes!Confirmed \in Nat /\ Indexes!Confirmed <= Len(blocks)
      BY <3>1 DEF Indexes!Confirmed
    <3>. QED
      BY <2>2, <3>1, <3>2 DEF IndexMetas, MetaHeld
  <2>4. PICK head \in Nat : head = Indexes!Max({known, confirmedTo}) /\ known <= head /\ head <= size
    <3>1. PICK head \in Nat : head = (IF known <= confirmedTo THEN confirmedTo ELSE known)
                              /\ known <= head /\ head <= size
      BY <2>3
    <3>2. Indexes!Max({known, confirmedTo}) = IF known <= confirmedTo THEN confirmedTo ELSE known
      BY IndexMinAndMax
    <3>. QED
      BY <3>1, <3>2
  <2>5. PICK next : next = [m EXCEPT !.head = head]
    OBVIOUS
  <2>6. /\ next \in IndexMetas /\ next.cursor = m.cursor /\ next.head = head
        /\ next.truncated = m.truncated
    BY <2>5 DEF IndexMetas
  <2>7. PICK new : new = [old EXCEPT !.meta = next, !.at = "chunk"]
    OBVIOUS
  <2>8. new \in IndexRuns /\ new.at = "chunk" /\ new.meta = next
    BY <2>6, <2>7 DEF IndexRuns, IndexPlaces
  <2>9. /\ old.at = "heading" /\ syncs' = [syncs EXCEPT ![s] = new]
        /\ UNCHANGED <<blocks, meta, events, nonce, indexLock, outlived>>
    BY <1>4, <2>1, <2>2, <2>3, <2>4, <2>5, <2>7 DEF Indexes!ReadHead, Indexes!At
  <2>10. MetaHeld(next)
    <3>1. m.cursor \in Nat /\ m.cursor <= known /\ Backed(m.cursor, m.truncated)
      BY <2>2, <2>3 DEF MetaHeld, IndexMetas
    <3>2. m.cursor <= head
      BY <2>4, <3>1
    <3>. QED
      BY <2>3, <2>4, <2>6, <3>1, <3>2 DEF MetaHeld
  <2>11. RangeHeld(new) /\ Works(old) /\ (~ outlived => WorkHeld(s, new))
    BY <2>1, <2>2, <2>6, <2>8, <2>9, <2>10 DEF RangeHeld, InRange, Works, WorkHeld, Raised
  <2>. QED
    BY <2>1, <2>8, <2>9, <2>11, IndexMoves
<1>5. ASSUME NEW s \in Syncs, Indexes!CountEvents(s)
      PROVE  IndexHeld'
  <2>1. PICK old \in IndexRuns : /\ old = syncs[s] /\ RangeHeld(old)
                                 /\ ~ outlived => WorkHeld(s, old)
    BY DEF IndexHeld, IndexTypes, EventsHeld, NonceHeld
  <2>2. PICK size \in Nat : size = Len(blocks)
    BY LenProperties DEF IndexHeld, IndexTypes
  <2>3. Cardinality(events) \in Nat
    <3>1. IsFiniteSet(1 .. size) /\ events \in SUBSET (1 .. size)
      BY <2>2, FS_Interval DEF IndexHeld, IndexTypes
    <3>. QED
      BY <3>1, FS_Subset, FS_CardinalityType
  <2>4. PICK have \in Nat : have = Cardinality(events)
    BY <2>3
  <2>5. have = Indexes!Cardinality(events)
    <3>1. \A S : Indexes!Cardinality(S) = Cardinality(S)
      BY Zenon DEF Indexes!Cardinality, Cardinality
    <3>. QED
      BY <2>4, <3>1
  <2>6. PICK new : new = [old EXCEPT !.have = have, !.at = "storing"]
    OBVIOUS
  <2>7. new \in IndexRuns /\ new.at = "storing" /\ new.meta = old.meta /\ new.to = old.to
    BY <2>6 DEF IndexRuns, IndexPlaces
  <2>8. /\ old.at = "counting" /\ syncs' = [syncs EXCEPT ![s] = new]
        /\ UNCHANGED <<blocks, meta, events, nonce, indexLock, outlived>>
    BY <1>5, <2>1, <2>5, <2>6 DEF Indexes!CountEvents, Indexes!At
  <2>9. RangeHeld(new) /\ Works(old) /\ (~ outlived => WorkHeld(s, new))
    BY <2>1, <2>7, <2>8 DEF RangeHeld, InRange, Works, WorkHeld, Raised
  <2>. QED
    BY <2>1, <2>7, <2>8, <2>9, IndexMoves
<1>6. ASSUME NEW s \in Syncs, Indexes!Release(s)
      PROVE  IndexHeld'
  <2>1. PICK new : new = Indexes!NoRun
    OBVIOUS
  <2>2. new \in IndexRuns /\ ~ Works(new) /\ RangeHeld(new)
    BY <2>1, NoRunHeld
  <2>3. /\ Works(syncs[s]) /\ syncs' = [syncs EXCEPT ![s] = new]
        /\ indexLock' \in Syncs \cup {NoSync}
        /\ UNCHANGED <<blocks, meta, events, nonce, outlived>>
    BY <1>6, <2>1 DEF Indexes!Release, Works, IndexHeld, IndexTypes
  <2>4. MetaHeld(meta)' /\ RangeHeld(new)'
    BY <2>2, <2>3 DEF RangeHeld, MetaHeld, Backed, IndexHeld, EventsHeld
  <2>5. ~ outlived => Reached(meta.cursor)' /\ WorkHeld(s, new)'
    BY <2>2, <2>3 DEF IndexHeld, NonceHeld, WorkHeld, Works, Reached, Indexes!RegisteredTo
  <2>6. /\ events \subseteq events' /\ events' \subseteq 1 .. Len(blocks) /\ nonce' \in Nat
        /\ meta' \in IndexMetas
    BY <2>3 DEF IndexHeld, IndexTypes
  <2>. QED
    BY <2>2, <2>3, <2>4, <2>5, <2>6, IndexWrites
<1>7. ASSUME NEW s \in Syncs, Indexes!Die(s)
      PROVE  IndexHeld'
  <2>1. PICK new : new = Indexes!NoRun
    OBVIOUS
  <2>2. new \in IndexRuns /\ ~ Works(new) /\ RangeHeld(new)
    BY <2>1, NoRunHeld
  <2>3. /\ syncs' = [syncs EXCEPT ![s] = new]
        /\ UNCHANGED <<blocks, meta, events, nonce, indexLock, outlived>>
    BY <1>7, <2>1 DEF Indexes!Die
  <2>. QED
    BY <2>2, <2>3, IndexMoves
<1>8. ASSUME Indexes!LockExpires
      PROVE  IndexHeld'
  <2>1. /\ indexLock # NoSync /\ indexLock' = NoSync
        /\ outlived' = (outlived \/ ~ Indexes!At(indexLock, "idle"))
        /\ UNCHANGED <<blocks, meta, events, nonce, syncs>>
    BY <1>8 DEF Indexes!LockExpires
  <2>2. IndexTypes' /\ EventsHeld'
    BY <2>1 DEF IndexHeld, IndexTypes, EventsHeld, MetaHeld, RangeHeld, Backed
  <2>3. NonceHeld'
    <3>1. ~ outlived' => ~ outlived /\ syncs[indexLock].at = "idle"
      BY <2>1, Zenon DEF Indexes!At
    <3>2. \A n : Reached(n)' <=> Reached(n)
      BY <2>1 DEF Reached, Indexes!RegisteredTo
    <3>3. ASSUME ~ outlived', NEW s \in Syncs
          PROVE  ~ Works(syncs[s])
      BY <3>1, <3>3 DEF IndexHeld, NonceHeld, WorkHeld, Works
    <3>. QED
      BY <2>1, <3>1, <3>2, <3>3 DEF IndexHeld, NonceHeld, WorkHeld, Works
  <2>. QED
    BY <2>2, <2>3 DEF IndexHeld
<1>. QED
  BY <1>1, <1>2, <1>3, <1>4, <1>5, <1>6, <1>7, <1>8, ChainGrows, LogsAreRead, NoncesAreRead,
     NonceIsPut, EventsArePut, MetaIsPut DEF Indexes!Next

\* Whichever runs die, overlap or outlive their lock, no event below the cursor
\* is missing unless the index says so; and as long as no run outlived its lock,
\* the nonce is the pair's at the cursor or at a block read after it.
THEOREM IndexCorrect == ServicesSpec => []IndexIsComplete
<1>1. ServicesInit => (part = "index" => IndexHeld)
  BY IndexInit DEF ServicesInit
<1>2. (part = "index" => IndexHeld) /\ [ServicesNext]_<<part, servicesVars>>
         => (part = "index" => IndexHeld)'
  <2>1. ASSUME part = "index" => IndexHeld, UNCHANGED part, UNCHANGED indexesVars
        PROVE  (part = "index" => IndexHeld)'
    BY <2>1 DEF indexesVars, IndexHeld, IndexTypes, EventsHeld, MetaHeld, RangeHeld, Backed, NonceHeld,
                WorkHeld, Works, Reached, Indexes!RegisteredTo
  <2>2. ASSUME part = "index" => IndexHeld, UNCHANGED <<part, servicesVars>>
        PROVE  (part = "index" => IndexHeld)'
    BY <2>1, <2>2 DEF servicesVars
  <2>3. ASSUME part = "index" => IndexHeld, ServicesNext
        PROVE  (part = "index" => IndexHeld)'
    BY <2>3, IndexStep DEF ServicesNext
  <2>. QED
    BY <2>2, <2>3
<1>3. IndexHeld => Indexes!IndexIsComplete
  BY DEF IndexHeld, EventsHeld, MetaHeld, Backed, NonceHeld, Reached, Indexes!IndexIsComplete
<1>. QED
  BY <1>1, <1>2, <1>3, PTL DEF ServicesSpec, IndexIsComplete

-----------------------------------------------------------------------------
(* The search for loops.                                                   *)

\* Sizes are the same in the module of the search.
LEMMA SearchCounts ==
    /\ \A S : Loops!Cardinality(S) = Cardinality(S)
    /\ \A S : Loops!IsFiniteSet(S) <=> IsFiniteSet(S)
<1>1. \A S : Loops!Cardinality(S) = Cardinality(S)
  BY Zenon DEF Loops!Cardinality, Cardinality
<1>2. \A S : Loops!IsFiniteSet(S) <=> IsFiniteSet(S)
  BY Zenon DEF Loops!IsFiniteSet, IsFiniteSet
<1>. QED
  BY <1>1, <1>2

\* A function that is iterated has its iterates: the form in which a recursion
\* over the numbers is used below.
Iterates(F, a, f) == f = [n \in Nat |-> IF n = 0 THEN a ELSE F[f[n - 1]]]

LEMMA IteratesExist ==
    ASSUME NEW S, NEW a \in S, NEW F \in [S -> S]
    PROVE  \E f \in [Nat -> S] : Iterates(F, a, f)
<1>. DEFINE Upto(N, f) == f \in [0 .. N -> S] /\ f[0] = a /\ \A n \in 1 .. N : f[n] = F[f[n - 1]]
            Bad == {N \in Nat : ~ \E f : Upto(N, f)}
<1>1. ASSUME NEW m \in Bad
      PROVE  \E x \in Bad : x < m
  <2>1. CASE m = 0
    <3>. DEFINE f == [n \in 0 .. 0 |-> a]
    <3>1. Upto(0, f)
      OBVIOUS
    <3>. QED
      BY <2>1, <3>1
  <2>2. ASSUME m # 0, m - 1 \notin Bad
        PROVE  FALSE
    <3>1. m \in Nat /\ m - 1 \in Nat
      BY <2>2
    <3>2. PICK f : Upto(m - 1, f)
      BY <2>2, <3>1
    <3>. DEFINE g == [n \in 0 .. m |-> IF n = m THEN F[f[m - 1]] ELSE f[n]]
    <3>3. g \in [0 .. m -> S] /\ g[0] = a
      BY <2>2, <3>1, <3>2
    <3>4. ASSUME NEW n \in 1 .. m
          PROVE  g[n] = F[g[n - 1]]
      <4>1. n - 1 \in 0 .. m /\ n \in 0 .. m /\ n - 1 # m
        BY <3>1
      <4>2. CASE n = m
        BY <4>1, <4>2
      <4>3. CASE n # m
        BY <3>1, <3>2, <4>1, <4>3
      <4>. QED
        BY <4>2, <4>3
    <3>5. Upto(m, g)
      BY <3>3, <3>4
    <3>. QED
      BY <3>5
  <2>. QED
    BY <2>1, <2>2
<1>2. ASSUME NEW N \in Nat
      PROVE  \E f : Upto(N, f)
  <2>. HIDE DEF Upto
  <2>1. Bad \in SUBSET Nat
    OBVIOUS
  <2>2. Bad = {}
    BY <1>1, <2>1, NoSmallest
  <2>. QED
    BY <2>2
<1>3. ASSUME NEW N \in Nat, NEW M \in Nat, NEW f, NEW g, Upto(N, f), Upto(M, g)
      PROVE  \A n \in Nat : n <= N /\ n <= M => f[n] = g[n]
  <2>. DEFINE Differ == {n \in Nat : n <= N /\ n <= M /\ f[n] # g[n]}
  <2>1. ASSUME NEW m \in Differ
        PROVE  \E x \in Differ : x < m
    <3>1. m # 0
      BY <1>3
    <3>2. m \in 1 .. N /\ m \in 1 .. M /\ m - 1 \in Nat
      BY <1>3, <3>1
    <3>3. f[m] = F[f[m - 1]] /\ g[m] = F[g[m - 1]]
      BY <1>3, <3>2
    <3>4. m - 1 \in Differ /\ m - 1 < m
      BY <3>2, <3>3
    <3>. QED
      BY <3>4
  <2>2. Differ \in SUBSET Nat
    OBVIOUS
  <2>3. Differ = {}
    <3>. HIDE DEF Differ
    <3>. QED
      BY <2>1, <2>2, NoSmallest
  <2>. QED
    BY <2>3
<1>. DEFINE p == [N \in Nat |-> CHOOSE f : Upto(N, f)]
            f == [n \in Nat |-> p[n][n]]
<1>4. \A N \in Nat : Upto(N, p[N])
  <2>. HIDE DEF Upto
  <2>. QED
    BY <1>2
<1>5. f \in [Nat -> S] /\ f[0] = a
  <2>1. \A n \in Nat : p[n][n] \in S
    <3>. HIDE DEF p
    <3>. QED
      BY <1>4
  <2>2. p[0][0] = a
    <3>. HIDE DEF p
    <3>. QED
      BY <1>4
  <2>. HIDE DEF p
  <2>. QED
    BY <2>1, <2>2
<1>6. ASSUME NEW n \in Nat, n # 0
      PROVE  f[n] = F[f[n - 1]]
  <2>1. n - 1 \in Nat /\ n \in 1 .. n
    BY <1>6
  <2>. HIDE DEF p
  <2>2. p[n][n] = F[p[n][n - 1]]
    BY <1>4, <2>1
  <2>3. p[n][n - 1] = p[n - 1][n - 1]
    <3>1. Upto(n, p[n]) /\ Upto(n - 1, p[n - 1])
      BY <1>4, <2>1
    <3>. HIDE DEF Upto
    <3>2. \A k \in Nat : k <= n /\ k <= n - 1 => p[n][k] = p[n - 1][k]
      BY <1>3, <2>1, <3>1
    <3>. QED
      BY <2>1, <3>2
  <2>. QED
    BY <2>1, <2>2, <2>3
<1>7. Iterates(F, a, f)
  <2>. HIDE DEF f
  <2>. QED
    BY <1>5, <1>6 DEF Iterates
<1>. QED
  BY <1>5, <1>7

\* The parties within n steps, step by step.
LEMMA BallUnfolds ==
    ASSUME NEW steps, NEW start
    PROVE  Loops!Ball(steps, start) =
             [n \in Nat |-> IF n = 0 THEN {start}
                            ELSE Loops!Wider(steps, Loops!Ball(steps, start)[n - 1])]
<1>. DEFINE S == SUBSET ({start} \cup {s[2] : s \in steps})
            F == [near \in S |-> Loops!Wider(steps, near)]
            Near(f) == f = [n \in Nat |-> IF n = 0 THEN {start} ELSE Loops!Wider(steps, f[n - 1])]
<1>1. {start} \in S /\ F \in [S -> S]
  BY DEF Loops!Wider
<1>2. PICK f \in [Nat -> S] : Iterates(F, {start}, f)
  <2>. HIDE DEF S, F
  <2>. QED
    BY <1>1, IteratesExist
<1>3. Near(f)
  <2>1. \A n \in Nat : n # 0 => n - 1 \in Nat
    OBVIOUS
  <2>2. \A n \in Nat : n # 0 => F[f[n - 1]] = Loops!Wider(steps, f[n - 1])
    <3>. HIDE DEF S
    <3>. QED
      BY <1>2, <2>1
  <2>3. f = [n \in Nat |-> IF n = 0 THEN {start} ELSE F[f[n - 1]]]
    BY <1>2 DEF Iterates
  <2>. HIDE DEF F
  <2>. QED
    BY <2>2, <2>3
<1>4. Loops!Ball(steps, start) = CHOOSE g : Near(g)
  BY DEF Loops!Ball
<1>5. Near(CHOOSE g : Near(g))
  <2>. HIDE DEF Near
  <2>. QED
    BY <1>3
<1>. QED
  BY <1>4, <1>5

LEMMA BallFacts ==
    ASSUME NEW steps, NEW start
    PROVE  /\ Loops!Ball(steps, start)[0] = {start}
           /\ \A n \in Nat : Loops!Ball(steps, start)[n + 1] = Loops!Wider(steps, Loops!Ball(steps, start)[n])
           /\ \A m, n \in Nat : m <= n => Loops!Ball(steps, start)[m] \subseteq Loops!Ball(steps, start)[n]
<1>. DEFINE B == Loops!Ball(steps, start)
<1>1. B = [n \in Nat |-> IF n = 0 THEN {start} ELSE Loops!Wider(steps, B[n - 1])]
  BY BallUnfolds
<1>. HIDE DEF B
<1>2. B[0] = {start}
  BY <1>1
<1>3. \A n \in Nat : B[n + 1] = Loops!Wider(steps, B[n])
  <2>1. ASSUME NEW n \in Nat PROVE n + 1 \in Nat /\ n + 1 # 0 /\ (n + 1) - 1 = n
    OBVIOUS
  <2>. QED
    BY <1>1, <2>1
<1>4. ASSUME NEW m \in Nat
      PROVE  \A n \in Nat : m <= n => B[m] \subseteq B[n]
  <2>. DEFINE Bad == {n \in Nat : m <= n /\ ~ (B[m] \subseteq B[n])}
  <2>1. ASSUME NEW n \in Bad
        PROVE  \E x \in Bad : x < n
    <3>1. n # m /\ n \in Nat /\ m <= n
      OBVIOUS
    <3>2. n - 1 \in Nat /\ m <= n - 1 /\ n - 1 < n /\ (n - 1) + 1 = n
      BY <3>1
    <3>3. B[n - 1] \subseteq B[n]
      BY <1>3, <3>2 DEF Loops!Wider
    <3>4. ~ (B[m] \subseteq B[n])
      OBVIOUS
    <3>5. ~ (B[m] \subseteq B[n - 1])
      BY <3>3, <3>4
    <3>6. n - 1 \in Bad
      BY <3>2, <3>5
    <3>. QED
      BY <3>2, <3>6
  <2>2. Bad \in SUBSET Nat
    OBVIOUS
  <2>3. Bad = {}
    <3>. HIDE DEF Bad
    <3>. QED
      BY <2>1, <2>2, NoSmallest
  <2>. QED
    BY <2>3
<1>. QED
  BY <1>2, <1>3, <1>4 DEF B

\* More steps reach more.
LEMMA BallGrows ==
    ASSUME NEW steps, NEW more, steps \subseteq more, NEW start, NEW n \in Nat
    PROVE  Loops!Ball(steps, start)[n] \subseteq Loops!Ball(more, start)[n]
<1>. DEFINE B == Loops!Ball(steps, start)
            C == Loops!Ball(more, start)
            Bad == {m \in Nat : ~ (B[m] \subseteq C[m])}
<1>1. /\ B[0] = {start} /\ C[0] = {start}
      /\ \A m \in Nat : B[m + 1] = Loops!Wider(steps, B[m]) /\ C[m + 1] = Loops!Wider(more, C[m])
  BY BallFacts
<1>. HIDE DEF B, C
<1>2. ASSUME NEW m \in Bad
      PROVE  \E x \in Bad : x < m
  <2>1. m \in Nat /\ m # 0 /\ ~ (B[m] \subseteq C[m])
    BY <1>1
  <2>2. m - 1 \in Nat /\ m - 1 < m /\ (m - 1) + 1 = m
    BY <2>1
  <2>3. B[m] = Loops!Wider(steps, B[m - 1]) /\ C[m] = Loops!Wider(more, C[m - 1])
    BY <1>1, <2>2
  <2>4. ~ (B[m - 1] \subseteq C[m - 1])
    BY <2>1, <2>3 DEF Loops!Wider
  <2>. QED
    BY <2>2, <2>4
<1>3. Bad \in SUBSET Nat
  OBVIOUS
<1>4. Bad = {}
  <2>. HIDE DEF Bad
  <2>. QED
    BY <1>2, <1>3, NoSmallest
<1>. QED
  BY <1>4 DEF B, C

\* A chain of n edges: each is owed by the party the one before is owed to.
Chained(l, n) == \A i \in 1 .. (n - 1) : l[i].creditor = l[i + 1].debtor

\* A simple loop is a chain that closes, of parties that differ.
LEMMA LoopsAreChains ==
    ASSUME NEW E, NEW n \in Nat \ {0}, NEW l \in [1 .. n -> E]
    PROVE  /\ Len(l) = n /\ DOMAIN l = 1 .. n
           /\ Loops!SimpleLoop(l) <=>
                /\ Chained(l, n) /\ l[n].creditor = l[1].debtor
                /\ \A i, j \in 1 .. n : l[i].debtor = l[j].debtor => i = j
<1>1. Len(l) = n /\ DOMAIN l = 1 .. n
  OBVIOUS
<1>2. Loops!PathClosed(l) <=> Chained(l, n) /\ l[n].creditor = l[1].debtor
  <2>1. Loops!PathClosed(l) <=> \A i \in 1 .. n : l[i].creditor = l[IF i = n THEN 1 ELSE i + 1].debtor
    BY <1>1 DEF Loops!PathClosed, Loops!NextIndex
  <2>2. ASSUME Loops!PathClosed(l)
        PROVE  Chained(l, n) /\ l[n].creditor = l[1].debtor
    <3>1. ASSUME NEW i \in 1 .. (n - 1)
          PROVE  l[i].creditor = l[i + 1].debtor
      <4>1. i \in 1 .. n /\ i # n
        OBVIOUS
      <4>. QED
        BY <2>1, <2>2, <4>1
    <3>2. n \in 1 .. n
      OBVIOUS
    <3>. QED
      BY <2>1, <2>2, <3>1, <3>2 DEF Chained
  <2>3. ASSUME Chained(l, n), l[n].creditor = l[1].debtor, NEW i \in 1 .. n
        PROVE  l[i].creditor = l[IF i = n THEN 1 ELSE i + 1].debtor
    <3>1. i # n => i \in 1 .. (n - 1)
      OBVIOUS
    <3>. QED
      BY <2>3, <3>1 DEF Chained
  <2>. QED
    BY <2>1, <2>2, <2>3
<1>3. Loops!DebtorsDistinct(l) <=> \A i, j \in 1 .. n : l[i].debtor = l[j].debtor => i = j
  BY <1>1 DEF Loops!DebtorsDistinct
<1>. QED
  BY <1>1, <1>2, <1>3 DEF Loops!SimpleLoop

\* Along a chain one comes from each party to those after it, and back.
LEMMA ChainsReach ==
    ASSUME NEW E, NEW n \in Nat \ {0}, NEW l \in [1 .. n -> E], Chained(l, n)
    PROVE  /\ \A i \in 1 .. n : \A k \in Nat : i + k <= n =>
                l[i + k].creditor \in Loops!Ball(Loops!Forward(E), l[i].debtor)[k + 1]
           /\ \A k \in Nat : k < n =>
                l[n - k].debtor \in Loops!Ball(Loops!Backward(E), l[n].creditor)[k + 1]
<1>1. ASSUME NEW i \in 1 .. n
      PROVE  \A k \in Nat : i + k <= n => l[i + k].creditor \in Loops!Ball(Loops!Forward(E), l[i].debtor)[k + 1]
  <2>. DEFINE B == Loops!Ball(Loops!Forward(E), l[i].debtor)
              Bad == {k \in Nat : i + k <= n /\ l[i + k].creditor \notin B[k + 1]}
  <2>1. B[0] = {l[i].debtor} /\ \A k \in Nat : B[k + 1] = Loops!Wider(Loops!Forward(E), B[k])
    BY BallFacts
  <2>. HIDE DEF B
  <2>2. ASSUME NEW k \in Nat, i + k <= n, l[i + k].debtor \in B[k]
        PROVE  l[i + k].creditor \in B[k + 1]
    <3>1. i + k \in 1 .. n
      BY <2>2
    <3>2. <<l[i + k].debtor, l[i + k].creditor>> \in Loops!Forward(E)
      BY <3>1 DEF Loops!Forward
    <3>. QED
      BY <2>1, <2>2, <3>2 DEF Loops!Wider
  <2>3. ASSUME NEW k \in Bad
        PROVE  \E x \in Bad : x < k
    <3>1. k \in Nat /\ i + k <= n /\ l[i + k].creditor \notin B[k + 1]
      OBVIOUS
    <3>2. k # 0
      <4>1. SUFFICES ASSUME k = 0
                     PROVE  FALSE
        OBVIOUS
      <4>2. i + k = i
        BY <4>1
      <4>3. l[i + k].debtor \in B[k]
        BY <2>1, <4>1, <4>2
      <4>. QED
        BY <2>2, <3>1, <4>3
    <3>3. k - 1 \in Nat /\ i + (k - 1) \in 1 .. (n - 1) /\ (i + (k - 1)) + 1 = i + k /\ (k - 1) + 1 = k
      BY <3>1, <3>2
    <3>4. l[i + (k - 1)].creditor = l[i + k].debtor
      BY <3>3 DEF Chained
    <3>5. l[i + k].debtor \notin B[k]
      BY <2>2, <3>1
    <3>6. k - 1 \in Bad
      BY <3>1, <3>3, <3>4, <3>5
    <3>7. k - 1 < k
      BY <3>1
    <3>. HIDE DEF Bad
    <3>. QED
      BY <3>6, <3>7
  <2>4. Bad \in SUBSET Nat
    OBVIOUS
  <2>5. Bad = {}
    <3>. HIDE DEF Bad
    <3>. QED
      BY <2>3, <2>4, NoSmallest
  <2>. QED
    BY <2>5 DEF B
<1>2. \A k \in Nat : k < n => l[n - k].debtor \in Loops!Ball(Loops!Backward(E), l[n].creditor)[k + 1]
  <2>. DEFINE B == Loops!Ball(Loops!Backward(E), l[n].creditor)
              Bad == {k \in Nat : k < n /\ l[n - k].debtor \notin B[k + 1]}
  <2>1. B[0] = {l[n].creditor} /\ \A k \in Nat : B[k + 1] = Loops!Wider(Loops!Backward(E), B[k])
    BY BallFacts
  <2>. HIDE DEF B
  <2>2. ASSUME NEW k \in Nat, k < n, l[n - k].creditor \in B[k]
        PROVE  l[n - k].debtor \in B[k + 1]
    <3>1. n - k \in 1 .. n
      BY <2>2
    <3>2. <<l[n - k].creditor, l[n - k].debtor>> \in Loops!Backward(E)
      BY <3>1 DEF Loops!Backward
    <3>3. B[k + 1] = Loops!Wider(Loops!Backward(E), B[k])
      BY <2>1
    <3>. QED
      BY <2>2, <3>2, <3>3 DEF Loops!Wider
  <2>3. ASSUME NEW k \in Bad
        PROVE  \E x \in Bad : x < k
    <3>1. k \in Nat /\ k < n /\ l[n - k].debtor \notin B[k + 1]
      OBVIOUS
    <3>2. k # 0
      <4>1. SUFFICES ASSUME k = 0
                     PROVE  FALSE
        OBVIOUS
      <4>2. l[n - k].creditor \in B[k]
        BY <2>1, <4>1
      <4>. QED
        BY <2>2, <3>1, <4>2
    <3>3. k - 1 \in Nat /\ n - k \in 1 .. (n - 1) /\ (n - k) + 1 = n - (k - 1) /\ (k - 1) + 1 = k
      BY <3>1, <3>2
    <3>4. l[n - k].creditor = l[n - (k - 1)].debtor
      BY <3>3 DEF Chained
    <3>5. l[n - k].creditor \notin B[k]
      BY <2>2, <3>1
    <3>6. k - 1 \in Bad
      BY <3>1, <3>3, <3>4, <3>5
    <3>7. k - 1 < k
      BY <3>1
    <3>. HIDE DEF Bad
    <3>. QED
      BY <3>6, <3>7
  <2>4. Bad \in SUBSET Nat
    OBVIOUS
  <2>5. Bad = {}
    <3>. HIDE DEF Bad
    <3>. QED
      BY <2>3, <2>4, NoSmallest
  <2>. QED
    BY <2>5 DEF B
<1>. QED
  BY <1>1, <1>2

\* Where the edges of a loop are, seen from the party it begins and ends with.
LEMMA LoopsAreNear ==
    ASSUME NEW E, NEW n \in Nat \ {0}, NEW l \in [1 .. n -> E], Loops!SimpleLoop(l),
           NEW i \in 1 .. n
    PROVE  /\ l[i].debtor \in Loops!Ball(Loops!Forward(E), l[1].debtor)[i - 1]
           /\ l[i].creditor \in Loops!Ball(Loops!Backward(E), l[1].debtor)[n - i]
           /\ l[1].debtor \in Loops!Ball(Loops!Forward(E), l[i].creditor)[n - i]
<1>1. Chained(l, n) /\ l[n].creditor = l[1].debtor
  BY LoopsAreChains
<1>2. l[i].debtor \in Loops!Ball(Loops!Forward(E), l[1].debtor)[i - 1]
  <2>1. CASE i = 1
    BY <2>1, BallFacts
  <2>2. CASE i # 1
    <3>1. i - 1 \in 1 .. (n - 1) /\ (i - 1) + 1 = i /\ 1 + (i - 2) = i - 1
          /\ i - 2 \in Nat /\ (i - 2) + 1 = i - 1 /\ 1 \in 1 .. n /\ 1 + (i - 2) <= n
      BY <2>2
    <3>2. l[1 + (i - 2)].creditor \in Loops!Ball(Loops!Forward(E), l[1].debtor)[(i - 2) + 1]
      BY <1>1, <3>1, ChainsReach
    <3>3. l[i - 1].creditor = l[i].debtor
      BY <1>1, <3>1 DEF Chained
    <3>. QED
      BY <3>1, <3>2, <3>3
  <2>. QED
    BY <2>1, <2>2
<1>3. CASE i = n
  BY <1>1, <1>2, <1>3, BallFacts
<1>4. CASE i # n
  <2>1. i \in 1 .. (n - 1) /\ i + 1 \in 1 .. n /\ n - i \in Nat /\ n - i - 1 \in Nat /\ (n - i - 1) + 1 = n - i
        /\ n - (n - i - 1) = i + 1 /\ n - i - 1 < n /\ (i + 1) + (n - i - 1) = n
    BY <1>4
  <2>2. l[i].creditor = l[i + 1].debtor
    BY <1>1, <2>1 DEF Chained
  <2>3. l[n - (n - i - 1)].debtor \in Loops!Ball(Loops!Backward(E), l[n].creditor)[(n - i - 1) + 1]
    <3>1. \A k \in Nat : k < n => l[n - k].debtor \in Loops!Ball(Loops!Backward(E), l[n].creditor)[k + 1]
      BY <1>1, ChainsReach
    <3>. QED
      BY <2>1, <3>1
  <2>4. l[(i + 1) + (n - i - 1)].creditor \in Loops!Ball(Loops!Forward(E), l[i + 1].debtor)[(n - i - 1) + 1]
    <3>1. (i + 1) + (n - i - 1) <= n
      BY <2>1
    <3>. QED
      BY <1>1, <2>1, <3>1, ChainsReach
  <2>. QED
    BY <1>1, <1>2, <2>1, <2>2, <2>3, <2>4
<1>. QED
  BY <1>3, <1>4

\* The parties of finitely many edges are finitely many, and no fewer than the
\* edges of a simple loop.
LEMMA FiniteParties ==
    ASSUME NEW E, IsFiniteSet(E)
    PROVE  /\ IsFiniteSet(Loops!partiesOf(E)) /\ Cardinality(Loops!partiesOf(E)) \in Nat
           /\ \A F \in SUBSET E : /\ IsFiniteSet(F) /\ Loops!partiesOf(F) \subseteq Loops!partiesOf(E)
                                  /\ Cardinality(Loops!partiesOf(F)) <= Cardinality(Loops!partiesOf(E))
                                  /\ Cardinality(Loops!partiesOf(F)) \in Nat
           /\ \A n \in Nat \ {0} : \A l \in [1 .. n -> E] :
                Loops!SimpleLoop(l) => n <= Cardinality(Loops!partiesOf(E))
<1>. DEFINE D == {e.debtor : e \in E}
            C == {e.creditor : e \in E}
<1>1. IsFiniteSet(D)
  <2>. DEFINE f == [e \in E |-> e.debtor]
  <2>1. f \in Surjection(E, D)
    BY DEF Surjection
  <2>. QED
    BY <2>1, FS_Surjection
<1>2. IsFiniteSet(C)
  <2>. DEFINE f == [e \in E |-> e.creditor]
  <2>1. f \in Surjection(E, C)
    BY DEF Surjection
  <2>. QED
    BY <2>1, FS_Surjection
<1>3. Loops!partiesOf(E) = D \cup C
  BY DEF Loops!partiesOf
<1>. HIDE DEF D, C
<1>4. IsFiniteSet(Loops!partiesOf(E)) /\ Cardinality(Loops!partiesOf(E)) \in Nat
  BY <1>1, <1>2, <1>3, FS_Union, FS_CardinalityType
<1>5. ASSUME NEW F \in SUBSET E
      PROVE  /\ IsFiniteSet(F) /\ Loops!partiesOf(F) \subseteq Loops!partiesOf(E)
             /\ Cardinality(Loops!partiesOf(F)) <= Cardinality(Loops!partiesOf(E))
             /\ Cardinality(Loops!partiesOf(F)) \in Nat
  <2>1. Loops!partiesOf(F) \in SUBSET Loops!partiesOf(E)
    BY DEF Loops!partiesOf
  <2>. QED
    BY <1>4, <2>1, FS_Subset, FS_CardinalityType
<1>6. ASSUME NEW n \in Nat \ {0}, NEW l \in [1 .. n -> E], Loops!SimpleLoop(l)
      PROVE  n <= Cardinality(Loops!partiesOf(E))
  <2>. DEFINE f == [i \in 1 .. n |-> l[i].debtor]
  <2>1. f \in [1 .. n -> Loops!partiesOf(E)]
    BY DEF Loops!partiesOf
  <2>2. \A i, j \in 1 .. n : f[i] = f[j] => i = j
    <3>1. \A i, j \in 1 .. n : l[i].debtor = l[j].debtor => i = j
      BY <1>6, LoopsAreChains
    <3>. QED
      BY <3>1
  <2>3. f \in Injection(1 .. n, Loops!partiesOf(E))
    <3>. HIDE DEF f
    <3>. QED
      BY <2>1, <2>2 DEF Injection, IsInjective
  <2>4. Cardinality(1 .. n) <= Cardinality(Loops!partiesOf(E))
    <3>. HIDE DEF f
    <3>. QED
      BY <1>4, <2>3, FS_Injection
  <2>5. Cardinality(1 .. n) = n
    BY FS_Interval
  <2>. QED
    BY <2>4, <2>5
<1>. QED
  BY <1>4, <1>5, <1>6

\* The walks of the solver, an edge at a time.
LEMMA WalksUnfold ==
    ASSUME NEW E, NEW roots
    PROVE  /\ Loops!Walks(E, roots)[0] = {<<e>> : e \in Loops!startingEdges(E, roots)}
           /\ \A n \in Nat : Loops!Walks(E, roots)[n + 1] = Loops!Longer(E, Loops!Walks(E, roots)[n])
           /\ \A n \in Nat : Loops!Walks(E, roots)[n] \subseteq Seq(E)
<1>. DEFINE S == SUBSET Seq(E)
            F == [walks \in S |-> Loops!Longer(E, walks)]
            a == {<<e>> : e \in Loops!startingEdges(E, roots)}
            Grown(f) == f = [n \in Nat |-> IF n = 0 THEN a ELSE Loops!Longer(E, f[n - 1])]
<1>1. a \in S
  <2>1. \A e \in Loops!startingEdges(E, roots) : e \in E
    BY DEF Loops!startingEdges
  <2>2. \A e \in E : <<e>> \in Seq(E)
    OBVIOUS
  <2>. QED
    BY <2>1, <2>2
<1>2. ASSUME NEW walks \in S
      PROVE  Loops!Longer(E, walks) \in S
  BY DEF Loops!Longer
<1>3. F \in [S -> S]
  BY <1>2
<1>4. PICK f \in [Nat -> S] : Iterates(F, a, f)
  <2>. HIDE DEF S, F, a
  <2>. QED
    BY <1>1, <1>3, IteratesExist
<1>5. Grown(f)
  <2>1. \A n \in Nat : n # 0 => n - 1 \in Nat
    OBVIOUS
  <2>2. \A n \in Nat : n # 0 => F[f[n - 1]] = Loops!Longer(E, f[n - 1])
    <3>. HIDE DEF S
    <3>. QED
      BY <1>4, <2>1
  <2>3. f = [n \in Nat |-> IF n = 0 THEN a ELSE F[f[n - 1]]]
    BY <1>4 DEF Iterates
  <2>. HIDE DEF F, a
  <2>. QED
    BY <2>2, <2>3
<1>6. Loops!Walks(E, roots) = CHOOSE g : Grown(g)
  BY DEF Loops!Walks
<1>7. Grown(CHOOSE g : Grown(g))
  <2>. HIDE DEF Grown
  <2>. QED
    BY <1>5
<1>. DEFINE W == Loops!Walks(E, roots)
<1>8. W = [n \in Nat |-> IF n = 0 THEN a ELSE Loops!Longer(E, W[n - 1])]
  BY <1>6, <1>7
<1>. HIDE DEF W, a
<1>9. W[0] = a
  BY <1>8
<1>10. \A n \in Nat : W[n + 1] = Loops!Longer(E, W[n])
  <2>1. ASSUME NEW n \in Nat PROVE n + 1 \in Nat /\ n + 1 # 0 /\ (n + 1) - 1 = n
    OBVIOUS
  <2>. QED
    BY <1>8, <2>1
<1>11. \A n \in Nat : W[n] \subseteq Seq(E)
  <2>. DEFINE Bad == {n \in Nat : ~ (W[n] \in S)}
  <2>1. ASSUME NEW n \in Bad
        PROVE  \E x \in Bad : x < n
    <3>1. n \in Nat /\ n # 0 /\ W[n] \notin S
      BY <1>1, <1>9
    <3>2. n - 1 \in Nat /\ n - 1 < n /\ (n - 1) + 1 = n
      BY <3>1
    <3>3. W[n] = Loops!Longer(E, W[n - 1])
      BY <1>10, <3>2
    <3>4. W[n - 1] \notin S
      BY <1>2, <3>1, <3>3
    <3>. QED
      BY <3>2, <3>4
  <2>2. Bad \in SUBSET Nat
    OBVIOUS
  <2>3. Bad = {}
    <3>. HIDE DEF Bad
    <3>. QED
      BY <2>1, <2>2, NoSmallest
  <2>. QED
    BY <2>3
<1>. QED
  BY <1>9, <1>10, <1>11 DEF W, a

\* A walk of n edges is a chain whose parties differ, and whose end is new
\* unless it is closed.
Walked(E, roots, n, w) ==
    /\ w \in [1 .. n -> E] /\ Chained(w, n) /\ w[1].debtor \in roots
    /\ \A i, j \in 1 .. n : w[i].debtor = w[j].debtor => i = j
    /\ \A i \in 1 .. n : w[n].creditor = w[i].debtor => w[n].creditor = w[1].debtor

LEMMA WalksAreChains ==
    ASSUME NEW E, NEW roots, NEW k \in Nat, NEW w \in Loops!Walks(E, roots)[k]
    PROVE  Walked(E, roots, k + 1, w)
<1>. DEFINE W == Loops!Walks(E, roots)
            Bad == {n \in Nat : \E x \in W[n] : ~ Walked(E, roots, n + 1, x)}
<1>1. /\ W[0] = {<<e>> : e \in Loops!startingEdges(E, roots)}
      /\ \A n \in Nat : W[n + 1] = Loops!Longer(E, W[n])
      /\ \A n \in Nat : W[n] \subseteq Seq(E)
  BY WalksUnfold
<1>. HIDE DEF W
<1>2. ASSUME NEW x \in W[0]
      PROVE  Walked(E, roots, 1, x)
  <2>1. PICK e \in Loops!startingEdges(E, roots) : x = <<e>>
    BY <1>1
  <2>2. e \in E /\ e.debtor \in roots
    BY DEF Loops!startingEdges
  <2>3. x \in [1 .. 1 -> E] /\ x[1] = e
    BY <2>1, <2>2
  <2>. QED
    BY <2>2, <2>3 DEF Walked, Chained
<1>3. ASSUME NEW n \in Nat, NEW x \in W[n + 1], \A y \in W[n] : Walked(E, roots, n + 1, y)
      PROVE  Walked(E, roots, n + 2, x)
  <2>1. PICK y \in W[n], e \in E : x = Append(y, e) /\ ~ Loops!Closed(y) /\ Loops!MayFollow(E, y, e)
    BY <1>1, <1>3 DEF Loops!Longer
  <2>2. Walked(E, roots, n + 1, y)
    BY <1>3
  <2>3. y \in Seq(E) /\ Len(y) = n + 1 /\ y \in [1 .. n + 1 -> E]
    BY <1>1, <2>2 DEF Walked
  <2>4. /\ x \in [1 .. n + 2 -> E] /\ x[n + 2] = e
        /\ \A i \in 1 .. n + 1 : x[i] = y[i]
    <3>1. x \in Seq(E) /\ Len(x) = n + 2 /\ x[Len(y) + 1] = e /\ \A i \in 1 .. Len(y) : x[i] = y[i]
      BY <2>1, <2>3
    <3>. QED
      BY <2>3, <3>1
  <2>5. /\ e.debtor = y[n + 1].creditor
        /\ e.creditor = y[1].debtor \/ e.creditor \notin Loops!Visited(y)
        /\ y[n + 1].creditor # y[1].debtor
    BY <2>1, <2>3 DEF Loops!MayFollow, Loops!Closed, Loops!End
  <2>6. Chained(x, n + 2)
    <3>1. ASSUME NEW i \in 1 .. (n + 1)
          PROVE  x[i].creditor = x[i + 1].debtor
      <4>1. CASE i = n + 1
        BY <2>4, <2>5, <4>1
      <4>2. CASE i # n + 1
        <5>1. i \in 1 .. n /\ i + 1 \in 1 .. n + 1 /\ i \in 1 .. n + 1 /\ i \in 1 .. (n + 1) - 1
          BY <4>2
        <5>2. y[i].creditor = y[i + 1].debtor
          BY <2>2, <5>1 DEF Walked, Chained
        <5>. QED
          BY <2>4, <5>1, <5>2
      <4>. QED
        BY <4>1, <4>2
    <3>. QED
      BY <3>1 DEF Chained
  <2>7. \A i \in 1 .. n + 1 : e.debtor # y[i].debtor
    BY <2>2, <2>5 DEF Walked
  <2>8. \A i, j \in 1 .. n + 2 : x[i].debtor = x[j].debtor => i = j
    <3>1. \A i \in 1 .. n + 2 : i \in 1 .. n + 1 \/ i = n + 2
      OBVIOUS
    <3>2. \A i, j \in 1 .. n + 1 : y[i].debtor = y[j].debtor => i = j
      BY <2>2 DEF Walked
    <3>. QED
      BY <2>4, <2>7, <3>1, <3>2
  <2>9. \A i \in 1 .. n + 1 : y[i].debtor \in Loops!Visited(y)
    <3>1. ASSUME NEW i \in 1 .. n + 1, i # 1
          PROVE  y[i].debtor \in Loops!Visited(y)
      <4>1. i - 1 \in 1 .. (n + 1) - 1 /\ i - 1 \in 1 .. n + 1 /\ (i - 1) + 1 = i
        BY <3>1
      <4>2. y[i - 1].creditor = y[i].debtor
        BY <2>2, <4>1 DEF Walked, Chained
      <4>3. y[i - 1] \in Loops!Range(y)
        BY <2>3, <4>1 DEF Loops!Range
      <4>. QED
        BY <4>2, <4>3 DEF Loops!Visited
    <3>2. y[1].debtor \in Loops!Visited(y)
      BY DEF Loops!Visited
    <3>. QED
      BY <3>1, <3>2
  <2>10. y[n + 1].creditor \in Loops!Visited(y)
    <3>1. y[n + 1] \in Loops!Range(y)
      BY <2>3 DEF Loops!Range
    <3>. QED
      BY <3>1 DEF Loops!Visited
  <2>11. ASSUME NEW i \in 1 .. n + 2, e.creditor = x[i].debtor
         PROVE  e.creditor = x[1].debtor
    <3>1. x[1] = y[1]
      BY <2>4
    <3>2. x[i].debtor \in Loops!Visited(y)
      BY <2>4, <2>5, <2>9, <2>10
    <3>. QED
      BY <2>5, <2>11, <3>1, <3>2
  <2>12. x[1].debtor \in roots
    <3>1. x[1] = y[1] /\ y[1].debtor \in roots
      BY <2>2, <2>4 DEF Walked
    <3>. QED
      BY <3>1
  <2>. QED
    BY <2>4, <2>6, <2>8, <2>11, <2>12 DEF Walked
<1>4. ASSUME NEW n \in Bad
      PROVE  \E x \in Bad : x < n
  <2>1. PICK x \in W[n] : ~ Walked(E, roots, n + 1, x)
    OBVIOUS
  <2>2. n \in Nat /\ n # 0
    BY <1>2, <2>1
  <2>3. n - 1 \in Nat /\ n - 1 < n /\ (n - 1) + 1 = n /\ (n - 1) + 2 = n + 1
    BY <2>2
  <2>4. n - 1 \in Bad
    BY <1>3, <2>1, <2>3
  <2>. QED
    BY <2>3, <2>4
<1>5. Bad \in SUBSET Nat
  OBVIOUS
<1>6. Bad = {}
  <2>. HIDE DEF Bad
  <2>. QED
    BY <1>4, <1>5, NoSmallest
<1>. QED
  BY <1>6 DEF W

\* The solver walks along every simple loop.
LEMMA LoopsAreWalked ==
    ASSUME NEW E, IsFiniteSet(E), NEW roots, NEW n \in Nat \ {0}, NEW l \in [1 .. n -> E],
           Loops!SimpleLoop(l), l[1].debtor \in roots
    PROVE  l \in Loops!Walks(E, roots)[n - 1]
<1>. DEFINE W == Loops!Walks(E, roots)
            Prefix(k) == [i \in 1 .. k |-> l[i]]
            Bad == {k \in Nat : k < n /\ Prefix(k + 1) \notin W[k]}
<1>1. /\ W[0] = {<<e>> : e \in Loops!startingEdges(E, roots)}
      /\ \A k \in Nat : W[k + 1] = Loops!Longer(E, W[k])
  BY WalksUnfold
<1>. HIDE DEF W
<1>2. /\ Chained(l, n) /\ l[n].creditor = l[1].debtor
      /\ \A i, j \in 1 .. n : l[i].debtor = l[j].debtor => i = j
  BY LoopsAreChains
<1>3. ASSUME NEW i \in 1 .. n
      PROVE  l[i] \in E /\ Loops!InComponent(E, l[1].debtor, l[i])
  <2>1. n <= Cardinality(Loops!partiesOf(E)) /\ Cardinality(Loops!partiesOf(E)) \in Nat
    BY FiniteParties
  <2>2. l[1].debtor \in Loops!Ball(Loops!Forward(E), l[i].creditor)[n - i]
    BY LoopsAreNear
  <2>3. n - i \in Nat /\ n - i <= Cardinality(Loops!partiesOf(E))
    BY <2>1
  <2>4. l[1].debtor \in Loops!Ball(Loops!Forward(E), l[i].creditor)[Cardinality(Loops!partiesOf(E))]
    <3>1. \A a, b \in Nat : a <= b =>
            Loops!Ball(Loops!Forward(E), l[i].creditor)[a] \subseteq
              Loops!Ball(Loops!Forward(E), l[i].creditor)[b]
      BY BallFacts
    <3>. QED
      BY <2>1, <2>2, <2>3, <3>1
  <2>. QED
    BY <2>4, SearchCounts DEF Loops!InComponent, Loops!Reachable
<1>4. Prefix(1) \in W[0]
  <2>1. Prefix(1) = <<l[1]>>
    OBVIOUS
  <2>2. l[1] \in Loops!startingEdges(E, roots)
    BY <1>3 DEF Loops!startingEdges
  <2>. QED
    BY <1>1, <2>1, <2>2
<1>5. ASSUME NEW k \in Nat, k + 1 < n, Prefix(k + 1) \in W[k]
      PROVE  Prefix(k + 2) \in W[k + 1]
  <2>. DEFINE p == Prefix(k + 1)
              e == l[k + 2]
  <2>1. p \in Seq(E) /\ Len(p) = k + 1 /\ DOMAIN p = 1 .. k + 1 /\ \A i \in 1 .. k + 1 : p[i] = l[i]
    BY <1>5
  <2>2. e \in E /\ Loops!InComponent(E, l[1].debtor, e) /\ k + 2 \in 1 .. n
    BY <1>3, <1>5
  <2>3. Prefix(k + 2) = Append(p, e)
    BY <1>5, <2>1
  <2>. HIDE DEF p
  <2>4. e.debtor = p[k + 1].creditor
    <3>1. k + 1 \in 1 .. (n - 1) /\ (k + 1) + 1 = k + 2
      BY <1>5
    <3>. QED
      BY <1>2, <2>1, <3>1 DEF Chained
  <2>5. p[1] = l[1] /\ e.debtor # l[1].debtor
    BY <1>2, <2>1, <2>2
  <2>6. e.creditor = l[1].debtor \/ e.creditor \notin Loops!Visited(p)
    <3>1. CASE k + 2 = n
      BY <1>2, <3>1
    <3>2. CASE k + 2 # n
      <4>1. k + 2 \in 1 .. (n - 1) /\ (k + 2) + 1 = k + 3 /\ k + 3 \in 1 .. n
        BY <1>5, <3>2
      <4>2. e.creditor = l[k + 3].debtor
        BY <1>2, <4>1 DEF Chained
      <4>3. ASSUME NEW i \in 1 .. k + 1
            PROVE  e.creditor # p[i].creditor
        <5>1. i \in 1 .. (n - 1) /\ i + 1 \in 1 .. n /\ i + 1 # k + 3
          BY <1>5
        <5>2. l[i].creditor = l[i + 1].debtor
          BY <1>2, <5>1 DEF Chained
        <5>. QED
          BY <1>2, <2>1, <4>1, <4>2, <5>1, <5>2
      <4>4. e.creditor # l[1].debtor
        <5>1. 1 \in 1 .. n /\ 1 # k + 3
          BY <4>1
        <5>. QED
          BY <1>2, <4>1, <4>2, <5>1
      <4>5. \A x \in Loops!Range(p) : e.creditor # x.creditor
        BY <2>1, <4>3 DEF Loops!Range
      <4>. QED
        BY <2>5, <4>4, <4>5 DEF Loops!Visited
    <3>. QED
      BY <3>1, <3>2
  <2>7. Loops!MayFollow(E, p, e) /\ ~ Loops!Closed(p)
    <3>. HIDE DEF e
    <3>. QED
      BY <2>1, <2>2, <2>4, <2>5, <2>6 DEF Loops!MayFollow, Loops!Closed, Loops!End
  <2>8. p \in W[k]
    BY <1>5 DEF p
  <2>9. Append(p, e) \in Loops!Longer(E, W[k])
    <3>. HIDE DEF e
    <3>. QED
      BY <2>2, <2>7, <2>8 DEF Loops!Longer
  <2>. QED
    BY <1>1, <2>3, <2>9
<1>6. ASSUME NEW k \in Bad
      PROVE  \E x \in Bad : x < k
  <2>1. k \in Nat /\ k < n /\ Prefix(k + 1) \notin W[k]
    OBVIOUS
  <2>2. k # 0
    <3>1. SUFFICES ASSUME k = 0
                   PROVE  FALSE
      OBVIOUS
    <3>2. k + 1 = 1
      BY <3>1
    <3>. HIDE DEF Prefix
    <3>. QED
      BY <1>4, <2>1, <3>1, <3>2
  <2>3. k - 1 \in Nat /\ k - 1 < k /\ (k - 1) + 1 = k /\ (k - 1) + 2 = k + 1
    BY <2>1, <2>2
  <2>4. Prefix((k - 1) + 1) \notin W[k - 1]
    <3>. HIDE DEF Prefix
    <3>1. Prefix((k - 1) + 2) \notin W[(k - 1) + 1]
      BY <2>1, <2>3
    <3>. QED
      BY <1>5, <2>1, <2>3, <3>1
  <2>5. k - 1 \in Bad
    <3>. HIDE DEF Prefix
    <3>. QED
      BY <2>1, <2>3, <2>4
  <2>. QED
    BY <2>3, <2>5
<1>7. Bad = {}
  <2>1. Bad \in SUBSET Nat
    OBVIOUS
  <2>. HIDE DEF Bad
  <2>. QED
    BY <1>6, <2>1, NoSmallest
<1>8. n - 1 \in Nat /\ n - 1 < n /\ (n - 1) + 1 = n
  OBVIOUS
<1>9. Prefix(n) \in W[n - 1]
  <2>. HIDE DEF Prefix
  <2>. QED
    BY <1>7, <1>8
<1>10. Prefix(n) = l
  OBVIOUS
<1>. QED
  BY <1>9, <1>10 DEF W

\* The constants of the search, for the proofs below.
LEMMA SearchConstants ==
    /\ IsFiniteSet(Pool) /\ \A o \in Pool : o.remaining \in Nat
    /\ Len(Currencies) \in Nat \ {0} /\ DOMAIN Currencies = 1 .. Len(Currencies)
    /\ MaxLength \in Nat /\ MinLength \in 2 .. MaxLength /\ MinInvoices \in 2 .. MaxLength
    /\ MaxCycles \in Nat \ {0}
BY LoopsAssumption, SearchCounts DEF Loops!ConstantsAssumption

\* A loop is a simple loop of so many rows, as the set of its rows.
LEMMA LoopsByDefinition ==
    ASSUME NEW E, NEW starts, NEW least, NEW c
    PROVE  c \in Loops!LoopsFrom(starts, E, least) <=>
             \E n \in least .. MaxLength : \E l \in [1 .. n -> E] :
                Loops!SimpleLoop(l) /\ l[1].debtor \in starts /\ c = Loops!Range(l)
BY DEF Loops!LoopsFrom

\* The loops of some rows are the loops of all that have only those rows.
LEMMA LoopsOfRows ==
    ASSUME NEW E, NEW F \in SUBSET E, NEW starts, NEW least \in Nat \ {0}, NEW c
    PROVE  /\ c \in Loops!LoopsFrom(starts, E, least) => c \subseteq E /\ c # {}
           /\ c \in Loops!LoopsFrom(starts, F, least) <=>
                c \in Loops!LoopsFrom(starts, E, least) /\ c \subseteq F
<1>1. ASSUME NEW n \in least .. MaxLength, NEW G, NEW l \in [1 .. n -> G]
      PROVE  /\ Loops!Range(l) \subseteq G /\ Loops!Range(l) # {}
             /\ \A H : Loops!Range(l) \subseteq H => l \in [1 .. n -> H]
  <2>1. DOMAIN l = 1 .. n /\ 1 \in 1 .. n
    BY SearchConstants
  <2>. QED
    BY <2>1 DEF Loops!Range
<1>2. \A G : c \in Loops!LoopsFrom(starts, G, least) => c \subseteq G /\ c # {}
  BY <1>1, LoopsByDefinition
<1>3. ASSUME c \in Loops!LoopsFrom(starts, F, least)
      PROVE  c \in Loops!LoopsFrom(starts, E, least)
  <2>1. \A n : [1 .. n -> F] \subseteq [1 .. n -> E]
    OBVIOUS
  <2>. QED
    BY <1>3, <2>1, LoopsByDefinition
<1>4. ASSUME c \in Loops!LoopsFrom(starts, E, least), c \subseteq F
      PROVE  c \in Loops!LoopsFrom(starts, F, least)
  BY <1>1, <1>4, LoopsByDefinition
<1>. QED
  BY <1>2, <1>3, <1>4

\* The solver, which walks only within strongly connected components and never
\* to a party it has met, finds every simple loop within the length there is
\* and nothing else, whatever the edges.
THEOREM CyclesAreLoops ==
    ASSUME NEW E, IsFiniteSet(E), NEW roots, NEW least \in Nat \ {0}
    PROVE  Loops!findCycles(E, least, roots) = Loops!LoopsFrom(roots, E, least)
<1>1. \A c : c \in Loops!LoopsFrom(roots, E, least) <=>
             \E n \in least .. MaxLength : \E l \in [1 .. n -> E] :
                Loops!SimpleLoop(l) /\ l[1].debtor \in roots /\ c = Loops!Range(l)
  BY LoopsByDefinition
<1>2. ASSUME NEW n \in least .. MaxLength, NEW l
      PROVE  l \in Loops!Walks(E, roots)[n - 1] /\ Loops!Closed(l) <=>
             l \in [1 .. n -> E] /\ Loops!SimpleLoop(l) /\ l[1].debtor \in roots
  <2>1. n \in Nat \ {0} /\ n - 1 \in Nat /\ (n - 1) + 1 = n
    BY SearchConstants
  <2>2. ASSUME l \in [1 .. n -> E]
        PROVE  /\ Len(l) = n
               /\ Loops!SimpleLoop(l) <=>
                    /\ Chained(l, n) /\ l[n].creditor = l[1].debtor
                    /\ \A i, j \in 1 .. n : l[i].debtor = l[j].debtor => i = j
    BY <2>1, <2>2, LoopsAreChains
  <2>3. ASSUME l \in Loops!Walks(E, roots)[n - 1], Loops!Closed(l)
        PROVE  l \in [1 .. n -> E] /\ Loops!SimpleLoop(l) /\ l[1].debtor \in roots
    <3>1. Walked(E, roots, n, l)
      BY <2>1, <2>3, WalksAreChains
    <3>2. l \in [1 .. n -> E] /\ Len(l) = n
      BY <2>1, <3>1 DEF Walked
    <3>3. l[n].creditor = l[1].debtor
      BY <2>3, <3>2 DEF Loops!Closed, Loops!End
    <3>4. Loops!SimpleLoop(l) <=>
            /\ Chained(l, n) /\ l[n].creditor = l[1].debtor
            /\ \A i, j \in 1 .. n : l[i].debtor = l[j].debtor => i = j
      BY <3>2, <2>2
    <3>. QED
      BY <3>1, <3>2, <3>3, <3>4 DEF Walked
  <2>4. ASSUME l \in [1 .. n -> E], Loops!SimpleLoop(l), l[1].debtor \in roots
        PROVE  l \in Loops!Walks(E, roots)[n - 1] /\ Loops!Closed(l)
    <3>1. l \in Loops!Walks(E, roots)[n - 1]
      BY <2>1, <2>4, LoopsAreWalked
    <3>2. Len(l) = n /\ l[n].creditor = l[1].debtor
      BY <2>4, <2>2
    <3>. QED
      BY <3>1, <3>2 DEF Loops!Closed, Loops!End
  <2>. QED
    BY <2>3, <2>4
<1>3. \A c : c \in Loops!findCycles(E, least, roots) <=>
             \E n \in least .. MaxLength : \E l :
                l \in Loops!Walks(E, roots)[n - 1] /\ Loops!Closed(l) /\ c = Loops!Range(l)
  BY DEF Loops!findCycles, Loops!ClosedWalks
<1>4. \A c : c \in Loops!findCycles(E, least, roots) <=> c \in Loops!LoopsFrom(roots, E, least)
  BY <1>1, <1>2, <1>3
<1>. QED
  BY <1>4

\* No loop of a party leaves its neighbourhood.
LEMMA NeighbourhoodKeepsLoops ==
    ASSUME NEW E, NEW least \in Nat \ {0}, NEW c \in Loops!LoopsFrom({Caller}, E, least)
    PROVE  c \subseteq Loops!neighbourhoodEdges(E, Caller)
<1>0. PICK n \in least .. MaxLength : \E l \in [1 .. n -> E] :
              Loops!SimpleLoop(l) /\ l[1].debtor = Caller /\ c = Loops!Range(l)
  BY LoopsByDefinition
<1>1. PICK l \in [1 .. n -> E] : Loops!SimpleLoop(l) /\ l[1].debtor = Caller /\ c = Loops!Range(l)
  BY <1>0
<1>2. n \in Nat \ {0} /\ n <= MaxLength /\ MaxLength \in Nat
  BY SearchConstants
<1>3. ASSUME NEW i \in 1 .. n
      PROVE  l[i] \in Loops!neighbourhoodEdges(E, Caller)
  <2>1. /\ l[i].debtor \in Loops!Ball(Loops!Forward(E), Caller)[i - 1]
        /\ l[i].creditor \in Loops!Ball(Loops!Backward(E), Caller)[n - i]
    BY <1>1, <1>2, LoopsAreNear
  <2>2. i - 1 \in 0 .. (MaxLength - 1) /\ n - i \in Nat /\ MaxLength - 1 - (i - 1) \in Nat
        /\ n - i <= MaxLength - 1 - (i - 1)
    BY <1>2
  <2>3. l[i].creditor \in Loops!Ball(Loops!Backward(E), Caller)[MaxLength - 1 - (i - 1)]
    <3>1. \A a, b \in Nat : a <= b =>
            Loops!Ball(Loops!Backward(E), Caller)[a] \subseteq Loops!Ball(Loops!Backward(E), Caller)[b]
      BY BallFacts
    <3>. QED
      BY <2>1, <2>2, <3>1
  <2>4. l[i] \in E
    OBVIOUS
  <2>. QED
    BY <2>1, <2>2, <2>3, <2>4 DEF Loops!neighbourhoodEdges
<1>4. DOMAIN l = 1 .. n
  OBVIOUS
<1>. QED
  BY <1>1, <1>3, <1>4 DEF Loops!Range

\* Every loop of the party is loaded: one of the ends of each of its rows is
\* at most half its length away.
LEMMA LoopsAreLoaded ==
    ASSUME NEW cur \in Range(Currencies), NEW least \in Nat \ {0},
           NEW c \in Loops!LoopsFrom({Caller}, Loops!InCurrency(Loops!Nettable(active), cur), least)
    PROVE  /\ c \subseteq Loops!Loaded
           /\ Loops!Touching(Loops!Loaded, {Caller}) # {}
<1>. DEFINE rows == Loops!InCurrency(Loops!Nettable(active), cur)
            near == Loops!Ball(Loops!Forward(rows) \cup Loops!Backward(rows), Caller)
<1>0. PICK n \in least .. MaxLength : \E l \in [1 .. n -> rows] :
              Loops!SimpleLoop(l) /\ l[1].debtor = Caller /\ c = Loops!Range(l)
  <2>. HIDE DEF rows
  <2>1. c \in Loops!LoopsFrom({Caller}, rows, least)
    BY DEF rows
  <2>. QED
    BY <2>1, LoopsByDefinition
<1>1. PICK l \in [1 .. n -> rows] : Loops!SimpleLoop(l) /\ l[1].debtor = Caller /\ c = Loops!Range(l)
  BY <1>0
<1>2. n \in Nat \ {0} /\ n <= MaxLength /\ MaxLength \in Nat
  BY SearchConstants
<1>3. near[0] = {Caller}
  BY BallFacts
<1>4. rows \subseteq Loops!Nettable(active)
  BY DEF Loops!InCurrency
<1>5. \A o \in Loops!Nettable(active) : Caller \in {o.debtor, o.creditor} => o \in Loops!Loaded
  <2>1. [rows |-> Loops!Nettable(active), for |-> {Caller}] \in Loops!Queries
    BY DEF Loops!Queries
  <2>. QED
    BY <2>1 DEF Loops!Loaded, Loops!Touching
<1>6. ASSUME NEW o \in rows, NEW p \in {o.debtor, o.creditor}, NEW d \in Nat, d <= Loops!Depth,
             p \in near[d]
      PROVE  o \in Loops!Loaded
  <2>. DEFINE At == {k \in Nat : k <= d /\ p \in near[k]}
  <2>1. At \in SUBSET Nat /\ At # {}
    <3>1. d \in At
      <4>. HIDE DEF near
      <4>. QED
        BY <1>6
    <3>. QED
      BY <3>1
  <2>2. PICK k \in At : \A x \in At : k <= x
    <3>. HIDE DEF At
    <3>. QED
      BY <2>1, Smallest
  <2>3. k \in Nat /\ k <= d /\ p \in near[k]
    OBVIOUS
  <2>4. CASE k = 0
    BY <1>3, <1>4, <1>5, <2>3, <2>4
  <2>5. CASE k # 0
    <3>1. k - 1 \in Nat /\ k - 1 <= d /\ ~ (k <= k - 1)
      BY <2>3, <2>5
    <3>2. p \notin near[k - 1]
      BY <2>2, <3>1
    <3>3. p \in Loops!Sphere(rows, k)
      BY <2>3, <3>2 DEF Loops!Sphere
    <3>4. k \in 1 .. Loops!Depth
      <4>1. Loops!Depth \in Int
        BY SearchConstants DEF Loops!Depth
      <4>. QED
        BY <1>6, <2>3, <2>5, <4>1
    <3>5. cur \in Loops!Range(Currencies)
      BY DEF Loops!Range, Range
    <3>6. [rows |-> rows, for |-> Loops!Sphere(rows, k)] \in Loops!Queries
      BY <3>3, <3>4, <3>5 DEF Loops!Queries
    <3>. HIDE DEF rows
    <3>7. o \in Loops!Touching(rows, Loops!Sphere(rows, k))
      BY <3>3 DEF Loops!Touching
    <3>. QED
      BY <3>6, <3>7 DEF Loops!Loaded
  <2>. QED
    BY <2>4, <2>5
<1>. HIDE DEF rows
<1>7. ASSUME NEW i \in 1 .. n
      PROVE  l[i] \in Loops!Loaded
  <2>1. /\ l[i].debtor \in Loops!Ball(Loops!Forward(rows), Caller)[i - 1]
        /\ l[i].creditor \in Loops!Ball(Loops!Backward(rows), Caller)[n - i]
    BY <1>1, <1>2, LoopsAreNear
  <2>2. i - 1 \in Nat /\ n - i \in Nat
    BY <1>2
  <2>3. l[i].debtor \in near[i - 1] /\ l[i].creditor \in near[n - i]
    <3>1. /\ Loops!Forward(rows) \subseteq Loops!Forward(rows) \cup Loops!Backward(rows)
          /\ Loops!Backward(rows) \subseteq Loops!Forward(rows) \cup Loops!Backward(rows)
      OBVIOUS
    <3>2. Loops!Ball(Loops!Forward(rows), Caller)[i - 1] \subseteq near[i - 1]
      BY <2>2, <3>1, BallGrows
    <3>3. Loops!Ball(Loops!Backward(rows), Caller)[n - i] \subseteq near[n - i]
      BY <2>2, <3>1, BallGrows
    <3>. QED
      BY <2>1, <3>2, <3>3
  <2>4. i - 1 <= Loops!Depth \/ n - i <= Loops!Depth
    <3>1. MaxLength <= 2 * (MaxLength \div 2) + 1 /\ MaxLength \div 2 \in Int
      BY <1>2
    <3>. QED
      BY <1>2, <3>1 DEF Loops!Depth
  <2>. HIDE DEF near
  <2>5. l[i] \in rows
    OBVIOUS
  <2>. QED
    BY <1>6, <2>2, <2>3, <2>4, <2>5
<1>8. DOMAIN l = 1 .. n /\ 1 \in 1 .. n
  BY <1>2
<1>9. c \subseteq Loops!Loaded
  BY <1>1, <1>7, <1>8 DEF Loops!Range
<1>10. l[1] \in Loops!Touching(Loops!Loaded, {Caller})
  BY <1>1, <1>7, <1>8 DEF Loops!Touching
<1>. QED
  BY <1>9, <1>10

\* A finite set of numbers has a largest one.
LEMMA Largest ==
    ASSUME NEW S \in SUBSET Nat, IsFiniteSet(S), S # {}
    PROVE  \E m \in S : \A x \in S : x <= m
<1>. DEFINE HasNone(T) == T \in SUBSET Nat /\ IsFiniteSet(T) /\ T # {} /\ ~ \E m \in T : \A x \in T : x <= m
            Bad == {n \in Nat : \E T : HasNone(T) /\ Cardinality(T) = n}
<1>1. ASSUME NEW n \in Bad
      PROVE  \E k \in Bad : k < n
  <2>1. PICK T : HasNone(T) /\ Cardinality(T) = n
    OBVIOUS
  <2>2. PICK y \in T : TRUE
    BY <2>1
  <2>. DEFINE U == T \ {y}
  <2>3. /\ U \in SUBSET Nat /\ IsFiniteSet(U) /\ Cardinality(U) = n - 1 /\ n - 1 \in Nat /\ n - 1 < n
    <3>1. IsFiniteSet(U) /\ Cardinality(U) = n - 1
      BY <2>1, <2>2, FS_RemoveElement
    <3>2. Cardinality(U) \in Nat
      BY <3>1, FS_CardinalityType
    <3>. QED
      BY <2>1, <3>1, <3>2
  <2>4. U # {}
    <3>1. SUFFICES ASSUME U = {}
                   PROVE  FALSE
      OBVIOUS
    <3>2. T = {y} /\ y \in Nat
      BY <2>1, <2>2, <3>1
    <3>. QED
      BY <2>1, <3>2
  <2>5. ASSUME NEW m \in U, \A x \in U : x <= m
        PROVE  FALSE
    <3>1. m \in Nat /\ y \in Nat /\ m \in T /\ y \in T /\ T \subseteq Nat
      BY <2>1
    <3>2. CASE m <= y
      <4>1. \A x \in T : x <= y
        BY <2>5, <3>1, <3>2
      <4>. QED
        BY <2>1, <3>1, <4>1
    <3>3. CASE ~ (m <= y)
      <4>1. \A x \in T : x <= m
        BY <2>5, <3>1, <3>3
      <4>. QED
        BY <2>1, <3>1, <4>1
    <3>. QED
      BY <3>2, <3>3
  <2>6. HasNone(U)
    BY <2>3, <2>4, <2>5
  <2>. HIDE DEF HasNone, U
  <2>7. n - 1 \in Bad
    BY <2>3, <2>6
  <2>. QED
    BY <2>3, <2>7
<1>2. Bad \in SUBSET Nat
  OBVIOUS
<1>3. Bad = {}
  <2>. HIDE DEF Bad
  <2>. QED
    BY <1>1, <1>2, NoSmallest
<1>4. Cardinality(S) \in Nat
  BY FS_CardinalityType
<1>5. ~ HasNone(S)
  <2>. HIDE DEF HasNone
  <2>. QED
    BY <1>3, <1>4
<1>. QED
  BY <1>5

\* Of some loops of rows there is one with the largest wNet, and it is chosen.
LEMMA BestIsLargest ==
    ASSUME NEW loops \in SUBSET SUBSET Pool, loops # {}, {} \notin loops
    PROVE  Loops!LargestOf(Loops!BestOf(loops), loops)
<1>1. ASSUME NEW l \in loops
      PROVE  Loops!wNetOf(l) \in Nat
  <2>. DEFINE left == {e.remaining : e \in l}
  <2>1. left \in SUBSET Nat /\ left # {}
    BY SearchConstants
  <2>2. \E m \in left : \A x \in left : m <= x
    <3>. HIDE DEF left
    <3>. QED
      BY <2>1, Smallest
  <2>3. Loops!Min(left) \in left
    <3>. HIDE DEF left
    <3>. QED
      BY <2>2 DEF Loops!Min
  <2>. QED
    BY <2>1, <2>3 DEF Loops!wNetOf
<1>. DEFINE nets == {Loops!wNetOf(l) : l \in loops}
<1>2. IsFiniteSet(nets)
  <2>1. IsFiniteSet(SUBSET Pool)
    BY SearchConstants, FS_SUBSET
  <2>2. IsFiniteSet(loops)
    BY <2>1, FS_Subset
  <2>. DEFINE f == [l \in loops |-> Loops!wNetOf(l)]
  <2>3. f \in Surjection(loops, nets)
    BY DEF Surjection
  <2>. QED
    BY <2>2, <2>3, FS_Surjection
<1>3. nets \in SUBSET Nat /\ nets # {}
  BY <1>1
<1>4. PICK m \in nets : \A x \in nets : x <= m
  <2>. HIDE DEF nets
  <2>. QED
    BY <1>2, <1>3, Largest
<1>5. PICK best \in loops : m = Loops!wNetOf(best)
  OBVIOUS
<1>6. \A l \in loops : Loops!wNetOf(l) <= Loops!wNetOf(best)
  BY <1>4, <1>5
<1>7. \E b \in loops : \A l \in loops : Loops!wNetOf(l) <= Loops!wNetOf(b)
  BY <1>6
<1>. QED
  BY <1>7 DEF Loops!BestOf, Loops!LargestOf

\* Only rows that may be netted are loaded.
LEMMA LoadedIsNettable == Loops!Loaded \subseteq Loops!Nettable(active)
<1>. DEFINE loaded == Loops!Nettable(active)
            further == {[rows |-> Loops!InCurrency(loaded, c),
                         for |-> Loops!Sphere(Loops!InCurrency(loaded, c), d)] :
                        c \in Loops!Range(Currencies), d \in 1 .. Loops!Depth}
<1>1. ASSUME NEW q \in Loops!Queries
      PROVE  q.rows \subseteq loaded
  <2>1. q = [rows |-> loaded, for |-> {Caller}] \/ q \in further
    BY DEF Loops!Queries
  <2>2. \A x \in further : \E c : x.rows = Loops!InCurrency(loaded, c)
    OBVIOUS
  <2>3. q.rows = loaded \/ \E c : q.rows = Loops!InCurrency(loaded, c)
    <3>. HIDE DEF loaded, further
    <3>. QED
      BY <2>1, <2>2
  <2>. QED
    BY <2>3 DEF Loops!InCurrency
<1>. QED
  BY <1>1 DEF Loops!Loaded, Loops!Touching

\* Every party the caller could be on a loop with is screened.
LEMMA PartnersAreScreened ==
    ASSUME NEW cur \in Range(Currencies), NEW l \in Loops!ShortLoops(cur)
    PROVE  /\ l \subseteq Loops!Loaded /\ Loops!Touching(Loops!Loaded, {Caller}) # {}
           /\ Loops!partiesOf(l) \subseteq Loops!neighbourhoodParties(Loops!Loaded)
<1>. DEFINE rows == Loops!InCurrency(Loops!Nettable(active), cur)
            near == Loops!InCurrency(Loops!Nettable(Loops!Loaded), cur)
            There(G) == Loops!LoopsFrom({Caller}, G, MinLength)
<1>1. MinLength \in Nat \ {0} /\ cur \in Loops!Range(Currencies)
  BY SearchConstants DEF Loops!Range, Range
<1>2. rows = Loops!Nettable(Loops!InCurrency(active, cur))
  BY DEF Loops!Nettable, Loops!InCurrency
<1>3. l \in There(rows)
  BY <1>2 DEF Loops!ShortLoops
<1>4. l \subseteq Loops!Loaded /\ Loops!Touching(Loops!Loaded, {Caller}) # {}
  BY <1>1, <1>3, LoopsAreLoaded
<1>5. near \in SUBSET rows
  BY LoadedIsNettable DEF Loops!Nettable, Loops!InCurrency
<1>6. l \subseteq near
  <2>1. l \subseteq rows
    <3>1. rows \in SUBSET rows
      OBVIOUS
    <3>. HIDE DEF rows
    <3>. QED
      BY <1>1, <1>3, <3>1, LoopsOfRows
  <2>. QED
    BY <1>4, <2>1 DEF Loops!Nettable, Loops!InCurrency
<1>. HIDE DEF rows
<1>7. l \in There(near)
  <2>. HIDE DEF near
  <2>. QED
    BY <1>1, <1>3, <1>5, <1>6, LoopsOfRows
<1>8. l \subseteq Loops!neighbourhoodEdges(near, Caller)
  <2>. HIDE DEF near
  <2>. QED
    BY <1>1, <1>7, NeighbourhoodKeepsLoops
<1>9. Loops!partiesOf(l) \subseteq Loops!partiesOf(Loops!neighbourhoodEdges(near, Caller))
  BY <1>8 DEF Loops!partiesOf
<1>. QED
  BY <1>1, <1>4, <1>9 DEF Loops!neighbourhoodParties

\* What is found among the rows that were loaded, without the parties that
\* were screened and flagged, is what there is.
LEMMA LoadedIsEnough ==
    ASSUME active \subseteq Pool, NEW cur \in Range(Currencies)
    PROVE  LET W == Loops!Without(Loops!FlaggedPartners, Loops!Nettable(Loops!InCurrency(active, cur)))
               all == Loops!InCurrency(Loops!Usable(Loops!Loaded), cur)
           IN  /\ IsFiniteSet(W) /\ all \subseteq W
               /\ Loops!findCycles(Loops!neighbourhoodEdges(all, Caller), MinLength, {Caller}) =
                    Loops!ObligationLoops(cur)
               /\ \A l \in Loops!ObligationLoops(cur) : l \in SUBSET Pool /\ l # {}
               /\ Loops!ObligationLoops(cur) # {} => Loops!Touching(Loops!Loaded, {Caller}) # {}
<1>. DEFINE rows == Loops!Nettable(Loops!InCurrency(active, cur))
            R == Loops!Clear(rows)
            W == Loops!Without(Loops!FlaggedPartners, rows)
            all == Loops!InCurrency(Loops!Usable(Loops!Loaded), cur)
            E == Loops!neighbourhoodEdges(all, Caller)
            There(G) == Loops!LoopsFrom({Caller}, G, MinLength)
            screened == Loops!neighbourhoodParties(Loops!Loaded)
<1>1. rows \in SUBSET Pool /\ R \in SUBSET rows /\ W \in SUBSET rows
  BY DEF Loops!Clear, Loops!Without, Loops!Nettable, Loops!InCurrency
<1>2. \A o : /\ o \in all <=> /\ o \in Loops!Loaded /\ Loops!isNettableNow(o) /\ o.currency = cur
                              /\ o.debtor \notin flagged \cap screened
                              /\ o.creditor \notin flagged \cap screened
             /\ o \in R <=> o \in rows /\ o.debtor \notin flagged /\ o.creditor \notin flagged
             /\ o \in W <=> /\ o \in rows /\ o.debtor \notin Loops!FlaggedPartners
                            /\ o.creditor \notin Loops!FlaggedPartners
             /\ o \in rows <=> o \in active /\ Loops!isNettableNow(o) /\ o.currency = cur
  BY DEF Loops!Clear, Loops!Without, Loops!Usable, Loops!excludedParties, Loops!Nettable, Loops!InCurrency
<1>3. all \in SUBSET rows
  <2>. HIDE DEF all, rows
  <2>. QED
    BY <1>2, LoadedIsNettable DEF Loops!Nettable
<1>4. E \in SUBSET all
  BY DEF Loops!neighbourhoodEdges
<1>5. /\ There(rows) = Loops!ShortLoops(cur) /\ There(R) = Loops!ObligationLoops(cur)
      /\ MinLength \in Nat \ {0} /\ E = Loops!neighbourhoodEdges(all, Caller)
  BY SearchConstants DEF Loops!ShortLoops, Loops!ObligationLoops
<1>6. Loops!FlaggedPartners \subseteq flagged \cap screened
  <2>1. ASSUME NEW p \in Loops!FlaggedPartners
        PROVE  p \in flagged /\ p \in screened
    <3>1. PICK c \in Loops!Range(Currencies) : \E l \in Loops!ShortLoops(c) : p \in Loops!partiesOf(l)
      BY DEF Loops!FlaggedPartners
    <3>2. PICK l \in Loops!ShortLoops(c) : p \in Loops!partiesOf(l)
      BY <3>1
    <3>3. c \in Range(Currencies)
      BY DEF Loops!Range, Range
    <3>4. p \in screened
      BY <3>2, <3>3, PartnersAreScreened
    <3>. QED
      BY <3>4 DEF Loops!FlaggedPartners
  <2>. QED
    BY <2>1
<1>. HIDE DEF rows, R, W, all, E, screened
<1>7. all \subseteq W
  BY <1>2, <1>3, <1>6
<1>8. IsFiniteSet(W) /\ IsFiniteSet(E)
  <2>1. IsFiniteSet(rows)
    BY <1>1, SearchConstants, FS_Subset
  <2>. QED
    BY <1>1, <1>3, <1>4, <2>1, FS_Subset
<1>9. \A c : /\ c \in There(R) <=> c \in There(rows) /\ c \subseteq R
             /\ c \in There(all) <=> c \in There(rows) /\ c \subseteq all
             /\ c \in There(E) <=> c \in There(all) /\ c \subseteq E
             /\ c \in There(R) => c # {}
  BY <1>1, <1>3, <1>4, <1>5, LoopsOfRows
<1>10. ASSUME NEW c \in There(R)
       PROVE  c \in There(E) /\ Loops!Touching(Loops!Loaded, {Caller}) # {}
  <2>1. c \in There(rows) /\ c \subseteq R
    BY <1>9
  <2>2. c \subseteq Loops!Loaded /\ Loops!Touching(Loops!Loaded, {Caller}) # {}
    BY <1>5, <2>1, PartnersAreScreened
  <2>. HIDE DEF There
  <2>3. c \subseteq all
    BY <1>2, <2>1, <2>2
  <2>4. c \in There(all)
    BY <1>9, <2>1, <2>3
  <2>5. c \subseteq E
    BY <1>5, <2>4, NeighbourhoodKeepsLoops DEF There
  <2>. QED
    BY <1>9, <2>2, <2>4, <2>5
<1>11. ASSUME NEW c \in There(E)
       PROVE  c \in There(R)
  <2>1. c \in There(rows) /\ c \subseteq all
    BY <1>9
  <2>2. Loops!partiesOf(c) \subseteq screened
    BY <1>5, <2>1, PartnersAreScreened DEF screened
  <2>3. \A o \in c : o.debtor \in screened /\ o.creditor \in screened
    BY <2>2 DEF Loops!partiesOf
  <2>. HIDE DEF There
  <2>4. c \subseteq R
    BY <1>2, <1>3, <2>1, <2>3
  <2>. QED
    BY <1>9, <2>1, <2>4
<1>12. Loops!findCycles(E, MinLength, {Caller}) = There(E)
  BY <1>5, <1>8, CyclesAreLoops
<1>. HIDE DEF There
<1>13. There(E) = Loops!ObligationLoops(cur)
  BY <1>5, <1>10, <1>11
<1>14. \A l \in Loops!ObligationLoops(cur) : l \in SUBSET Pool /\ l # {}
  BY <1>1, <1>5, <1>9
<1>15. Loops!ObligationLoops(cur) # {} => Loops!Touching(Loops!Loaded, {Caller}) # {}
  BY <1>5, <1>10
<1>16. /\ IsFiniteSet(W) /\ all \subseteq W
       /\ Loops!findCycles(E, MinLength, {Caller}) = Loops!ObligationLoops(cur)
  BY <1>7, <1>8, <1>12, <1>13
<1>. QED
  BY <1>14, <1>15, <1>16 DEF W, all, E, rows

\* A cycle among some of the edges is one among all.
LEMMA CyclesStay ==
    ASSUME NEW E, IsFiniteSet(E), NEW F \in SUBSET E, NEW me, Loops!cycleRunsThrough(F, me)
    PROVE  Loops!cycleRunsThrough(E, me)
<1>. DEFINE p == Cardinality(Loops!partiesOf(F))
            q == Cardinality(Loops!partiesOf(E))
<1>1. p \in Nat /\ q \in Nat /\ p <= q
  BY FiniteParties
<1>2. Loops!Forward(F) \subseteq Loops!Forward(E)
  BY DEF Loops!Forward
<1>. HIDE DEF p, q
<1>3. Loops!Ball(Loops!Forward(F), me)[p] \subseteq Loops!Ball(Loops!Forward(E), me)[p]
  BY <1>1, <1>2, BallGrows
<1>4. Loops!Ball(Loops!Forward(E), me)[p] \subseteq Loops!Ball(Loops!Forward(E), me)[q]
  BY <1>1, BallFacts
<1>5. Loops!Reachable(F, me) = Loops!Ball(Loops!Forward(F), me)[p]
  BY SearchCounts DEF Loops!Reachable, p
<1>6. Loops!Reachable(E, me) = Loops!Ball(Loops!Forward(E), me)[q]
  BY SearchCounts DEF Loops!Reachable, q
<1>. QED
  BY <1>3, <1>4, <1>5, <1>6 DEF Loops!cycleRunsThrough

\* What may be proposed of the loops of a currency.
Offered(c) == Loops!ObligationLoops(c) \ Loops!Rejected(Loops!ObligationLoops(c))

\* What the search of a currency comes to, and what that says of its loops.
LEMMA JudgedRight ==
    ASSUME active \subseteq Pool, NEW cur \in Range(Currencies)
    PROVE  LET o == Loops!InOneCurrency(Loops!Loaded, cur)
           IN  /\ o.currency = cur
               /\ o.kind \in {"too-many-parties", "search-incomplete", "found",
                              "blocked-by-rules", "too-long", "none"}
               /\ o.kind = "found" => Offered(cur) # {} /\ Loops!LargestOf(o.loop, Offered(cur))
               /\ o.kind = "blocked-by-rules" => Loops!ObligationLoops(cur) # {} /\ Offered(cur) = {}
               /\ o.kind = "too-long" =>
                    /\ Loops!ObligationLoops(cur) = {}
                    /\ Loops!cycleRunsThrough(
                            Loops!Without(Loops!FlaggedPartners, Loops!Nettable(Loops!InCurrency(active, cur))),
                            Caller)
               /\ o.kind = "none" => Loops!ObligationLoops(cur) = {}
<1>. DEFINE R == Loops!Without(Loops!FlaggedPartners, Loops!Nettable(Loops!InCurrency(active, cur)))
            all == Loops!InCurrency(Loops!Usable(Loops!Loaded), cur)
            E == Loops!neighbourhoodEdges(all, Caller)
            L == Loops!ObligationLoops(cur)
            o == Loops!InOneCurrency(Loops!Loaded, cur)
<1>1. /\ IsFiniteSet(R) /\ all \subseteq R
      /\ Loops!findCycles(E, MinLength, {Caller}) = L
      /\ \A l \in L : l \in SUBSET Pool /\ l # {}
  BY LoadedIsEnough
<1>2. L \in SUBSET SUBSET Pool /\ {} \notin L
  <2>. HIDE DEF L
  <2>. QED
    BY <1>1
<1>3. Loops!Allowed(L) = Offered(cur)
  BY DEF Loops!Allowed, Loops!Rejected, Offered
<1>4. Offered(cur) # {} => Loops!LargestOf(Loops!BestOf(Offered(cur)), Offered(cur))
  <2>1. Offered(cur) \in SUBSET SUBSET Pool /\ {} \notin Offered(cur)
    <3>1. Offered(cur) \subseteq L
      BY DEF Offered
    <3>. HIDE DEF L
    <3>. QED
      BY <1>2, <3>1
  <2>. QED
    BY <2>1, BestIsLargest
<1>5. o = Loops!Judged(cur, all, Loops!Crowded(E), L, Offered(cur))
  <2>1. o = Loops!Judged(cur, all, Loops!Crowded(E), Loops!findCycles(E, MinLength, {Caller}),
                         Loops!Allowed(Loops!findCycles(E, MinLength, {Caller})))
    BY DEF Loops!InOneCurrency, Loops!InNeighbourhood, Loops!Sought, Loops!Weighed
  <2>. QED
    BY <1>1, <1>3, <2>1
<1>6. Loops!cycleRunsThrough(all, Caller) => Loops!cycleRunsThrough(R, Caller)
  BY <1>1, CyclesStay
<1>. HIDE DEF R, all, E, L, o
<1>7. Offered(cur) = {} \/ L # {}
  BY DEF Offered, L
<1>8. \/ o = Loops!Found("too-many-parties", cur, {})
      \/ o = Loops!Found("search-incomplete", cur, {})
      \/ o = Loops!Found("found", cur, Offered(cur)) /\ Offered(cur) # {}
      \/ o = Loops!Found("blocked-by-rules", cur, {}) /\ L # {} /\ Offered(cur) = {}
      \/ o = Loops!Found("too-long", cur, {}) /\ L = {} /\ Loops!cycleRunsThrough(all, Caller)
      \/ o = Loops!Found("none", cur, {}) /\ L = {}
  <2>1. CASE Loops!Crowded(E)
    BY <1>5, <2>1 DEF Loops!Judged
  <2>2. CASE ~ Loops!Crowded(E) /\ Loops!Capped(L)
    BY <1>5, <2>2 DEF Loops!Judged
  <2>3. CASE ~ Loops!Crowded(E) /\ ~ Loops!Capped(L) /\ Offered(cur) # {}
    BY <1>5, <2>3 DEF Loops!Judged
  <2>4. CASE ~ Loops!Crowded(E) /\ ~ Loops!Capped(L) /\ Offered(cur) = {} /\ L # {}
    BY <1>5, <2>4 DEF Loops!Judged
  <2>5. CASE ~ Loops!Crowded(E) /\ ~ Loops!Capped(L) /\ Offered(cur) = {} /\ L = {}
    <3>1. o = Loops!Found(IF Loops!cycleRunsThrough(all, Caller) THEN "too-long" ELSE "none", cur, {})
      BY <1>5, <2>5 DEF Loops!Judged
    <3>. QED
      BY <2>5, <3>1
  <2>. QED
    BY <2>1, <2>2, <2>3, <2>4, <2>5
<1>9. /\ o.currency = cur
      /\ o.kind \in {"too-many-parties", "search-incomplete", "found", "blocked-by-rules", "too-long", "none"}
      /\ o.kind = "found" => Offered(cur) # {} /\ Loops!LargestOf(o.loop, Offered(cur))
      /\ o.kind = "blocked-by-rules" => L # {} /\ Offered(cur) = {}
      /\ o.kind = "too-long" => L = {} /\ Loops!cycleRunsThrough(R, Caller)
      /\ o.kind = "none" => L = {}
  <2>1. CASE o = Loops!Found("found", cur, Offered(cur)) /\ Offered(cur) # {}
    BY <1>4, <2>1 DEF Loops!Found
  <2>2. CASE o = Loops!Found("too-many-parties", cur, {}) \/ o = Loops!Found("search-incomplete", cur, {})
    BY <2>2 DEF Loops!Found
  <2>3. CASE o = Loops!Found("blocked-by-rules", cur, {}) /\ L # {} /\ Offered(cur) = {}
    BY <2>3 DEF Loops!Found
  <2>4. CASE o = Loops!Found("too-long", cur, {}) /\ L = {} /\ Loops!cycleRunsThrough(all, Caller)
    BY <1>6, <2>4 DEF Loops!Found
  <2>5. CASE o = Loops!Found("none", cur, {}) /\ L = {}
    BY <2>5 DEF Loops!Found
  <2>. QED
    BY <1>8, <2>1, <2>2, <2>3, <2>4, <2>5
<1>. QED
  BY <1>9 DEF o, L, R

\* Of the outcomes of some currencies one is the gravest.
LEMMA GravestIsOne ==
    ASSUME NEW n \in Nat \ {0}, NEW tried, DOMAIN tried = 1 .. n
    PROVE  \E i \in 1 .. n : /\ Loops!Gravest(tried) = tried[i]
                             /\ \A j \in 1 .. n : Loops!Precedes(tried, i, j)
<1>. DEFINE ranks == {Loops!Rank(tried[i].kind) : i \in 1 .. n}
<1>1. \A i \in 1 .. n : Loops!Rank(tried[i].kind) \in Nat
  <2>1. \A kind : Loops!Rank(kind) \in 0 .. 4
    BY DEF Loops!Rank
  <2>. QED
    BY <2>1
<1>2. ranks \in SUBSET Nat /\ ranks # {}
  <2>1. 1 \in 1 .. n
    OBVIOUS
  <2>. QED
    BY <1>1, <2>1
<1>3. PICK r \in ranks : \A x \in ranks : r <= x
  <2>. HIDE DEF ranks
  <2>. QED
    BY <1>2, Smallest
<1>. DEFINE First == {i \in 1 .. n : Loops!Rank(tried[i].kind) = r}
<1>4. First \in SUBSET Nat /\ First # {}
  BY <1>3
<1>5. PICK i \in First : \A j \in First : i <= j
  <2>. HIDE DEF First
  <2>. QED
    BY <1>4, Smallest
<1>6. \A j \in 1 .. n : Loops!Precedes(tried, i, j)
  <2>1. SUFFICES ASSUME NEW j \in 1 .. n
                 PROVE  Loops!Precedes(tried, i, j)
    OBVIOUS
  <2>2. r \in Nat /\ Loops!Rank(tried[j].kind) \in Nat /\ r <= Loops!Rank(tried[j].kind)
    BY <1>1, <1>2, <1>3
  <2>3. Loops!Rank(tried[j].kind) = r => i <= j
    BY <1>5
  <2>4. Loops!Rank(tried[i].kind) = r
    BY <1>5
  <2>. QED
    BY <2>2, <2>3, <2>4 DEF Loops!Precedes
<1>7. \E k \in DOMAIN tried : \A j \in DOMAIN tried : Loops!Precedes(tried, k, j)
  BY <1>5, <1>6
<1>. DEFINE g == CHOOSE k \in DOMAIN tried : \A j \in DOMAIN tried : Loops!Precedes(tried, k, j)
<1>8. g \in 1 .. n /\ \A j \in 1 .. n : Loops!Precedes(tried, g, j)
  BY <1>7
<1>9. Loops!Gravest(tried) = tried[g]
  BY DEF Loops!Gravest
<1>. QED
  BY <1>8, <1>9

\* What is proposed to the party, or said to it.
LEMMA ProposalsAreBest ==
    ASSUME active \subseteq Pool
    PROVE  Loops!ProposalIsBest
<1>. DEFINE o == Loops!findAndProposeLoop
            loops == [c \in Loops!Range(Currencies) |-> Loops!ObligationLoops(c)]
            R(c) == Loops!Without(Loops!FlaggedPartners, Loops!Nettable(Loops!InCurrency(active, c)))
            n == Len(Currencies)
            judged(c) == Loops!InOneCurrency(Loops!Loaded, c)
            Kinds == {"too-many-parties", "search-incomplete", "found", "blocked-by-rules", "too-long", "none"}
<1>1. Loops!Range(Currencies) = Range(Currencies)
  BY DEF Loops!Range, Range
<1>2. n \in Nat \ {0} /\ DOMAIN Currencies = 1 .. n /\ \A j \in 1 .. n : Currencies[j] \in Range(Currencies)
  BY SearchConstants DEF Range
<1>3. ASSUME NEW c \in Range(Currencies)
      PROVE  /\ judged(c).currency = c /\ judged(c).kind \in Kinds
             /\ judged(c).kind = "found" => Loops!LargestOf(judged(c).loop, Offered(c))
             /\ judged(c).kind \in {"blocked-by-rules", "too-long", "none"} => Offered(c) = {}
             /\ judged(c).kind = "blocked-by-rules" => Loops!ObligationLoops(c) # {}
             /\ judged(c).kind \in {"too-long", "none"} => Loops!ObligationLoops(c) = {}
             /\ judged(c).kind = "too-long" => Loops!cycleRunsThrough(R(c), Caller)
  <2>1. Loops!ObligationLoops(c) = {} => Offered(c) = {}
    BY DEF Offered
  <2>. QED
    BY <2>1, JudgedRight
<1>4. \A kind : /\ kind \in {"found", "search-incomplete"} => Loops!Rank(kind) = 0
                /\ kind = "too-many-parties" => Loops!Rank(kind) = 1
                /\ kind = "blocked-by-rules" => Loops!Rank(kind) = 2
                /\ kind = "too-long" => Loops!Rank(kind) = 3
                /\ kind = "none" => Loops!Rank(kind) = 4
  BY DEF Loops!Rank
<1>. DEFINE Right ==
        /\ o.kind = "found" => /\ Loops!LargestOf(o.loop, Offered(o.currency))
                               /\ o.currency \in Range(Currencies)
                               /\ \A c \in Range(Currencies) :
                                    c \in Loops!Before(o.currency) /\ Loops!Searched(c) => Offered(c) = {}
        /\ o.kind = "blocked-by-rules" =>
                \A c \in Range(Currencies) :
                    Offered(c) = {} /\ (c = o.currency => Loops!ObligationLoops(c) # {})
        /\ o.kind \in {"none", "no-candidates", "too-long"} =>
                \A c \in Range(Currencies) : Loops!ObligationLoops(c) = {}
        /\ o.kind = "too-long" => Loops!cycleRunsThrough(R(o.currency), Caller)
<1>5. ASSUME ~ Loops!LoadComplete
      PROVE  Right
  <2>1. o.kind = "search-incomplete"
    BY <1>5 DEF Loops!findAndProposeLoop, Loops!Found
  <2>. HIDE DEF o
  <2>. QED
    BY <2>1
<1>6. ASSUME Loops!LoadComplete, Loops!Touching(Loops!Loaded, {Caller}) = {}
      PROVE  Right
  <2>1. o.kind = "no-candidates"
    BY <1>6 DEF Loops!findAndProposeLoop, Loops!Proposed, Loops!Found
  <2>2. \A c \in Range(Currencies) : Loops!ObligationLoops(c) = {}
    BY <1>6, LoadedIsEnough
  <2>. HIDE DEF o
  <2>. QED
    BY <2>1, <2>2
<1>7. ASSUME Loops!LoadComplete, Loops!Touching(Loops!Loaded, {Caller}) # {}
      PROVE  Right
  <2>. DEFINE tried == [i \in DOMAIN Currencies |-> Loops!InOneCurrency(Loops!Loaded, Currencies[i])]
  <2>1. o = Loops!Gravest(tried)
    BY <1>7 DEF Loops!findAndProposeLoop, Loops!Proposed, Loops!findBestLoop
  <2>2. DOMAIN tried = 1 .. n /\ \A j \in 1 .. n : tried[j] = judged(Currencies[j])
    BY <1>2
  <2>. HIDE DEF tried, o, judged
  <2>3. PICK i \in 1 .. n : o = tried[i] /\ \A j \in 1 .. n : Loops!Precedes(tried, i, j)
    BY <1>2, <2>1, <2>2, GravestIsOne
  <2>. HIDE DEF n
  <2>4. /\ Currencies[i] \in Range(Currencies) /\ o = judged(Currencies[i]) /\ o.currency = Currencies[i]
        /\ o.kind \in Kinds
    BY <1>2, <1>3, <2>2, <2>3
  <2>5. ASSUME NEW c \in Range(Currencies)
        PROVE  \E j \in 1 .. n : c = Currencies[j]
    BY <1>2 DEF Range
  <2>6. ASSUME NEW j \in 1 .. n
        PROVE  \/ Loops!Rank(o.kind) < Loops!Rank(judged(Currencies[j]).kind)
               \/ Loops!Rank(o.kind) = Loops!Rank(judged(Currencies[j]).kind) /\ i <= j
    <3>1. Loops!Precedes(tried, i, j) /\ tried[j] = judged(Currencies[j]) /\ tried[i] = o
      BY <2>2, <2>3
    <3>. QED
      BY <3>1 DEF Loops!Precedes
  <2>7. ASSUME o.kind = "found", NEW c \in Range(Currencies), c \in Loops!Before(o.currency), Loops!Searched(c)
        PROVE  Offered(c) = {}
    <3>1. PICK j \in 1 .. n : c = Currencies[j] /\ \A k \in 1 .. j : Currencies[k] # Currencies[i]
      BY <1>2, <2>4, <2>7 DEF Loops!Before
    <3>2. ~ (i <= j)
      BY <1>2, <3>1
    <3>3. 0 < Loops!Rank(judged(c).kind)
      BY <1>4, <2>6, <2>7, <3>1, <3>2
    <3>4. judged(c).kind # "found" /\ judged(c).kind # "search-incomplete"
      BY <1>4, <3>3
    <3>5. judged(c).kind # "too-many-parties"
      BY <2>7 DEF Loops!Searched, judged
    <3>. QED
      BY <1>3, <3>4, <3>5
  <2>8. ASSUME o.kind = "blocked-by-rules", NEW c \in Range(Currencies)
        PROVE  Offered(c) = {}
    <3>1. PICK j \in 1 .. n : c = Currencies[j]
      BY <2>5
    <3>2. Loops!Rank(judged(c).kind) >= 2 \/ judged(c).kind \notin Kinds
      BY <1>4, <2>6, <2>8, <3>1
    <3>. QED
      BY <1>3, <1>4, <3>2
  <2>9. ASSUME o.kind \in {"none", "too-long"}, NEW c \in Range(Currencies)
        PROVE  Loops!ObligationLoops(c) = {}
    <3>1. PICK j \in 1 .. n : c = Currencies[j]
      BY <2>5
    <3>2. Loops!Rank(judged(c).kind) >= 3 \/ judged(c).kind \notin Kinds
      BY <1>4, <2>6, <2>9, <3>1
    <3>. QED
      BY <1>3, <1>4, <3>2
  <2>10. o.kind = "found" => Loops!LargestOf(o.loop, Offered(o.currency))
    BY <1>3, <2>4
  <2>11. o.kind = "blocked-by-rules" => Loops!ObligationLoops(o.currency) # {}
    BY <1>3, <2>4
  <2>12. o.kind = "too-long" => Loops!cycleRunsThrough(R(o.currency), Caller)
    BY <1>3, <2>4
  <2>. HIDE DEF R
  <2>. QED
    BY <2>4, <2>7, <2>8, <2>9, <2>10, <2>11, <2>12
<1>8. Right
  BY <1>5, <1>6, <1>7
<1>9. /\ \A c \in Range(Currencies) : loops[c] = Loops!ObligationLoops(c)
      /\ \A c \in Range(Currencies) : loops[c] \ Loops!Rejected(loops[c]) = Offered(c)
  BY <1>1 DEF Offered
<1>. HIDE DEF o, loops
<1>10. Loops!ProposalRight(o, loops)
  <2>1. o.kind = "found" => Loops!LargestOf(o.loop, loops[o.currency] \ Loops!Rejected(loops[o.currency]))
    BY <1>8, <1>9
  <2>2. ASSUME NEW c \in Range(Currencies)
        PROVE  LET offered == loops[c] \ Loops!Rejected(loops[c])
               IN  /\ o.kind = "found" => (c \in Loops!Before(o.currency) /\ Loops!Searched(c) => offered = {})
                   /\ o.kind = "blocked-by-rules" => (offered = {} /\ (c = o.currency => loops[c] # {}))
                   /\ o.kind \in {"none", "no-candidates", "too-long"} => loops[c] = {}
    BY <1>8, <1>9
  <2>. HIDE DEF Right
  <2>3. ASSUME NEW c \in Range(Currencies)
        PROVE  LET offered == loops[c] \ Loops!Rejected(loops[c])
               IN  CASE o.kind = "found" -> c \in Loops!Before(o.currency) /\ Loops!Searched(c) => offered = {}
                     [] o.kind = "blocked-by-rules" -> offered = {} /\ (c = o.currency => loops[c] # {})
                     [] o.kind \in {"none", "no-candidates", "too-long"} -> loops[c] = {}
                     [] OTHER -> TRUE
    BY <2>2
  <2>4. o.kind = "too-long" => Loops!cycleRunsThrough(R(o.currency), Caller)
    BY <1>8 DEF Right
  <2>. QED
    BY <1>1, <2>1, <2>3, <2>4 DEF Loops!ProposalRight
<1>. QED
  BY <1>10 DEF Loops!ProposalIsBest, o, loops

\* The answer about invoices, of the loops the solver finds.
LEMMA InvoiceAnswers ==
    ASSUME NEW cycles \in SUBSET SUBSET Pool, {} \notin cycles, NEW crowded \in BOOLEAN,
           NEW answer \in Loops!InvoiceLoop(crowded, cycles)
    PROVE  Loops!InvoiceLoopRight(answer, cycles)
<1>1. CASE crowded
  <2>1. answer = Loops!Found("incomplete", "", {})
    BY <1>1 DEF Loops!InvoiceLoop
  <2>2. answer.kind = "incomplete"
    BY <2>1 DEF Loops!Found
  <2>. QED
    BY <2>2 DEF Loops!InvoiceLoopRight
<1>2. CASE ~ crowded /\ cycles = {}
  <2>1. answer = Loops!Found("none", "", {})
    BY <1>2 DEF Loops!InvoiceLoop
  <2>2. answer.kind = "none"
    BY <2>1 DEF Loops!Found
  <2>. QED
    BY <1>2, <2>2 DEF Loops!InvoiceLoopRight
<1>3. CASE ~ crowded /\ cycles # {}
  <2>1. PICK list \in Loops!Lists(cycles) : answer = Loops!Found("loop", "", list)
    BY <1>3 DEF Loops!InvoiceLoop
  <2>2. Loops!Capped(cycles) <=> Cardinality(cycles) >= MaxCycles
    BY SearchCounts DEF Loops!Capped
  <2>3. IsFiniteSet(cycles) /\ Cardinality(cycles) \in Nat
    <3>1. IsFiniteSet(SUBSET Pool)
      BY SearchConstants, FS_SUBSET
    <3>. QED
      BY <3>1, FS_Subset, FS_CardinalityType
  <2>4. list \in SUBSET cycles /\ list # {} /\ (~ Loops!Capped(cycles) => list = cycles)
    <3>1. CASE Loops!Capped(cycles)
      <4>1. list \in SUBSET cycles /\ Cardinality(list) = MaxCycles
        BY <3>1, SearchCounts DEF Loops!Lists, Loops!kSubset
      <4>2. list # {}
        BY <4>1, SearchConstants, FS_EmptySet
      <4>. QED
        BY <3>1, <4>1, <4>2
    <3>2. CASE ~ Loops!Capped(cycles)
      BY <1>3, <3>2 DEF Loops!Lists
    <3>. QED
      BY <3>1, <3>2
  <2>5. answer.kind = "loop" /\ answer.loop = Loops!BestOf(list)
    BY <2>1, <2>4 DEF Loops!Found
  <2>6. Loops!LargestOf(Loops!BestOf(list), list)
    <3>1. list \in SUBSET SUBSET Pool /\ {} \notin list
      BY <2>4
    <3>. QED
      BY <2>4, <3>1, BestIsLargest
  <2>7. answer.loop \in cycles
    BY <2>4, <2>5, <2>6 DEF Loops!LargestOf
  <2>8. Cardinality(cycles) < MaxCycles => Loops!LargestOf(answer.loop, cycles)
    <3>1. MaxCycles \in Nat
      BY SearchConstants
    <3>. QED
      BY <2>2, <2>3, <2>4, <2>5, <2>6, <3>1
  <2>. QED
    BY <2>5, <2>7, <2>8, SearchCounts DEF Loops!InvoiceLoopRight
<1>. QED
  BY <1>1, <1>2, <1>3

\* What a party is told of its invoices, and what the demo settles.
LEMMA InvoiceLoopsAreRight ==
    ASSUME active \subseteq Pool
    PROVE  /\ \A answer \in Loops!findInvoiceLoopFor :
                Loops!InvoiceLoopRight(answer, Loops!InvoiceLoops({Caller}))
           /\ \A answer \in Loops!proposeSettlement :
                Loops!InvoiceLoopRight(answer, Loops!InvoiceLoops(Loops!partiesOf(Loops!Invoices)))
<1>. DEFINE I == Loops!Invoices
            R == Loops!Clear(Loops!Nettable(I))
            N == Loops!neighbourhoodEdges(I, Caller)
            F == Loops!Clear(Loops!Nettable(N))
            E == Loops!neighbourhoodEdges(F, Caller)
            There(starts, G) == Loops!LoopsFrom(starts, G, MinInvoices)
<1>1. I \in SUBSET Pool /\ R \in SUBSET I
  BY DEF Loops!Invoices, Loops!InCurrency, Loops!Clear, Loops!Without, Loops!Nettable
<1>2. N \in SUBSET I /\ E \in SUBSET F
  BY DEF Loops!neighbourhoodEdges
<1>3. F = R \cap N
  <2>1. \A G : Loops!Clear(Loops!Nettable(G)) \subseteq G
    BY DEF Loops!Clear, Loops!Without, Loops!Nettable
  <2>2. \A o \in N : o \in F <=> o \in R
    BY <1>2 DEF Loops!Clear, Loops!Without, Loops!Nettable
  <2>. HIDE DEF R, F, N
  <2>3. F \subseteq N
    BY <2>1 DEF F
  <2>. QED
    BY <2>2, <2>3
<1>4. /\ Loops!findInvoiceLoopFor =
           Loops!InvoiceLoop(Loops!Crowded(E), Loops!findCycles(E, MinInvoices, {Caller}))
      /\ Loops!proposeSettlement =
           Loops!InvoiceLoop(Loops!Crowded(R), Loops!findCycles(R, MinInvoices, Loops!partiesOf(R)))
  BY DEF Loops!findInvoiceLoopFor, Loops!proposeInvoiceLoop, Loops!proposeSettleCall, Loops!proposeSettlement,
         Loops!SettleableOf
<1>5. /\ Loops!InvoiceLoops({Caller}) = There({Caller}, R)
      /\ Loops!InvoiceLoops(Loops!partiesOf(I)) = There(Loops!partiesOf(I), R)
  BY DEF Loops!InvoiceLoops
<1>6. \A G : Loops!Crowded(G) \in BOOLEAN
  BY DEF Loops!Crowded
<1>7. N = Loops!neighbourhoodEdges(I, Caller) /\ E = Loops!neighbourhoodEdges(F, Caller)
  OBVIOUS
<1>8. R \subseteq I
  BY <1>1
<1>9. Loops!partiesOf(R) \subseteq Loops!partiesOf(I)
  <2>. HIDE DEF R, I
  <2>. QED
    BY <1>8 DEF Loops!partiesOf
<1>. HIDE DEF I, R, N, F, E
<1>10. R \in SUBSET Pool /\ E \in SUBSET R /\ F \in SUBSET R /\ IsFiniteSet(R) /\ IsFiniteSet(E)
  <2>1. R \in SUBSET Pool /\ E \in SUBSET R /\ F \in SUBSET R
    BY <1>1, <1>2, <1>3
  <2>. QED
    BY <2>1, SearchConstants, FS_Subset
<1>11. MinInvoices \in Nat \ {0}
  BY SearchConstants
<1>12. There({Caller}, E) = There({Caller}, R)
  <2>1. ASSUME NEW c \in There({Caller}, R)
        PROVE  c \in There({Caller}, E)
    <3>1. c \in There({Caller}, I) /\ c \subseteq R
      BY <1>1, <1>11, <2>1, LoopsOfRows
    <3>2. c \subseteq N
      BY <1>7, <1>11, <3>1, NeighbourhoodKeepsLoops
    <3>3. c \subseteq F
      BY <1>3, <3>1, <3>2
    <3>4. c \in There({Caller}, F)
      BY <1>10, <1>11, <2>1, <3>3, LoopsOfRows
    <3>5. c \subseteq E
      BY <1>7, <1>11, <3>4, NeighbourhoodKeepsLoops
    <3>. QED
      BY <1>2, <1>11, <3>4, <3>5, LoopsOfRows
  <2>2. ASSUME NEW c \in There({Caller}, E)
        PROVE  c \in There({Caller}, R)
    BY <1>10, <1>11, <2>2, LoopsOfRows
  <2>. HIDE DEF There
  <2>. QED
    BY <2>1, <2>2
<1>13. There(Loops!partiesOf(R), R) = There(Loops!partiesOf(I), R)
  <2>1. ASSUME NEW n \in MinInvoices .. MaxLength, NEW l \in [1 .. n -> R]
        PROVE  l[1].debtor \in Loops!partiesOf(R)
    <3>1. l[1] \in R
      BY SearchConstants
    <3>. QED
      BY <3>1 DEF Loops!partiesOf
  <2>2. \A c : c \in There(Loops!partiesOf(R), R) <=> c \in There(Loops!partiesOf(I), R)
    BY <1>9, <2>1, LoopsByDefinition
  <2>. HIDE DEF There
  <2>. QED
    BY <2>2
<1>14. ASSUME NEW starts
       PROVE  There(starts, R) \in SUBSET SUBSET Pool /\ {} \notin There(starts, R)
  <2>1. \A c : c \in There(starts, R) => c \subseteq R /\ c # {}
    BY <1>11, LoopsOfRows
  <2>. HIDE DEF There
  <2>. QED
    BY <1>10, <2>1
<1>15. /\ Loops!findCycles(E, MinInvoices, {Caller}) = There({Caller}, E)
       /\ Loops!findCycles(R, MinInvoices, Loops!partiesOf(R)) = There(Loops!partiesOf(R), R)
  BY <1>10, <1>11, CyclesAreLoops
<1>. HIDE DEF There
<1>16. ASSUME NEW answer \in Loops!findInvoiceLoopFor
       PROVE  Loops!InvoiceLoopRight(answer, Loops!InvoiceLoops({Caller}))
  <2>1. answer \in Loops!InvoiceLoop(Loops!Crowded(E), There({Caller}, R))
    BY <1>4, <1>12, <1>15
  <2>. QED
    BY <1>5, <1>6, <1>14, <2>1, InvoiceAnswers
<1>17. ASSUME NEW answer \in Loops!proposeSettlement
       PROVE  Loops!InvoiceLoopRight(answer, Loops!InvoiceLoops(Loops!partiesOf(I)))
  <2>1. answer \in Loops!InvoiceLoop(Loops!Crowded(R), There(Loops!partiesOf(I), R))
    BY <1>4, <1>13, <1>15
  <2>. QED
    BY <1>5, <1>6, <1>14, <2>1, InvoiceAnswers
<1>. QED
  BY <1>16, <1>17 DEF I

\* Whatever rows come and go, whoever is flagged and whatever is restricted:
\* the party is proposed the largest of all its loops that every party allows,
\* and told that there is none only when there is none.
THEOREM LoopsCorrect == ServicesSpec => []BestLoopFound
<1>. DEFINE Inv == part = "loops" => active \subseteq Pool
<1>1. ServicesInit => Inv
  BY DEF ServicesInit, Loops!Init
<1>2. Inv /\ [ServicesNext]_<<part, servicesVars>> => Inv'
  <2>1. ASSUME active \subseteq Pool, Loops!Next
        PROVE  active' \subseteq Pool
    BY <2>1 DEF Loops!Next, Loops!Appear, Loops!Vanish, Loops!Flag, Loops!SetRules
  <2>2. ASSUME Inv, UNCHANGED <<part, servicesVars>>
        PROVE  Inv'
    BY <2>2 DEF servicesVars, loopsVars
  <2>3. ASSUME Inv, ServicesNext
        PROVE  Inv'
    BY <2>1, <2>3 DEF ServicesNext
  <2>. QED
    BY <2>2, <2>3
<1>3. Inv => BestLoopFound
  BY ProposalsAreBest, InvoiceLoopsAreRight DEF BestLoopFound, Loops!BestLoopFound
<1>. QED
  BY <1>1, <1>2, <1>3, PTL DEF ServicesSpec
=============================================================================
