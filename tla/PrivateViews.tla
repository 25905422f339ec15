----------------------------- MODULE PrivateViews ----------------------------
(***************************************************************************)
(* The pages behind a share link, which load what one party may see and    *)
(* show it only while the session is that party's.  A load waits several   *)
(* times for the server and the chain; the session may change meanwhile,   *)
(* and the load goes on.  What is set between two awaits is shown at once. *)
(***************************************************************************)
EXTENDS Naturals

CONSTANTS
    Viewers,        \* the parties that sign in
    MaxLoads,       \* bound on the loads a page starts
    NoViewer

Certificate == "CertificateLanding"
Invoice == "LandingClient"
Proposal == "ProposalLanding"

VARIABLES
    page,           \* which of the pages it is
    session,        \* the session's address in the tab
    loads,          \* each load: for whom, and what it waits for
    started,        \* how many have been started
    stage,          \* the phase of the page
    loadedFor,      \* whom the page believes it has loaded for ("me")
    content         \* whose payload it holds

viewVars == <<page, session, loads, started, stage, loadedFor, content>>

NoLoad == [for |-> NoViewer, awaits |-> "none"]

Init ==
    /\ page \in {Certificate, Invoice, Proposal}
    /\ session = NoViewer
    /\ loads = [k \in 1..MaxLoads |-> NoLoad] /\ started = 0
    /\ stage = "signin" /\ loadedFor = NoViewer /\ content = NoViewer

Await(k, what) == loads' = [loads EXCEPT ![k].awaits = what]
Over(k) == Await(k, "nothing")

\* load, up to its first await: the certificate's page takes the session for
\* its own at once, and a retry of a lagging record is quiet.
StartLoad(v, quiet) ==
    /\ started < MaxLoads /\ started' = started + 1
    /\ loads' = [loads EXCEPT ![started + 1] = [for |-> v, awaits |-> "server"]]
    /\ stage' = IF quiet THEN stage ELSE "loading"
    /\ loadedFor' = IF page = Certificate THEN v ELSE loadedFor
    /\ UNCHANGED content

-----------------------------------------------------------------------------
\* The session is another's, or nobody's, and the effect of the page runs.
SessionChanges(v) ==
    /\ v # session /\ session' = v
    /\ IF v = NoViewer
       THEN /\ stage' = "signin" /\ loadedFor' = NoViewer /\ content' = NoViewer
            /\ UNCHANGED <<loads, started>>
       ELSE StartLoad(v, FALSE)
    /\ UNCHANGED page

\* After signing, applying, declining or disputing the certificate's page
\* loads again for "me", the proposal's for the session, and the certificate's
\* once more a few seconds after a load that found the record behind.
LoadAgain ==
    /\ \/ page = Certificate /\ stage = "loaded" /\ loadedFor # NoViewer /\ StartLoad(loadedFor, FALSE)
       \/ page = Proposal /\ stage = "loaded" /\ session # NoViewer /\ StartLoad(session, FALSE)
    /\ UNCHANGED <<page, session>>

RetryQuietly(k) ==
    /\ page = Certificate /\ loads[k].awaits = "nothing"
    /\ StartLoad(loads[k].for, TRUE)
    /\ UNCHANGED <<page, session>>

\* The server refuses, the payload does not parse or a check fails.
LoadFails(k) ==
    /\ loads[k].awaits \in {"server", "document", "checks"}
    /\ Over(k) /\ stage' = "refused"
    /\ UNCHANGED <<page, session, started, loadedFor, content>>

\* The link of an invoice has come: its payload is set with the party it was
\* loaded for, and the document with the terms is asked for.
LinkLoaded(k) ==
    /\ page = Invoice /\ loads[k].awaits = "server"
    /\ Await(k, "document")
    /\ loadedFor' = loads[k].for /\ content' = loads[k].for /\ stage' = "loading"
    /\ UNCHANGED <<page, session, started>>

ServerAnswered(k) ==
    /\ \/ page # Invoice /\ loads[k].awaits = "server"
       \/ page = Invoice /\ loads[k].awaits = "document"
    /\ Await(k, "checks")
    /\ UNCHANGED <<page, session, started, stage, loadedFor, content>>

\* The checks made in the browser pass and the payload is set, with the party
\* it was loaded for, or without: the certificate's page set that when it
\* began, and a closed proposal is shown without its terms.
ShownForWhomever(k) ==
    /\ loads[k].awaits = "checks"
    /\ Over(k) /\ content' = loads[k].for /\ stage' = "loaded"
    /\ UNCHANGED <<page, session, started, loadedFor>>

Checked(k) ==
    /\ loads[k].awaits = "checks"
    /\ Over(k) /\ content' = loads[k].for
    /\ \/ stage' = "loaded" /\ loadedFor' = IF page = Certificate THEN loadedFor ELSE loads[k].for
       \/ page = Proposal /\ stage' = "closed" /\ UNCHANGED loadedFor
    /\ UNCHANGED <<page, session, started>>

Next ==
    \/ \E v \in Viewers \union {NoViewer} : SessionChanges(v)
    \/ LoadAgain
    \/ \E k \in 1..MaxLoads : RetryQuietly(k) \/ LoadFails(k) \/ LinkLoaded(k) \/ ServerAnswered(k) \/ Checked(k)

-----------------------------------------------------------------------------
\* SessionBound: the payload is rendered while it was loaded for the session.
Rendered == stage = "loaded" /\ content # NoViewer /\ session # NoViewer /\ loadedFor = session

\* An invoice page shows one party's payload to no other, in whatever order
\* the answers of an earlier session's load and of this one's come.
OwnInvoiceShown == page = Invoice /\ Rendered => content = session

\* "a leftover party-A payload can't sit on screen after the session becomes
\* party B" (SessionBound), on every page that uses it.
NoLeftoverPayload == Rendered => content = session
=============================================================================
