------------------------------ MODULE LoopSearch ------------------------------
(***************************************************************************)
(* Which loop is proposed to a party, and what it is told when there is    *)
(* none: the bounded load of its neighbourhood, the enumeration of cycles  *)
(* by the solver, and the choice of the largest; for obligations, for the  *)
(* invoices on chain, and for the demo's.  Rows come and go, parties are   *)
(* flagged and restrict whom they net with, and the party may search at    *)
(* any time.  Rows, edges and cycles are sets: which of equal loops is     *)
(* taken, and which cycles a full list holds, is left open.                *)
(***************************************************************************)
EXTENDS LoopShape, FiniteSets, FiniteSetsExt

CONSTANTS
    Pool,           \* the rows there may be: id, debtor, creditor, currency, remaining, ripe
    Caller,         \* who searches
    Currencies,     \* in code order; the invoices are those of the first
    Rulings,        \* the allowlists parties may set: [party, allowed]
    Flaggable,      \* parties that screening may flag
    MinLength,      \* MIN_LOOP_LENGTH
    MinInvoices,    \* INVOICE_MIN_CYCLE_LENGTH
    MaxLength,      \* MAX_LOOP_LENGTH
    MaxVertices,    \* SEARCH_MAX_VERTICES
    MaxCycles,      \* SEARCH_MAX_CYCLES, and DEFAULT_MAX_CYCLES of the solver
    PageSize, MaxRows, MaxQueries, MaxQueryParties  \* the caps of the load

ConstantsAssumption ==
    /\ IsFiniteSet(Pool) /\ \A o \in Pool : o.remaining \in Nat
    /\ Len(Currencies) \in Nat \ {0} /\ DOMAIN Currencies = 1..Len(Currencies)
    /\ MaxLength \in Nat /\ {MinLength, MinInvoices} \subseteq 2..MaxLength
    /\ MaxCycles \in Nat \ {0}

VARIABLES
    active,         \* the rows that are active and not locked
    flagged,        \* parties that do not pass screening
    rules           \* the allowlist that is on, if any

searchVars == <<active, flagged, rules>>

NoRules == [party |-> Caller, allowed |-> {}, on |-> FALSE]

Init == active = {} /\ flagged = {} /\ rules = NoRules

-----------------------------------------------------------------------------
\* Graphs are sets of edges.
Forward(edges) == {<<e.debtor, e.creditor>> : e \in edges}
Backward(edges) == {<<e.creditor, e.debtor>> : e \in edges}
partiesOf(edges) == {e.debtor : e \in edges} \cup {e.creditor : e \in edges}

\* distancesFrom: the parties within each number of steps of one.
Wider(steps, near) == near \cup {s[2] : s \in {t \in steps : t[1] \in near}}
Ball(steps, start) ==
    LET near[depth \in Nat] == IF depth = 0 THEN {start} ELSE Wider(steps, near[depth - 1])
    IN near

\* Mutant of neighbourhoodEdges: an edge in the middle of a longest loop is left out.
neighbourhoodEdgesShort(edges, me) ==
    LET out == Ball(Forward(edges), me)
        back == Ball(Backward(edges), me)
    IN {e \in edges : \E d \in 0..(MaxLength - 2) : e.debtor \in out[d] /\ e.creditor \in back[MaxLength - 2 - d]}

\* out + 1 + back <= maxLength.
neighbourhoodEdges(edges, me) ==
    LET out == Ball(Forward(edges), me)
        back == Ball(Backward(edges), me)
    IN {e \in edges : \E d \in 0..(MaxLength - 1) : e.debtor \in out[d] /\ e.creditor \in back[MaxLength - 1 - d]}

Reachable(edges, start) == Ball(Forward(edges), start)[Cardinality(partiesOf(edges))]
cycleRunsThrough(edges, me) == \E e \in edges : e.creditor = me /\ e.debtor \in Reachable(edges, me)

-----------------------------------------------------------------------------
\* The solver: the walks a depth-first search makes within the strongly
\* connected component of their first edge, which end where they began and
\* meet no other party again.
End(walk) == walk[Len(walk)].creditor
Closed(walk) == End(walk) = walk[1].debtor
Visited(walk) == {walk[1].debtor} \cup {e.creditor : e \in Range(walk)}
InComponent(edges, party, e) == party \in Reachable(edges, e.creditor)
MayFollow(edges, walk, e) ==
    /\ e.debtor = End(walk) /\ InComponent(edges, walk[1].debtor, e)
    /\ e.creditor = walk[1].debtor \/ e.creditor \notin Visited(walk)

startingEdges(edges, roots) == {e \in edges : e.debtor \in roots /\ InComponent(edges, e.debtor, e)}
Longer(edges, walks) ==
    UNION {{Append(walk, e) : e \in {x \in edges : MayFollow(edges, walk, x)}} :
           walk \in {w \in walks : ~ Closed(w)}}
\* The walks of n + 1 edges.
Walks(edges, roots) ==
    LET walks[n \in Nat] ==
            IF n = 0 THEN {<<e>> : e \in startingEdges(edges, roots)} ELSE Longer(edges, walks[n - 1])
    IN walks

\* The cycles found from requiredParty, or from anybody when roots has them
\* all.  recordIfNew: one found from another of its edges is the same.
ClosedWalks(edges, least, roots) ==
    {walk \in UNION {Walks(edges, roots)[n - 1] : n \in least..MaxLength} : Closed(walk)}
findCycles(edges, least, roots) == {Range(walk) : walk \in ClosedWalks(edges, least, roots)}

\* The list of cycles is full, and the lists the search may then end with.
Capped(cycles) == Cardinality(cycles) >= MaxCycles
Lists(cycles) == IF Capped(cycles) THEN kSubset(MaxCycles, cycles) ELSE {cycles}

wNetOf(loop) == Min({e.remaining : e \in loop})

\* One of those with the largest wNet.
BestOf(loops) == CHOOSE best \in loops : \A l \in loops : wNetOf(l) <= wNetOf(best)

-----------------------------------------------------------------------------
\* What a search may net of the rows of the database.
InCurrency(rows, c) == {o \in rows : o.currency = c}
isNettableNow(o) == o.remaining > 0 /\ o.ripe
Nettable(rows) == {o \in rows : isNettableNow(o)}
Without(parties, rows) == {o \in rows : {o.debtor, o.creditor} \cap parties = {}}
Clear(rows) == Without(flagged, rows)

\* The parties that are screened for a search of obligations: those of the
\* caller's neighbourhoods.  Of those further off it is not known that they
\* are flagged, and their rows stay.
neighbourhoodParties(rows) ==
    UNION {partiesOf(neighbourhoodEdges(InCurrency(Nettable(rows), c), Caller)) : c \in Range(Currencies)}
excludedParties(rows) == flagged \cap neighbourhoodParties(rows)
Usable(rows) == Without(excludedParties(rows), Nettable(rows))

\* Whom a party's allowlist keeps out of its loops.
loopRejectedBy(loop) ==
    LET members == partiesOf(loop)
    IN rules.on /\ rules.party \in members /\ ~ (members \ {rules.party} \subseteq rules.allowed)

\* loadCallerNeighbourhood: from the caller outward, a currency at a time.
Depth == MaxLength \div 2
Sphere(rows, depth) ==
    LET near == Ball(Forward(rows) \cup Backward(rows), Caller) IN near[depth] \ near[depth - 1]
Touching(rows, vs) == {o \in rows : {o.debtor, o.creditor} \cap vs # {}}

\* The queries of a load: the rows each asks of, and for whom.
Queries ==
    LET rows == Nettable(active)
        further == {[rows |-> InCurrency(rows, c), for |-> Sphere(InCurrency(rows, c), d)] :
                    c \in Range(Currencies), d \in 1..Depth}
    IN {[rows |-> rows, for |-> {Caller}]} \cup {q \in further : q.for # {}}

Scanned(q) == Cardinality(Touching(q.rows, q.for))
\* A last page that is full is followed by another.
Pages(q) == Scanned(q) \div PageSize + 1
LoadComplete ==
    /\ \A q \in Queries : Cardinality(q.for) <= MaxQueryParties
    /\ MapThenSumSet(Scanned, Queries) < MaxRows
    /\ MapThenSumSet(Pages, Queries) <= MaxQueries
Loaded == UNION {Touching(q.rows, q.for) : q \in Queries}

-----------------------------------------------------------------------------
\* What the search of one currency comes to.
Found(kind, c, loops) == [kind |-> kind, currency |-> c, loop |-> IF loops = {} THEN {} ELSE BestOf(loops)]
Allowed(loops) == {l \in loops : ~ loopRejectedBy(l)}

Judged(c, all, crowded, cycles, allowed) ==
    CASE crowded -> Found("too-many-parties", c, {})
      [] ~ crowded /\ Capped(cycles) -> Found("search-incomplete", c, {})
      [] ~ crowded /\ ~ Capped(cycles) /\ allowed # {} -> Found("found", c, allowed)
      [] ~ crowded /\ ~ Capped(cycles) /\ cycles # {} /\ allowed = {} -> Found("blocked-by-rules", c, {})
      [] OTHER -> Found(IF cycleRunsThrough(all, Caller) THEN "too-long" ELSE "none", c, {})

Crowded(edges) == Cardinality(partiesOf(edges)) > MaxVertices
Weighed(c, all, edges, cycles) == Judged(c, all, Crowded(edges), cycles, Allowed(cycles))
Sought(c, all, edges) == Weighed(c, all, edges, findCycles(edges, MinLength, {Caller}))
InNeighbourhood(c, all) == Sought(c, all, neighbourhoodEdges(all, Caller))
InOneCurrency(rows, c) == InNeighbourhood(c, InCurrency(Usable(rows), c))

\* The first currency with a loop wins; without one, the gravest reason.
Rank(kind) ==
    CASE kind \in {"found", "search-incomplete"} -> 0
      [] kind = "too-many-parties" -> 1
      [] kind = "blocked-by-rules" -> 2
      [] kind = "too-long" -> 3
      [] OTHER -> 4
Precedes(tried, i, j) ==
    \/ Rank(tried[i].kind) < Rank(tried[j].kind)
    \/ Rank(tried[i].kind) = Rank(tried[j].kind) /\ i <= j
Gravest(tried) == tried[CHOOSE i \in DOMAIN tried : \A j \in DOMAIN tried : Precedes(tried, i, j)]
findBestLoop(rows) == Gravest([i \in DOMAIN Currencies |-> InOneCurrency(rows, Currencies[i])])

\* findAndProposeLoop, to the end of its first search.
Proposed(loaded) ==
    IF Touching(loaded, {Caller}) = {} THEN Found("no-candidates", "", {}) ELSE findBestLoop(loaded)
findAndProposeLoop ==
    IF LoadComplete THEN Proposed(Loaded) ELSE Found("search-incomplete", "", {})

\* The invoices of the registry: findInvoiceLoopFor, in the neighbourhood of
\* all that are registered first, and of those that can be netted then; and
\* proposeSettlement, the best loop of anybody, whose solver throws instead.
\* Each as the set of its possible answers.
Invoices == InCurrency(active, Currencies[1])
InvoiceLoop(crowded, cycles) ==
    CASE crowded -> {Found("incomplete", "", {})}
      [] ~ crowded /\ cycles = {} -> {Found("none", "", {})}
      [] OTHER -> {Found("loop", "", list) : list \in Lists(cycles)}
proposeSettleCall(edges, roots) == InvoiceLoop(Crowded(edges), findCycles(edges, MinInvoices, roots))
proposeInvoiceLoop(edges) == proposeSettleCall(neighbourhoodEdges(edges, Caller), {Caller})
findInvoiceLoopFor == proposeInvoiceLoop(Clear(Nettable(neighbourhoodEdges(Invoices, Caller))))
SettleableOf(edges) == proposeSettleCall(edges, partiesOf(edges))
proposeSettlement == SettleableOf(Clear(Nettable(Invoices)))

-----------------------------------------------------------------------------
\* A row is agreed on, or released; or it is locked by a certificate, closed,
\* disputed, or netted out.
Appear(o) == o \notin active /\ active' = active \cup {o} /\ UNCHANGED <<flagged, rules>>
Vanish(o) == o \in active /\ active' = active \ {o} /\ UNCHANGED <<flagged, rules>>
Flag(p) == flagged' = {p} /\ UNCHANGED <<active, rules>>
SetRules(r) == rules' = [party |-> r.party, allowed |-> r.allowed, on |-> TRUE] /\ UNCHANGED <<active, flagged>>

Next ==
    \/ \E o \in Pool : Appear(o) \/ Vanish(o)
    \/ \E p \in Flaggable : Flag(p)
    \/ \E r \in Rulings : SetRules(r)

-----------------------------------------------------------------------------
\* The loops there are, by their definition, told from one of the parties of
\* starts: simple cycles of rows that can be netted, of parties that are
\* clear, whatever was loaded or searched.
LoopsFrom(starts, rows, least) ==
    {Range(l) : l \in {s \in UNION {[1..n -> rows] : n \in least..MaxLength} :
                        SimpleLoop(s) /\ s[1].debtor \in starts}}

ShortLoops(c) == LoopsFrom({Caller}, Nettable(InCurrency(active, c)), MinLength)
ObligationLoops(c) == LoopsFrom({Caller}, Clear(Nettable(InCurrency(active, c))), MinLength)
InvoiceLoops(starts) == LoopsFrom(starts, Clear(Nettable(Invoices)), MinInvoices)
Rejected(loops) == {l \in loops : loopRejectedBy(l)}
LargestOf(l, loops) == l \in loops /\ \A other \in loops : wNetOf(other) <= wNetOf(l)

Before(c) == {Currencies[i] : i \in {j \in DOMAIN Currencies : \A k \in 1..j : Currencies[k] # c}}
Searched(c) == InOneCurrency(Loaded, c).kind # "too-many-parties"

\* The flagged parties the caller could be on a loop with, if they were clear.
FlaggedPartners ==
    {p \in flagged : \E c \in Range(Currencies) : \E l \in ShortLoops(c) : p \in partiesOf(l)}

\* What a search proposes is the largest loop that may be proposed to the
\* party, of all there are and not only of those it loaded, in the first
\* currency it could search that has one; and what it says when it proposes
\* none is so: there is no loop of parties that are clear, or none that all of
\* them allow.  When it says that a loop is too long, there is a cycle, which
\* none of the caller's flagged partners is on; a flagged party too far from it
\* for any loop may be.
ProposalRight(outcome, loops) ==
    LET Offered(c) == loops[c] \ Rejected(loops[c])
    IN /\ outcome.kind = "found" => LargestOf(outcome.loop, Offered(outcome.currency))
       /\ \A c \in Range(Currencies) :
            CASE outcome.kind = "found" -> c \in Before(outcome.currency) /\ Searched(c) => Offered(c) = {}
              [] outcome.kind = "blocked-by-rules" -> Offered(c) = {} /\ (c = outcome.currency => loops[c] # {})
              [] outcome.kind \in {"none", "no-candidates", "too-long"} -> loops[c] = {}
              [] OTHER -> TRUE
       /\ outcome.kind = "too-long" =>
            cycleRunsThrough(Without(FlaggedPartners, Nettable(InCurrency(active, outcome.currency))), Caller)
ProposalIsBest == ProposalRight(findAndProposeLoop, [c \in Range(Currencies) |-> ObligationLoops(c)])

\* The invoice loop a party is shown, and the one the demo settles, are loops
\* that settle accepts, and the largest unless the solver gave up counting;
\* and there is none when it says so.
InvoiceLoopRight(answer, loops) ==
    CASE answer.kind = "loop" -> IF Cardinality(loops) < MaxCycles
                                 THEN LargestOf(answer.loop, loops) ELSE answer.loop \in loops
      [] answer.kind = "none" -> loops = {}
      [] OTHER -> TRUE
BestLoopFound ==
    /\ ProposalIsBest
    /\ \A answer \in findInvoiceLoopFor : InvoiceLoopRight(answer, InvoiceLoops({Caller}))
    /\ \A answer \in proposeSettlement : InvoiceLoopRight(answer, InvoiceLoops(partiesOf(Invoices)))
=============================================================================
