-------------------------- MODULE CertificatesProofs -------------------------
(***************************************************************************)
(* Theorems about Certificates, for every set of obligations, parties and  *)
(* certificates and any number of calls and searches at once.              *)
(***************************************************************************)
EXTENDS Certificates, FiniteSetTheorems, Sums, TLAPS

\* Among the obligations of a loop, one has the least of any quantity.
LEMMA LeastInLoop ==
    ASSUME NEW L \in Loops, NEW quantity, \A o \in L : quantity[o] \in Nat
    PROVE  \E o \in L : \A x \in L : quantity[o] <= quantity[x]
<1>1. PICK order \in [1 .. Cardinality(L) -> L] : L = {order[i] : i \in DOMAIN order}
  BY DEF Loops, IsLoop
<1>. DEFINE n == Cardinality(L)
            least(m) == \E i \in 1 .. m : \A j \in 1 .. m :
                            quantity[order[i]] <= quantity[order[j]]
<1>2. n \in {2, 3, 4, 5} /\ \A i \in 1 .. n : order[i] \in L
  BY DEF Loops, IsLoop
<1>. HIDE DEF n
<1>3. ASSUME NEW m \in 1 .. 4, m < n, least(m)
      PROVE  least(m + 1)
  <2>1. PICK i \in 1 .. m : \A j \in 1 .. m : quantity[order[i]] <= quantity[order[j]]
    BY <1>3
  <2>2. /\ quantity[order[i]] \in Nat /\ quantity[order[m + 1]] \in Nat
        /\ \A j \in 1 .. m : quantity[order[j]] \in Nat
    BY <1>2, <1>3
  <2>3. CASE quantity[order[i]] <= quantity[order[m + 1]]
    <3>1. i \in 1 .. m + 1
      OBVIOUS
    <3>2. \A j \in 1 .. m + 1 : quantity[order[i]] <= quantity[order[j]]
      BY <2>1, <2>3
    <3>. QED
      BY <3>1, <3>2
  <2>4. CASE quantity[order[m + 1]] < quantity[order[i]]
    <3>1. \A j \in 1 .. m + 1 : quantity[order[m + 1]] <= quantity[order[j]]
      BY <2>1, <2>2, <2>4
    <3>2. m + 1 \in 1 .. m + 1
      OBVIOUS
    <3>. QED
      BY <3>1, <3>2
  <2>5. \/ quantity[order[i]] <= quantity[order[m + 1]]
        \/ quantity[order[m + 1]] < quantity[order[i]]
    BY <2>2
  <2>. HIDE DEF least
  <2>. QED
    BY <2>3, <2>4, <2>5
<1>4. least(1)
  BY <1>2
<1>5. least(2)
  BY <1>2, <1>3, <1>4
<1>6. n # 2 => least(3)
  BY <1>2, <1>3, <1>5
<1>7. n \notin {2, 3} => least(4)
  BY <1>2, <1>3, <1>6
<1>8. n \notin {2, 3, 4} => least(5)
  BY <1>2, <1>3, <1>7
<1>9. PICK i \in 1 .. n : \A j \in 1 .. n : quantity[order[i]] <= quantity[order[j]]
  BY <1>2, <1>5, <1>6, <1>7, <1>8
<1>10. \A x \in L : \E j \in 1 .. n : x = order[j]
  BY <1>1 DEF n
<1>. QED
  BY <1>2, <1>9, <1>10

\* insertCertificate: the amount a certificate nets is one every obligation of
\* its loop can bear.
LEMMA NetAmount ==
    ASSUME NEW L \in Loops, NEW seen, \A o \in L : seen[o].remaining \in Nat
    PROVE  LET wNet == Min({seen[o].remaining : o \in L})
           IN  wNet \in Nat /\ \A o \in L : wNet <= seen[o].remaining
<1>. DEFINE S == {seen[o].remaining : o \in L}
            quantity == [o \in L |-> seen[o].remaining]
<1>1. PICK o \in L : \A x \in L : quantity[o] <= quantity[x]
  <2>. HIDE DEF quantity
  <2>1. \A o \in L : quantity[o] \in Nat
    BY DEF quantity
  <2>. QED
    BY <2>1, LeastInLoop
<1>2. \E m \in S : \A y \in S : m <= y
  BY <1>1
<1>3. Min(S) \in S /\ \A y \in S : Min(S) <= y
  BY <1>2 DEF Min
<1>. QED
  BY <1>3

LEMMA LoopsHold ==
    \A L \in Loops : L \subseteq Obligations /\ L # {}
BY FS_EmptySet, SMT DEF Loops, IsLoop
-----------------------------------------------------------------------------
\* What an attempt of a search leaves behind, whatever loop it settles on.
LEMMA AttemptTypeOK ==
    ASSUME NEW s \in Searches, NEW seen \in Basis, NEW excluded \in SUBSET Obligations,
           NEW at \in Nat, NEW count \in Nat,
           search \in [Searches -> Search \cup {Idle}],
           Attempt(s, seen, excluded, at, count)
    PROVE  search' \in [Searches -> Search \cup {Idle}]
<1>1. CASE search' = [search EXCEPT ![s] = Idle]
  BY <1>1
<1>2. ASSUME NEW loop \in Candidates(seen, excluded),
             search' = [search EXCEPT ![s] =
                 [pc |-> "check", seen |-> seen, excluded |-> excluded, at |-> at,
                  count |-> count, loop |-> loop, left |-> loop, marking |-> {},
                  stale |-> FALSE]]
      PROVE  search' \in [Searches -> Search \cup {Idle}]
  <2>1. loop \in Loops /\ loop \subseteq Obligations
    BY LoopsHold DEF Candidates
  <2>2. [pc |-> "check", seen |-> seen, excluded |-> excluded, at |-> at,
         count |-> count, loop |-> loop, left |-> loop, marking |-> {},
         stale |-> FALSE] \in Search
    BY <2>1 DEF Search
  <2>. QED
    BY <1>2, <2>2
<1>. QED
  BY <1>1, <1>2 DEF Attempt

\* What a call or a search is, told by where it stands.
LEMMA ProcessTypes ==
    ASSUME TypeOK
    PROVE  /\ \A r \in Requests :
                 /\ req[r].pc \in {"query", "entries", "expire", "act"} => req[r] \in Call
                 /\ req[r].pc = "dispute" => req[r] \in DisputeCall
           /\ \A s \in Searches :
                 search[s].pc \in {"check", "mark", "reload"} => search[s] \in Search
BY DEF TypeOK, Call, DisputeCall, Search, Idle

LEMMA SnapshotType ==
    ASSUME TypeOK
    PROVE  Snapshot \in Basis
BY ConstantsAssumption DEF TypeOK, Snapshot, Basis, Nothing, Row, Versions

LEMMA FinalizedType ==
    ASSUME TypeOK, NEW c \in CertificateIds, NEW moved, certs[c].status # "none"
    PROVE  Finalized(c, moved) \in [Obligations -> Row]
<1>. SUFFICES ASSUME NEW o \in Obligations
              PROVE  Finalized(c, moved)[o] \in Row
  BY DEF Finalized
<1>1. rows[o] \in Row /\ c \in Versions
  BY DEF TypeOK, Versions
<1>2. [rows[o] EXCEPT !.status = "out_of_sync"] \in Row
  BY <1>1 DEF Row
<1>3. CASE o \in certs[c].loop
  <2>. DEFINE rest == certs[c].before[o].remaining - certs[c].wNet
  <2>1. rest \in Nat
    BY <1>3 DEF TypeOK, Certificate, Basis, Built
  <2>. HIDE DEF rest
  <2>2. [rows[o] EXCEPT !.by = c, !.remaining = rest] \in Row
    BY <1>1, <2>1 DEF Row
  <2>. QED
    BY <1>1, <1>2, <2>2 DEF Finalized, rest
<1>4. CASE o \notin certs[c].loop
  BY <1>1, <1>4 DEF Finalized
<1>. QED
  BY <1>3, <1>4

-----------------------------------------------------------------------------
(* How certificates change.                                                *)

\* Certificates change in their types and none is undone.
CertificatesKept ==
    /\ certs' \in [CertificateIds -> Certificate]
    /\ \A d \in CertificateIds : certs'[d].status # "none" => Built(certs'[d])
    /\ \A d \in CertificateIds : certs[d].status # "none" => certs'[d].status # "none"

\* The certificates of C leave the open statuses.
Closes(C, status) ==
    /\ \A c \in C : Open(c)
    /\ certs' = [c \in CertificateIds |->
                    IF c \in C THEN [certs[c] EXCEPT !.status = status, !.locked = {}]
                               ELSE certs[c]]

LEMMA UnchangedKept == TypeOK /\ UNCHANGED certs => CertificatesKept
BY DEF TypeOK, CertificatesKept, Built

LEMMA ClosesFields ==
    ASSUME TypeOK, NEW C \in SUBSET CertificateIds, NEW status \in ClosedStatuses,
           Closes(C, status), NEW c \in CertificateIds
    PROVE  /\ certs'[c] \in Certificate
           /\ certs'[c].loop = certs[c].loop
           /\ certs'[c].wNet = certs[c].wNet
           /\ certs'[c].before = certs[c].before
           /\ certs'[c].deadline = certs[c].deadline
           /\ c \in C => certs'[c].status = status /\ certs'[c].locked = {}
           /\ c \notin C => certs'[c] = certs[c]
<1>1. certs[c] \in Certificate
  BY DEF TypeOK
<1>2. CASE c \in C
  <2>1. certs'[c] = [certs[c] EXCEPT !.status = status, !.locked = {}]
    BY <1>2 DEF Closes
  <2>. QED
    BY <1>1, <1>2, <2>1 DEF Certificate
<1>3. CASE c \notin C
  BY <1>1, <1>3 DEF Closes
<1>. QED
  BY <1>2, <1>3

LEMMA ClosesKept ==
    ASSUME TypeOK, NEW C \in SUBSET CertificateIds, NEW status \in ClosedStatuses,
           Closes(C, status)
    PROVE  CertificatesKept
<1>1. ASSUME NEW c \in CertificateIds
      PROVE  certs'[c].status # "none" <=> certs[c].status # "none"
  <2>1. CASE c \in C
    <3>1. certs'[c].status = status
      BY <2>1, ClosesFields
    <3>2. certs[c].status # "none"
      BY <2>1 DEF Closes, Open, OpenStatuses
    <3>. QED
      BY <3>1, <3>2 DEF ClosedStatuses
  <2>2. CASE c \notin C
    BY <2>2, ClosesFields
  <2>. QED
    BY <2>1, <2>2
<1>2. certs' \in [CertificateIds -> Certificate]
  BY ClosesFields DEF Closes
<1>3. ASSUME NEW c \in CertificateIds, certs[c].status # "none"
      PROVE  Built(certs'[c])
  <2>1. Built(certs[c])
    BY <1>3 DEF TypeOK
  <2>. QED
    BY <2>1, ClosesFields DEF Built
<1>. QED
  BY <1>1, <1>2, <1>3 DEF CertificatesKept

LEMMA CloseCloses ==
    ASSUME TypeOK, NEW c \in CertificateIds, NEW from \in SUBSET OpenStatuses,
           NEW status \in ClosedStatuses, CloseCertificate(c, from, status)
    PROVE  \E C \in SUBSET CertificateIds :
               C \subseteq {c} /\ (\A d \in C : certs[d].status \in from) /\ Closes(C, status)
<1>. DEFINE C == IF certs[c].status \in from THEN {c} ELSE {}
<1>1. C \in SUBSET CertificateIds /\ C \subseteq {c} /\ \A d \in C : certs[d].status \in from
  OBVIOUS
<1>2. Closes(C, status)
  BY DEF CloseCertificate, Closes, Open, TypeOK
<1>. QED
  BY <1>1, <1>2

LEMMA AbandonCloses ==
    ASSUME TypeOK, NEW o \in Obligations, AbandonCollecting(o)
    PROVE  \E C \in SUBSET CertificateIds :
               (\A d \in C : certs[d].status = "collecting") /\ Closes(C, "abandoned")
<1>. DEFINE C == {c \in CertificateIds : certs[c].status = "collecting" /\ o \in certs[c].locked}
<1>1. C \in SUBSET CertificateIds /\ \A d \in C : certs[d].status = "collecting"
  OBVIOUS
<1>2. Closes(C, "abandoned")
  BY DEF AbandonCollecting, Closes, Open, OpenStatuses
<1>. QED
  BY <1>1, <1>2

\* addSignature.
Signs(c, p) ==
    /\ certs[c].status = "collecting"
    /\ certs' = [certs EXCEPT ![c] = WithSignature(@, p)]

LEMMA SignsFields ==
    ASSUME TypeOK, NEW c \in CertificateIds, NEW p \in Parties, Signs(c, p)
    PROVE  /\ \A d \in CertificateIds :
                 /\ certs'[d] \in Certificate
                 /\ certs'[d].loop = certs[d].loop
                 /\ certs'[d].wNet = certs[d].wNet
                 /\ certs'[d].before = certs[d].before
                 /\ certs'[d].deadline = certs[d].deadline
                 /\ certs'[d].locked = certs[d].locked
                 /\ d # c => certs'[d] = certs[d]
           /\ certs'[c].status \in OpenStatuses
<1>1. \A d \in CertificateIds : certs[d] \in Certificate
  BY DEF TypeOK
<1>. DEFINE after == WithSignature(certs[c], p)
<1>2. /\ after \in Certificate /\ after.status \in OpenStatuses
      /\ after.loop = certs[c].loop /\ after.wNet = certs[c].wNet
      /\ after.before = certs[c].before /\ after.deadline = certs[c].deadline
      /\ after.locked = certs[c].locked
  BY <1>1 DEF Signs, WithSignature, Certificate, OpenStatuses
<1>3. certs' = [certs EXCEPT ![c] = after]
  BY DEF Signs, TypeOK
<1>. HIDE DEF after
<1>. QED
  BY <1>1, <1>2, <1>3 DEF TypeOK

LEMMA SignsKept ==
    ASSUME TypeOK, NEW c \in CertificateIds, NEW p \in Parties, Signs(c, p)
    PROVE  CertificatesKept
<1>1. \A d \in CertificateIds : certs'[d].status # "none" <=> certs[d].status # "none"
  BY SignsFields DEF Signs, OpenStatuses
<1>2. certs' \in [CertificateIds -> Certificate]
  BY SignsFields DEF Signs, TypeOK
<1>. QED
  BY <1>1, <1>2, SignsFields DEF CertificatesKept, TypeOK, Built
-----------------------------------------------------------------------------
(* Type correctness.                                                       *)

LEMMA TypeInit == Init => TypeOK
<1>. SUFFICES ASSUME Init PROVE TypeOK
  OBVIOUS
<1>1. rows \in [Obligations -> Row]
  BY ConstantsAssumption DEF Init, InitAt, Row, Versions
<1>2. certs \in [CertificateIds -> Certificate]
  BY DEF Init, InitAt, NoCertificate, Certificate, Basis, Nothing, Versions
<1>3. \A c \in CertificateIds : certs[c].status = "none"
  BY DEF Init, InitAt, NoCertificate
<1>4. chain \in [Obligations -> Seq(Versions)]
  <2>1. <<Genesis>> \in Seq(Versions)
    BY DEF Versions
  <2>. QED
    BY <2>1 DEF Init, InitAt
<1>5. now \in Nat /\ chainNow \in Nat /\ chainNow <= now /\ now <= chainNow + MaxLag
  BY ConstantsAssumption DEF Init, InitAt
<1>6. \A r \in Requests : req[r] \notin Call
  BY DEF Init, InitAt, Idle, Call
<1>. QED
  BY <1>1, <1>2, <1>3, <1>4, <1>5, <1>6 DEF TypeOK, Init, InitAt

\* A call that moves on stays a call about the same certificate.
LEMMA CallType ==
    ASSUME TypeOK, NEW r \in Requests, NEW after \in Call \cup DisputeCall \cup {Idle},
           req' = [req EXCEPT ![r] = after],
           after \in Call => req[r] \in Call /\ after.cert = req[r].cert,
           rows' \in [Obligations -> Row], CertificatesKept,
           UNCHANGED <<signed, chain, now, chainNow, search>>
    PROVE  TypeOK'
<1>1. req' \in [Requests -> Call \cup DisputeCall \cup {Idle}]
  BY DEF TypeOK
<1>2. ASSUME NEW q \in Requests, req'[q] \in Call
      PROVE  certs'[req'[q].cert].status # "none"
  <2>1. req[q] \in Call /\ req'[q].cert = req[q].cert
    BY <1>2 DEF TypeOK
  <2>2. req[q].cert \in CertificateIds /\ certs[req[q].cert].status # "none"
    BY <2>1 DEF TypeOK, Call
  <2>. QED
    BY <2>1, <2>2 DEF CertificatesKept
<1>. QED
  BY <1>1, <1>2 DEF TypeOK, CertificatesKept

LEMMA CallsKeepTypes ==
    ASSUME TypeOK, NEW r \in Requests, RequestStep(r)
    PROVE  TypeOK'
<1>. DEFINE c == req[r].cert
<1>1. CASE QueryApplied(r)
  <2>1. req[r] \in Call /\ certs[c] \in Certificate
    BY <1>1, ProcessTypes DEF QueryApplied, TypeOK, Call
  <2>. DEFINE entries == [req[r] EXCEPT !.pc = "entries", !.left = certs[c].loop]
              expire == [req[r] EXCEPT !.pc = "expire"]
              act == [req[r] EXCEPT !.pc = "act"]
  <2>2. entries \in Call /\ entries.cert = c
    BY <2>1 DEF Call, Certificate
  <2>3. /\ expire \in Call /\ expire.cert = c
        /\ act \in Call /\ act.cert = c
    BY <2>1 DEF Call
  <2>4. PICK after \in {entries, expire, act, Idle} : req' = [req EXCEPT ![r] = after]
    BY <1>1 DEF QueryApplied, Goto, Done, TypeOK
  <2>. HIDE DEF entries, expire, act
  <2>5. after \in Call => after.cert = c
    BY <2>2, <2>3, <2>4 DEF Idle, Call
  <2>6. rows' \in [Obligations -> Row] /\ CertificatesKept
    BY <1>1, UnchangedKept DEF QueryApplied, TypeOK
  <2>. QED
    BY <1>1, <2>1, <2>2, <2>3, <2>4, <2>5, <2>6, CallType DEF QueryApplied
<1>2. ASSUME NEW o \in Obligations, ReadEntry(r, o)
      PROVE  TypeOK'
  <2>. DEFINE moved == IF Commitment(o) # c THEN req[r].moved \cup {o} ELSE req[r].moved
              after == [req[r] EXCEPT !.left = @ \ {o}, !.moved = moved]
  <2>1. req[r] \in Call
    BY <1>2, ProcessTypes DEF ReadEntry
  <2>2. after \in Call /\ after.cert = c
    BY <2>1 DEF Call
  <2>3. req' = [req EXCEPT ![r] = after]
    BY <1>2 DEF ReadEntry, TypeOK
  <2>4. rows' \in [Obligations -> Row] /\ CertificatesKept
    BY <1>2, UnchangedKept DEF ReadEntry, TypeOK
  <2>. HIDE DEF after
  <2>. QED
    BY <1>2, <2>1, <2>2, <2>3, <2>4, CallType DEF ReadEntry
<1>3. CASE FinalizeApplied(r)
  <2>1. req[r] \in Call /\ certs[c].status # "none" /\ c \in CertificateIds
    BY <1>3, ProcessTypes DEF FinalizeApplied, TypeOK, Call
  <2>2. rows' \in [Obligations -> Row]
    BY <1>3, <2>1, FinalizedType DEF FinalizeApplied
  <2>3. CertificatesKept
    BY <1>3, <2>1, CloseCloses, ClosesKept DEF FinalizeApplied, ClosedStatuses
  <2>. QED
    BY <1>3, <2>2, <2>3, CallType DEF FinalizeApplied, Done, Idle, Call
<1>4. CASE Expire(r)
  <2>1. req[r] \in Call /\ c \in CertificateIds
    BY <1>4, ProcessTypes DEF Expire, Call
  <2>2. CertificatesKept
    BY <1>4, <2>1, CloseCloses, ClosesKept DEF Expire, ClosedStatuses
  <2>. QED
    BY <1>4, <2>2, CallType DEF Expire, Done, Idle, Call, TypeOK
<1>5. CASE Decline(r)
  <2>1. req[r] \in Call /\ c \in CertificateIds
    BY <1>5, ProcessTypes DEF Decline, Call
  <2>2. CertificatesKept
    BY <1>5, <2>1, CloseCloses, ClosesKept DEF Decline, ClosedStatuses, OpenStatuses
  <2>. QED
    BY <1>5, <2>2, CallType DEF Decline, Done, Idle, Call, TypeOK
<1>6. CASE AddSignature(r)
  <2>1. req[r] \in Call /\ c \in CertificateIds /\ req[r].party \in Parties
    BY <1>6, ProcessTypes DEF AddSignature, Call
  <2>2. UNCHANGED certs \/ Signs(c, req[r].party)
    BY <1>6 DEF AddSignature, Signs
  <2>3. CertificatesKept
    BY <2>1, <2>2, UnchangedKept, SignsKept
  <2>. QED
    BY <1>6, <2>3, CallType DEF AddSignature, Done, Idle, Call, TypeOK
<1>7. CASE DisputeObligation(r)
  <2>. DEFINE o == req[r].obligation
  <2>1. o \in Obligations /\ req[r].party \in Parties
    BY <1>7, ProcessTypes DEF DisputeObligation, DisputeCall
  <2>2. CertificatesKept
    BY <1>7, <2>1, AbandonCloses, ClosesKept DEF DisputeObligation, ClosedStatuses
  <2>3. [rows[o] EXCEPT !.status = "disputed", !.disputedBy = {req[r].party}] \in Row
    <3>1. rows[o] \in Row /\ {req[r].party} \in SUBSET Parties
      BY <2>1 DEF TypeOK
    <3>. HIDE DEF o
    <3>. QED
      BY <3>1 DEF Row
  <2>4. rows' \in [Obligations -> Row]
    BY <1>7, <2>1, <2>3 DEF DisputeObligation, TypeOK
  <2>. QED
    BY <1>7, <2>2, <2>4, CallType DEF DisputeObligation, Done, Idle, Call
<1>. QED
  BY <1>1, <1>2, <1>3, <1>4, <1>5, <1>6, <1>7 DEF RequestStep

\* A step of a search that leaves everything but the rows and itself alone.
LEMMA SearchType ==
    ASSUME TypeOK, rows' \in [Obligations -> Row],
           search' \in [Searches -> Search \cup {Idle}],
           UNCHANGED <<certs, signed, chain, now, chainNow, req>>
    PROVE  TypeOK'
BY DEF TypeOK, Built

LEMMA SearchesKeepTypes ==
    ASSUME TypeOK, NEW s \in Searches, StartSearch(s) \/ SearchStep(s)
    PROVE  TypeOK'
<1>. DEFINE before == search[s]
<1>0. /\ rows \in [Obligations -> Row]
      /\ search \in [Searches -> Search \cup {Idle}]
  BY DEF TypeOK
<1>1. CASE StartSearch(s)
  <2>1. search' \in [Searches -> Search \cup {Idle}]
    BY <1>0, <1>1, SnapshotType, AttemptTypeOK DEF StartSearch, TypeOK
  <2>. QED
    BY <1>0, <1>1, <2>1, SearchType DEF StartSearch
<1>2. ASSUME NEW o \in Obligations, CheckMember(s, o)
      PROVE  TypeOK'
  <2>1. before \in Search
    BY <1>2, ProcessTypes DEF CheckMember
  <2>2. /\ [before EXCEPT !.left = @ \ {o}] \in Search
        /\ [before EXCEPT !.pc = "mark", !.marking = {o}] \in Search
    BY <2>1 DEF Search
  <2>3. search' \in [Searches -> Search \cup {Idle}]
    BY <1>0, <1>2, <2>2 DEF CheckMember
  <2>. QED
    BY <1>0, <1>2, <2>3, SearchType DEF CheckMember
<1>3. CASE MarkOutOfSync(s)
  <2>1. before \in Search
    BY <1>3, ProcessTypes DEF MarkOutOfSync
  <2>2. PICK o \in before.marking :
            /\ rows' = Marked(o, before.seen[o])
            /\ search' = [search EXCEPT ![s].pc = "check", ![s].marking = {},
                                        ![s].left = @ \ {o}, ![s].excluded = @ \cup {o},
                                        ![s].stale = TRUE]
    BY <1>3 DEF MarkOutOfSync
  <2>3. o \in Obligations
    BY <2>1 DEF Search
  <2>4. [before EXCEPT !.pc = "check", !.marking = {}, !.left = @ \ {o},
                       !.excluded = @ \cup {o}, !.stale = TRUE] \in Search
    BY <2>1, <2>3 DEF Search
  <2>5. search' \in [Searches -> Search \cup {Idle}]
    BY <1>0, <2>2, <2>4
  <2>6. rows' \in [Obligations -> Row]
    BY <1>0, <2>2, <2>3 DEF Marked, Row
  <2>. QED
    BY <1>3, <2>5, <2>6, SearchType DEF MarkOutOfSync
<1>4. CASE SearchAgain(s)
  <2>1. before \in Search
    BY <1>4, ProcessTypes DEF SearchAgain
  <2>2. /\ before.seen \in Basis /\ before.excluded \in SUBSET Obligations
        /\ before.at \in Nat /\ before.count + 1 \in Nat
    BY <2>1 DEF Search
  <2>3. search' \in [Searches -> Search \cup {Idle}]
    BY <1>0, <1>4, <2>2, AttemptTypeOK DEF SearchAgain
  <2>. QED
    BY <1>0, <1>4, <2>3, SearchType DEF SearchAgain
<1>5. ASSUME NEW c \in CertificateIds, InsertCertificate(s, c)
      PROVE  TypeOK'
  <2>1. before \in Search /\ certs[c].status = "none"
    BY <1>5, ProcessTypes DEF InsertCertificate, Drawn, Unused
  <2>2. before.loop \in Loops /\ before.loop \subseteq Obligations
    BY <2>1, LoopsHold DEF Search
  <2>. DEFINE L == before.loop
              wNet == Min({before.seen[o].remaining : o \in L})
  <2>3. wNet \in Nat /\ \A o \in L : wNet <= before.seen[o].remaining
    BY <2>1, <2>2, NetAmount DEF Search, Basis
  <2>. DEFINE basis == [o \in Obligations |-> IF o \in L THEN before.seen[o] ELSE Nothing]
              deadline == before.at + Lifetime
  <2>4. /\ basis \in Basis /\ deadline \in Nat
        /\ \A o \in L : basis[o].remaining = before.seen[o].remaining
    BY <2>1, <2>2, ConstantsAssumption DEF Search, Basis, Nothing, Versions
  <2>5. Proposed(s) = [status |-> "collecting", loop |-> L, before |-> basis, wNet |-> wNet,
                       deadline |-> deadline, sigs |-> {}, locked |-> L]
    BY DEF Proposed
  <2>. HIDE DEF wNet, basis, deadline
  <2>6. Proposed(s) \in Certificate /\ Built(Proposed(s))
    BY <2>2, <2>3, <2>4, <2>5 DEF Certificate, Built, OpenStatuses
  <2>7. certs' = [certs EXCEPT ![c] = Proposed(s)]
    BY <1>5 DEF InsertCertificate
  <2>8. search' \in [Searches -> Search \cup {Idle}]
    BY <1>0, <1>5 DEF InsertCertificate
  <2>. HIDE DEF Proposed
  <2>. QED
    BY <1>5, <2>1, <2>6, <2>7, <2>8 DEF InsertCertificate, TypeOK, Built
<1>6. CASE InsertRefused(s)
  <2>1. before \in Search
    BY <1>6, ProcessTypes DEF InsertRefused, Drawn
  <2>2. [before EXCEPT !.pc = "reload"] \in Search
    BY <2>1 DEF Search
  <2>3. search' \in [Searches -> Search \cup {Idle}]
    BY <1>0, <1>6, <2>2 DEF InsertRefused
  <2>. QED
    BY <1>0, <1>6, <2>3, SearchType DEF InsertRefused
<1>7. CASE Reload(s)
  <2>1. before \in Search
    BY <1>7, ProcessTypes DEF Reload
  <2>2. before.at \in Nat /\ before.count + 1 \in Nat
    BY <2>1 DEF Search
  <2>3. search' \in [Searches -> Search \cup {Idle}]
    BY <1>0, <1>7, <2>2, SnapshotType, AttemptTypeOK DEF Reload
  <2>. QED
    BY <1>0, <1>7, <2>3, SearchType DEF Reload
<1>. QED
  BY <1>1, <1>2, <1>3, <1>4, <1>5, <1>6, <1>7 DEF SearchStep

LEMMA TypeStep == TypeOK /\ [Next]_vars => TypeOK'
<1>. SUFFICES ASSUME TypeOK, [Next]_vars
              PROVE  TypeOK'
  OBVIOUS
<1>1. ASSUME NEW c \in CertificateIds, NEW p \in Parties, Sign(c, p)
      PROVE  TypeOK'
  BY <1>1 DEF TypeOK, Sign, Built
<1>2. ASSUME NEW loop, NEW v \in Versions, Advance(loop, v),
             UNCHANGED <<rows, certs, signed, now, chainNow, req, search>>
      PROVE  TypeOK'
  <2>1. \A o \in Obligations : Append(chain[o], v) \in Seq(Versions)
    BY DEF TypeOK
  <2>2. chain' \in [Obligations -> Seq(Versions)]
    BY <1>2, <2>1 DEF TypeOK, Advance
  <2>. QED
    BY <1>2, <2>2 DEF TypeOK, Built
<1>3. ASSUME NEW c \in CertificateIds, ApplyOnLedger(c)
      PROVE  TypeOK'
  BY <1>2, <1>3 DEF ApplyOnLedger, Versions
<1>4. ASSUME NEW u \in Unseen, NEW loop, ApplyUnseen(u, loop)
      PROVE  TypeOK'
  BY <1>2, <1>4 DEF ApplyUnseen, Versions
<1>5. CASE Tick \/ ChainTick
  <2>1. MaxLag \in Nat
    BY ConstantsAssumption
  <2>2. now' \in Nat /\ chainNow' \in Nat /\ chainNow' <= now' /\ now' <= chainNow' + MaxLag
    BY <1>5, <2>1 DEF TypeOK, Tick, ChainTick
  <2>. QED
    BY <1>5, <2>2 DEF TypeOK, Tick, ChainTick, Built
<1>6. ASSUME NEW r \in Requests, NEW kind \in Kinds, NEW c \in CertificateIds,
             NEW p \in Parties, Start(r, kind, c, p)
      PROVE  TypeOK'
  <2>1. [pc |-> "query", kind |-> kind, cert |-> c, party |-> p,
         seen |-> certs[c].status, left |-> {}, moved |-> {}] \in Call
    BY <1>6, ConstantsAssumption DEF Call, Start, Open
  <2>2. certs[c].status # "none"
    BY <1>6 DEF Start, Open, OpenStatuses
  <2>. QED
    BY <1>6, <2>1, <2>2 DEF TypeOK, Start, Built
<1>7. ASSUME NEW r \in Requests, RequestStep(r)
      PROVE  TypeOK'
  BY <1>7, CallsKeepTypes
<1>8. ASSUME NEW o \in Closable, CloseObligation(o)
      PROVE  TypeOK'
  <2>1. o \in Obligations
    BY ConstantsAssumption
  <2>2. CertificatesKept
    BY <1>8, <2>1, AbandonCloses, ClosesKept DEF CloseObligation, ClosedStatuses
  <2>3. rows' \in [Obligations -> Row]
    <3>1. [rows[o] EXCEPT !.status = "closed"] \in Row
      BY <2>1 DEF TypeOK, Row
    <3>2. rows' = rows \/ rows' = [rows EXCEPT ![o] = [rows[o] EXCEPT !.status = "closed"]]
      BY <1>8, <2>1 DEF CloseObligation, TypeOK
    <3>. QED
      BY <2>1, <3>1, <3>2 DEF TypeOK
  <2>. QED
    BY <1>8, <2>2, <2>3 DEF CloseObligation, CertificatesKept, TypeOK, Call
<1>9. ASSUME NEW r \in Requests, NEW o \in Disputable, NEW p \in Parties, StartDispute(r, o, p)
      PROVE  TypeOK'
  <2>1. [pc |-> "dispute", obligation |-> o, party |-> p] \in DisputeCall \ Call
    BY ConstantsAssumption DEF DisputeCall, Call
  <2>. QED
    BY <1>9, <2>1 DEF StartDispute, TypeOK, Built
<1>10. ASSUME NEW o \in Disputable, NEW p \in Parties, WithdrawDispute(o, p)
       PROVE  TypeOK'
  <2>1. o \in Obligations
    BY ConstantsAssumption
  <2>2. [rows[o] EXCEPT !.status = "active", !.disputedBy = {}] \in Row
    BY <2>1 DEF TypeOK, Row
  <2>3. rows' = [rows EXCEPT ![o] = [rows[o] EXCEPT !.status = "active", !.disputedBy = {}]]
    BY <1>10, <2>1 DEF WithdrawDispute, TypeOK
  <2>4. rows' \in [Obligations -> Row]
    BY <2>1, <2>2, <2>3 DEF TypeOK
  <2>. QED
    BY <1>10, <2>4 DEF WithdrawDispute, TypeOK, Built
<1>11. ASSUME NEW s \in Searches, StartSearch(s) \/ SearchStep(s)
       PROVE  TypeOK'
  BY <1>11, SearchesKeepTypes
<1>12. CASE UNCHANGED vars
  BY <1>12 DEF vars, TypeOK, Built
<1>. QED
  BY <1>1, <1>3, <1>4, <1>5, <1>6, <1>7, <1>8, <1>9, <1>10, <1>11, <1>12 DEF Next

\* Every state the service, the searches, the parties and the ledger can reach
\* is of the types stated in TypeOK; in particular no row ever shows a negative
\* remaining, whatever calls and applications overlap.
THEOREM TypeCorrect == Spec => []TypeOK
<1>. QED
  BY TypeInit, TypeStep, PTL DEF Spec
-----------------------------------------------------------------------------
(* What a step may do to the certificates.                                 *)

\* finalizeApplied, as it changes the rows.
Finalizing(r) ==
    /\ req[r] \in Call /\ req[r].pc = "entries"
    /\ rows' = Finalized(req[r].cert, req[r].moved)
    /\ UNCHANGED chain

\* Only a call that found the certificate unapplied and late closes it as
\* expired, only finalizeApplied as applied, and only the ledger or the clock
\* closes one that is ready.
Closing(C, status) ==
    /\ Closes(C, status)
    /\ status = "applied" => \E r \in Requests : Finalizing(r) /\ C \subseteq {req[r].cert}
    /\ status = "expired" => \E r \in Requests : req[r].pc = "expire" /\ C \subseteq {req[r].cert}
    /\ status = "abandoned" => \A c \in C : certs[c].status = "collecting"

Inserting(s, c) ==
    /\ certs[c].status = "none"
    /\ Insertable(s)
    /\ search[s] \in Search
    /\ certs' = [certs EXCEPT ![c] = Proposed(s)]
    /\ UNCHANGED <<rows, chain>>

CertificateStep ==
    \/ UNCHANGED certs
    \/ \E C \in SUBSET CertificateIds, status \in ClosedStatuses : Closing(C, status)
    \/ \E c \in CertificateIds, p \in Parties : Signs(c, p)
    \/ \E s \in Searches, c \in CertificateIds : Inserting(s, c)

LEMMA CertificatesStep == TypeOK /\ [Next]_vars => CertificateStep
<1>. SUFFICES ASSUME TypeOK, [Next]_vars
              PROVE  CertificateStep
  OBVIOUS
<1>1. ASSUME NEW r \in Requests, RequestStep(r)
      PROVE  CertificateStep
  <2>1. CASE QueryApplied(r) \/ \E o \in Obligations : ReadEntry(r, o)
    BY <2>1 DEF QueryApplied, ReadEntry, CertificateStep
  <2>2. CASE FinalizeApplied(r)
    <3>1. req[r].cert \in CertificateIds
      BY <2>2, ProcessTypes DEF FinalizeApplied, Call
    <3>2. PICK C \in SUBSET CertificateIds : Closes(C, "applied") /\ C \subseteq {req[r].cert}
      <4>1. CloseCertificate(req[r].cert, OpenStatuses, "applied")
        BY <2>2 DEF FinalizeApplied
      <4>2. OpenStatuses \in SUBSET OpenStatuses /\ "applied" \in ClosedStatuses
        BY DEF ClosedStatuses
      <4>. QED
        BY <3>1, <4>1, <4>2, CloseCloses
    <3>3. Finalizing(r)
      BY <2>2, ProcessTypes DEF FinalizeApplied, Finalizing
    <3>. QED
      BY <3>2, <3>3 DEF CertificateStep, Closing, ClosedStatuses
  <2>3. CASE Expire(r)
    <3>1. req[r].cert \in CertificateIds
      BY <2>3, ProcessTypes DEF Expire, Call
    <3>2. PICK C \in SUBSET CertificateIds : Closes(C, "expired") /\ C \subseteq {req[r].cert}
      BY <2>3, <3>1, CloseCloses DEF Expire, ClosedStatuses
    <3>. QED
      BY <2>3, <3>2 DEF CertificateStep, Closing, ClosedStatuses, Expire
  <2>4. CASE Decline(r)
    <3>1. req[r].cert \in CertificateIds
      BY <2>4, ProcessTypes DEF Decline, Call
    <3>2. PICK C \in SUBSET CertificateIds :
              Closes(C, "abandoned") /\ \A d \in C : certs[d].status \in {"collecting"}
      BY <2>4, <3>1, CloseCloses DEF Decline, ClosedStatuses, OpenStatuses
    <3>. QED
      BY <3>2 DEF CertificateStep, Closing, ClosedStatuses
  <2>5. CASE AddSignature(r)
    <3>1. req[r].cert \in CertificateIds /\ req[r].party \in Parties
      BY <2>5, ProcessTypes DEF AddSignature, Call
    <3>. QED
      BY <2>5, <3>1 DEF AddSignature, Signs, CertificateStep
  <2>6. CASE DisputeObligation(r)
    <3>1. req[r].obligation \in Obligations
      BY <2>6, ProcessTypes DEF DisputeObligation, DisputeCall
    <3>2. PICK C \in SUBSET CertificateIds :
              Closes(C, "abandoned") /\ \A d \in C : certs[d].status = "collecting"
      BY <2>6, <3>1, AbandonCloses DEF DisputeObligation
    <3>. QED
      BY <3>2 DEF CertificateStep, Closing, ClosedStatuses
  <2>. QED
    BY <1>1, <2>1, <2>2, <2>3, <2>4, <2>5, <2>6 DEF RequestStep
<1>2. ASSUME NEW o \in Closable, CloseObligation(o)
      PROVE  CertificateStep
  <2>1. PICK C \in SUBSET CertificateIds :
            Closes(C, "abandoned") /\ \A d \in C : certs[d].status = "collecting"
    BY <1>2, AbandonCloses, ConstantsAssumption DEF CloseObligation
  <2>. QED
    BY <2>1 DEF CertificateStep, Closing, ClosedStatuses
<1>3. ASSUME NEW s \in Searches, StartSearch(s) \/ SearchStep(s)
      PROVE  CertificateStep
  <2>1. ASSUME NEW c \in CertificateIds, InsertCertificate(s, c)
        PROVE  CertificateStep
    BY <2>1, ProcessTypes DEF InsertCertificate, Drawn, Unused, Inserting, CertificateStep
  <2>2. CASE ~ \E c \in CertificateIds : InsertCertificate(s, c)
    BY <1>3, <2>2 DEF SearchStep, StartSearch, CheckMember, MarkOutOfSync, SearchAgain,
                      InsertRefused, Reload, CertificateStep
  <2>. QED
    BY <2>1, <2>2
<1>4. CASE \/ \E c \in CertificateIds, p \in Parties : Sign(c, p)
           \/ \E c \in CertificateIds : ApplyOnLedger(c)
           \/ \E u \in Unseen, loop \in Loops : ApplyUnseen(u, loop)
           \/ \E r \in Requests, kind \in Kinds, c \in CertificateIds, p \in Parties :
                 Start(r, kind, c, p)
           \/ \E r \in Requests, o \in Disputable, p \in Parties : StartDispute(r, o, p)
           \/ \E o \in Disputable, p \in Parties : WithdrawDispute(o, p)
           \/ Tick \/ ChainTick
           \/ UNCHANGED vars
  BY <1>4 DEF Sign, ApplyOnLedger, ApplyUnseen, Start, StartDispute, WithdrawDispute,
              Tick, ChainTick, vars, CertificateStep
<1>. QED
  BY <1>1, <1>2, <1>3, <1>4 DEF Next

\* What a closed certificate was closed as, it stays; one every party has signed
\* is closed by the ledger or the clock alone.
THEOREM ClosedForGood == Spec => ClosedStaysClosed
<1>1. ASSUME TypeOK, CertificateStep, NEW c \in CertificateIds
      PROVE  /\ certs[c].status \in ClosedStatuses => certs'[c].status = certs[c].status
             /\ certs[c].status = "ready" => certs'[c].status \in {"ready", "applied", "expired"}
  <2>1. ASSUME NEW C \in SUBSET CertificateIds, NEW status \in ClosedStatuses, Closing(C, status)
        PROVE  /\ certs[c].status \in ClosedStatuses => certs'[c].status = certs[c].status
               /\ certs[c].status = "ready" => certs'[c].status \in {"ready", "applied", "expired"}
    <3>1. CASE c \in C
      <4>0. Closes(C, status)
        BY <2>1 DEF Closing
      <4>1. certs[c].status \in OpenStatuses /\ certs'[c].status = status
        <5>1. certs[c].status \in OpenStatuses
          BY <4>0, <3>1 DEF Closes, Open
        <5>2. certs'[c].status = status
          BY <1>1, <3>1, <4>0, ClosesFields
        <5>. QED
          BY <5>1, <5>2
      <4>2. status = "abandoned" => certs[c].status = "collecting"
        BY <2>1, <3>1 DEF Closing
      <4>. QED
        BY <4>1, <4>2 DEF OpenStatuses, ClosedStatuses
    <3>2. CASE c \notin C
      <4>1. Closes(C, status)
        BY <2>1 DEF Closing
      <4>. QED
        BY <1>1, <3>2, <4>1, ClosesFields
    <3>. QED
      BY <3>1, <3>2
  <2>2. ASSUME NEW d \in CertificateIds, NEW p \in Parties, Signs(d, p)
        PROVE  certs[c].status \in ClosedStatuses \cup {"ready"} => certs'[c] = certs[c]
    BY <1>1, <2>2, SignsFields DEF Signs, ClosedStatuses
  <2>3. ASSUME NEW s \in Searches, NEW d \in CertificateIds, Inserting(s, d)
        PROVE  certs[c].status \in ClosedStatuses \cup {"ready"} => certs'[c] = certs[c]
    BY <1>1, <2>3 DEF Inserting, TypeOK, ClosedStatuses
  <2>. QED
    BY <1>1, <2>1, <2>2, <2>3 DEF CertificateStep
<1>2. TypeOK /\ [Next]_vars =>
          [\A c \in CertificateIds :
              /\ certs[c].status \in ClosedStatuses => certs'[c].status = certs[c].status
              /\ certs[c].status = "ready" => certs'[c].status \in {"ready", "applied", "expired"}
          ]_vars
  BY <1>1, CertificatesStep
<1>. QED
  BY <1>2, TypeCorrect, PTL DEF Spec, ClosedStaysClosed

-----------------------------------------------------------------------------
(* Locks.                                                                  *)

LEMMA LocksStep == TypeOK /\ LocksFollowCertificates /\ CertificateStep => LocksFollowCertificates'
<1>. SUFFICES ASSUME TypeOK, LocksFollowCertificates, CertificateStep
              PROVE  LocksFollowCertificates'
  OBVIOUS
<1>1. CASE UNCHANGED certs
  BY <1>1 DEF LocksFollowCertificates, Open
<1>2. ASSUME NEW C \in SUBSET CertificateIds, NEW status \in ClosedStatuses, Closing(C, status)
      PROVE  LocksFollowCertificates'
  <2>1. ASSUME NEW c \in CertificateIds
        PROVE  /\ certs'[c].locked = IF certs'[c].status \in OpenStatuses
                                       THEN certs'[c].loop ELSE {}
               /\ certs'[c].locked \subseteq certs[c].locked
    <3>1. CASE c \in C
      <4>1. Closes(C, status)
        BY <1>2 DEF Closing
      <4>2. certs'[c].status = status /\ certs'[c].locked = {}
        BY <3>1, <4>1, ClosesFields
      <4>. QED
        BY <4>2 DEF OpenStatuses, ClosedStatuses
    <3>2. CASE c \notin C
      <4>1. Closes(C, status)
        BY <1>2 DEF Closing
      <4>2. certs'[c] = certs[c]
        BY <3>2, <4>1, ClosesFields
      <4>. QED
        BY <4>2 DEF LocksFollowCertificates, Open
    <3>. QED
      BY <3>1, <3>2
  <2>. QED
    BY <2>1 DEF LocksFollowCertificates, Open
<1>3. ASSUME NEW c \in CertificateIds, NEW p \in Parties, Signs(c, p)
      PROVE  LocksFollowCertificates'
  <2>1. certs[c].status \in OpenStatuses /\ certs'[c].status \in OpenStatuses
    BY <1>3, SignsFields DEF Signs, OpenStatuses
  <2>. QED
    BY <1>3, <2>1, SignsFields DEF LocksFollowCertificates, Open
<1>4. ASSUME NEW s \in Searches, NEW c \in CertificateIds, Inserting(s, c)
      PROVE  LocksFollowCertificates'
  <2>. DEFINE L == search[s].loop
  <2>1. /\ certs'[c].locked = L /\ certs'[c].loop = L
        /\ certs'[c].status = "collecting"
        /\ \A d \in CertificateIds : d # c => certs'[d] = certs[d]
    BY <1>4 DEF Inserting, Proposed, TypeOK
  <2>2. L \subseteq Obligations
    BY <1>4, LoopsHold DEF Inserting, Search
  <2>3. \A d \in CertificateIds : certs[d].locked \cap L = {}
    BY <1>4, <2>2 DEF Inserting, Insertable, Locked
  <2>. QED
    BY <2>1, <2>3 DEF LocksFollowCertificates, Open, OpenStatuses
<1>. QED
  BY <1>1, <1>2, <1>3, <1>4 DEF CertificateStep

\* No obligation is ever promised to two open certificates, and none stays
\* locked by one that is over.
THEOREM LocksCorrect == Spec => []LocksFollowCertificates
<1>1. Init => LocksFollowCertificates
  BY DEF Init, InitAt, LocksFollowCertificates, NoCertificate, Open, OpenStatuses
<1>2. UNCHANGED vars => UNCHANGED certs
  BY DEF vars
<1>3. TypeOK /\ LocksFollowCertificates /\ [Next]_vars => LocksFollowCertificates'
  BY CertificatesStep, LocksStep
<1>. QED
  BY <1>1, <1>3, TypeCorrect, PTL DEF Spec
-----------------------------------------------------------------------------
(* Expiry.                                                                 *)

\* What a call carries from the answer of the ledger to the write: the
\* certificate it is about to expire can no longer be applied.
GivenUpForGood ==
    /\ ExpiredNeverApplied
    /\ \A r \in Requests : req[r].pc = "expire" =>
          ~ Applied(req[r].cert) /\ chainNow > certs[req[r].cert].deadline

\* Past its deadline on the ledger, and not applied.
TooLate(c) == ~ Applied(c) /\ chainNow > certs[c].deadline

LEMMA AppliedUnchanged ==
    ASSUME TypeOK, NEW loop, NEW v \in Versions, Advance(loop, v), NEW c, c # v, Applied(c)'
    PROVE  Applied(c)
<1>0. PICK o \in Obligations : \E i \in DOMAIN chain'[o] : chain'[o][i] = c
  BY DEF Applied
<1>1. PICK i \in DOMAIN chain'[o] : chain'[o][i] = c
  BY <1>0
<1>2. chain[o] \in Seq(Versions) /\ chain'[o] \in {chain[o], Append(chain[o], v)}
  BY DEF TypeOK, Advance
<1>3. CASE chain'[o] = Append(chain[o], v)
  <2>1. i \in 1 .. Len(chain[o]) + 1 /\ Append(chain[o], v)[i] = c
    BY <1>1, <1>2, <1>3
  <2>2. i # Len(chain[o]) + 1
    BY <1>2, <2>1
  <2>3. i \in DOMAIN chain[o] /\ chain[o][i] = c
    BY <1>2, <2>1, <2>2
  <2>. QED
    BY <2>3 DEF Applied
<1>. QED
  BY <1>1, <1>2, <1>3 DEF Applied

\* The clocks, the ledger, and whatever leaves both alone.
LEMMA LedgerStep ==
    ASSUME TypeOK, [Next]_vars
    PROVE  /\ \/ UNCHANGED chain
              \/ \E c \in CertificateIds : ApplyOnLedger(c)
              \/ \E u \in Unseen, loop \in Loops : ApplyUnseen(u, loop)
           /\ chainNow' >= chainNow
<1>. USE DEF TypeOK
<1>1. ASSUME NEW r \in Requests, RequestStep(r)
      PROVE  UNCHANGED <<chain, chainNow>>
  BY <1>1 DEF RequestStep, QueryApplied, ReadEntry, FinalizeApplied, Expire, AddSignature,
              Decline, DisputeObligation
<1>2. ASSUME NEW s \in Searches, StartSearch(s) \/ SearchStep(s)
      PROVE  UNCHANGED <<chain, chainNow>>
  BY <1>2 DEF SearchStep, StartSearch, CheckMember, MarkOutOfSync, SearchAgain,
              InsertCertificate, InsertRefused, Reload
<1>3. ASSUME \/ \E c \in CertificateIds : ApplyOnLedger(c)
             \/ \E u \in Unseen, loop \in Loops : ApplyUnseen(u, loop)
      PROVE  UNCHANGED chainNow
  BY <1>3 DEF ApplyOnLedger, ApplyUnseen
<1>4. ASSUME \/ \E c \in CertificateIds, p \in Parties : Sign(c, p)
             \/ \E r \in Requests, kind \in Kinds, c \in CertificateIds, p \in Parties :
                   Start(r, kind, c, p)
             \/ \E o \in Closable : CloseObligation(o)
             \/ \E r \in Requests, o \in Disputable, p \in Parties : StartDispute(r, o, p)
             \/ \E o \in Disputable, p \in Parties : WithdrawDispute(o, p)
             \/ Tick
             \/ UNCHANGED vars
      PROVE  UNCHANGED <<chain, chainNow>>
  BY <1>4 DEF Sign, Start, CloseObligation, StartDispute, WithdrawDispute, Tick, vars
<1>5. ASSUME ChainTick
      PROVE  UNCHANGED chain /\ chainNow' >= chainNow
  BY <1>5 DEF ChainTick
<1>6. chainNow \in Nat
  OBVIOUS
<1>. QED
  BY <1>1, <1>2, <1>3, <1>4, <1>5, <1>6 DEF Next

\* A certificate the service has proposed and that is too late stays so.
LEMMA TooLateStays ==
    ASSUME TypeOK, [Next]_vars, NEW c \in CertificateIds, certs[c].status # "none", TooLate(c)
    PROVE  TooLate(c)'
<1>1. certs'[c].deadline = certs[c].deadline
  <2>1. CertificateStep
    BY CertificatesStep
  <2>. QED
    BY <2>1, ClosesFields, SignsFields DEF CertificateStep, Closing, Inserting, TypeOK
<1>2. ~ Applied(c)'
  <2>1. CASE UNCHANGED chain
    BY <2>1 DEF Applied, TooLate
  <2>2. ASSUME NEW d \in CertificateIds, ApplyOnLedger(d)
        PROVE  ~ Applied(c)'
    <3>1. d # c
      BY <2>2 DEF ApplyOnLedger, TooLate, TypeOK, Certificate
    <3>. QED
      BY <2>2, <3>1, AppliedUnchanged DEF ApplyOnLedger, Versions, TooLate
  <2>3. ASSUME NEW u \in Unseen, NEW loop \in Loops, ApplyUnseen(u, loop)
        PROVE  ~ Applied(c)'
    BY <2>3, AppliedUnchanged, ConstantsAssumption DEF ApplyUnseen, Versions, TooLate
  <2>. QED
    BY <2>1, <2>2, <2>3, LedgerStep
<1>3. chainNow' > certs[c].deadline
  BY LedgerStep, TypeStep, SMTT(40) DEF TypeOK, Certificate, TooLate
<1>. QED
  BY <1>1, <1>2, <1>3 DEF TooLate

\* A call decides to expire a certificate only when it is too late for it: the
\* grace period covers whatever chain time lags behind the server's.
LEMMA LateIsTooLate ==
    ASSUME TypeOK, NEW c \in CertificateIds, ~ Applied(c), Late(c)
    PROVE  TooLate(c)
BY ConstantsAssumption, GraceAssumption DEF TypeOK, Certificate, Late, TooLate

\* No other step brings a call to the point of expiring a certificate.
LEMMA ExpireFromQuery ==
    ASSUME TypeOK, [Next]_vars, NEW r \in Requests, req'[r].pc = "expire"
    PROVE  req'[r] = req[r] \/ QueryApplied(r)
<1>. USE DEF TypeOK
<1>1. ASSUME NEW q \in Requests, RequestStep(q)
      PROVE  req'[r] = req[r] \/ QueryApplied(r)
  <2>1. CASE QueryApplied(q)
    BY <2>1 DEF QueryApplied, Goto, Done
  <2>2. ASSUME NEW o \in Obligations, ReadEntry(q, o)
        PROVE  req'[r] = req[r]
    <3>1. req[q] \in Call
      BY <2>2, ProcessTypes DEF ReadEntry
    <3>2. r = q => req'[r].pc = "entries"
      BY <2>2, <3>1 DEF ReadEntry, Call
    <3>. QED
      BY <2>2, <3>2 DEF ReadEntry
  <2>3. CASE ~ QueryApplied(q) /\ ~ \E o \in Obligations : ReadEntry(q, o)
    <3>1. Done(q)
      BY <1>1, <2>3 DEF RequestStep, FinalizeApplied, Expire, AddSignature, Decline,
                        DisputeObligation
    <3>. QED
      BY <3>1 DEF Done, Idle
  <2>. QED
    BY <2>1, <2>2, <2>3
<1>2. ASSUME NEW q \in Requests, req'[q].pc # "expire",
             \A p \in Requests : p # q => req'[p] = req[p]
      PROVE  req'[r] = req[r]
  BY <1>2
<1>3. ASSUME NEW q \in Requests, NEW kind \in Kinds, NEW c \in CertificateIds,
             NEW p \in Parties, Start(q, kind, c, p)
      PROVE  req'[r] = req[r]
  BY <1>2, <1>3 DEF Start
<1>4. ASSUME NEW q \in Requests, NEW o \in Disputable, NEW p \in Parties, StartDispute(q, o, p)
      PROVE  req'[r] = req[r]
  BY <1>2, <1>4 DEF StartDispute
<1>5. ASSUME NEW s \in Searches, StartSearch(s) \/ SearchStep(s)
      PROVE  UNCHANGED req
  BY <1>5 DEF SearchStep, StartSearch, CheckMember, MarkOutOfSync, SearchAgain,
              InsertCertificate, InsertRefused, Reload
<1>6. CASE \/ \E c \in CertificateIds, p \in Parties : Sign(c, p)
           \/ \E c \in CertificateIds : ApplyOnLedger(c)
           \/ \E u \in Unseen, loop \in Loops : ApplyUnseen(u, loop)
           \/ \E o \in Closable : CloseObligation(o)
           \/ \E o \in Disputable, p \in Parties : WithdrawDispute(o, p)
           \/ Tick \/ ChainTick
           \/ UNCHANGED vars
  BY <1>6 DEF Sign, ApplyOnLedger, ApplyUnseen, CloseObligation, WithdrawDispute, Tick,
              ChainTick, vars
<1>. QED
  BY <1>1, <1>3, <1>4, <1>5, <1>6 DEF Next

LEMMA GivenUpStep == TypeOK /\ GivenUpForGood /\ [Next]_vars => GivenUpForGood'
<1>. SUFFICES ASSUME TypeOK, GivenUpForGood, [Next]_vars
              PROVE  GivenUpForGood'
  OBVIOUS
<1>1. \A c \in CertificateIds : certs[c].status = "expired" => TooLate(c)
  BY DEF GivenUpForGood, ExpiredNeverApplied, TooLate
<1>2. \A r \in Requests : req[r].pc = "expire" =>
          /\ req[r].cert \in CertificateIds
          /\ certs[req[r].cert].status # "none"
          /\ TooLate(req[r].cert)
  BY ProcessTypes DEF GivenUpForGood, TooLate, TypeOK, Call
<1>3. ASSUME NEW c \in CertificateIds, certs'[c].status = "expired"
      PROVE  TooLate(c)'
  <2>1. certs[c].status # "none" /\ TooLate(c)
    <3>1. CASE certs[c].status = "expired"
      BY <1>1, <3>1
    <3>2. ASSUME certs[c].status # "expired"
          PROVE  \E r \in Requests : req[r].pc = "expire" /\ c = req[r].cert
      <4>1. ASSUME NEW C \in SUBSET CertificateIds, NEW status \in ClosedStatuses,
                   Closing(C, status)
            PROVE  \E r \in Requests : req[r].pc = "expire" /\ c = req[r].cert
        <5>0. Closes(C, status)
          BY <4>1 DEF Closing
        <5>1. /\ c \in C => certs'[c].status = status
              /\ c \notin C => certs'[c] = certs[c]
          BY <5>0, ClosesFields
        <5>2. c \in C /\ status = "expired"
          BY <1>3, <3>2, <5>1
        <5>. QED
          BY <4>1, <5>2 DEF Closing
      <4>2. ASSUME NEW d \in CertificateIds, NEW p \in Parties, Signs(d, p)
            PROVE  FALSE
        BY <1>3, <3>2, <4>2, SignsFields DEF OpenStatuses
      <4>3. ASSUME NEW s \in Searches, NEW d \in CertificateIds, Inserting(s, d)
            PROVE  FALSE
        BY <1>3, <3>2, <4>3 DEF Inserting, Proposed, TypeOK
      <4>. QED
        BY <1>3, <3>2, <4>1, <4>2, <4>3, CertificatesStep DEF CertificateStep
    <3>. QED
      BY <1>2, <3>1, <3>2
  <2>. QED
    BY <2>1, TooLateStays
<1>4. ASSUME NEW r \in Requests, req'[r].pc = "expire"
      PROVE  TooLate(req[r].cert)'
  <2>1. CASE req'[r] = req[r]
    BY <1>2, <1>4, <2>1, TooLateStays
  <2>2. CASE QueryApplied(r)
    <3>1. req[r] \in Call
      BY <2>2, ProcessTypes DEF QueryApplied
    <3>2. /\ ~ Applied(req[r].cert) /\ Late(req[r].cert)
          /\ req'[r].cert = req[r].cert
      BY <1>4, <2>2, <3>1 DEF QueryApplied, Goto, Done, Idle, TypeOK, Call
    <3>3. req[r].cert \in CertificateIds /\ certs[req[r].cert].status # "none"
      BY <3>1 DEF TypeOK, Call
    <3>. QED
      BY <3>2, <3>3, LateIsTooLate, TooLateStays
  <2>. QED
    BY <1>4, <2>1, <2>2, ExpireFromQuery
<1>5. GivenUpForGood' <=>
          /\ \A c \in CertificateIds : certs'[c].status = "expired" => TooLate(c)'
          /\ \A r \in Requests : req'[r].pc = "expire" => TooLate(req[r].cert)'
  BY DEF GivenUpForGood, ExpiredNeverApplied, TooLate
<1>. QED
  BY <1>3, <1>4, <1>5

\* A certificate given up as expired has not been applied and never will be.
THEOREM ExpiryCorrect == Spec => []ExpiredNeverApplied
<1>1. Init => GivenUpForGood
  BY DEF Init, InitAt, GivenUpForGood, ExpiredNeverApplied, NoCertificate, Idle
<1>2. GivenUpForGood => ExpiredNeverApplied
  BY DEF GivenUpForGood
<1>. QED
  BY <1>1, <1>2, GivenUpStep, TypeCorrect, PTL DEF Spec

-----------------------------------------------------------------------------
(* The rows of the database follow the ledger, whatever calls, searches,   *)
(* closings, disputes and applications overlap, and what an open           *)
(* certificate was built on holds as long as the ledger could still apply  *)
(* it. The invariant behind it: every state of an obligation that a row, a *)
(* certificate or a search holds is one the obligation once had on the     *)
(* ledger, and what it says remains is the amount less every certificate   *)
(* applied until then.                                                     *)

\* The certificates that made the versions 2 to i of an obligation.
Netted(o, i) == {chain[o][j] : j \in 2 .. i}

\* The state st of the obligation is the one its i-th version on the ledger was.
Shows(o, i, st) ==
    /\ chain[o][i] = st.by
    /\ Netted(o, i) \subseteq CertificateIds
    /\ st.remaining + SumFunctionOnSet(WNets, Netted(o, i)) = Terms[o].amount
Held(o, st) == \E i \in DOMAIN chain[o] : Shows(o, i, st)

\* The row of the obligation shows the version v or a later one.
Reached(o, v) ==
    \E i, j \in DOMAIN chain[o] : i <= j /\ chain[o][i] = v /\ chain[o][j] = rows[o].by

\* No version comes twice, and each that a certificate of the service made
\* follows the one the certificate was built on.
Grown(o) ==
    /\ Len(chain[o]) >= 1
    /\ chain[o][1] = Genesis
    /\ \A i, j \in DOMAIN chain[o] : chain[o][i] = chain[o][j] => i = j
    /\ \A i \in 2 .. Len(chain[o]) : \A c \in CertificateIds : chain[o][i] = c =>
          /\ certs[c].status # "none" /\ o \in certs[c].loop
          /\ chain[o][i - 1] = certs[c].before[o].by

\* applyCertificate moves every obligation of the loop.
AppliedToAll(c) ==
    Applied(c) => \A o \in certs[c].loop : \E i \in DOMAIN chain[o] : chain[o][i] = c

BasisHeld(c) ==
    certs[c].status # "none" => \A o \in certs[c].loop :
        Held(o, certs[c].before[o]) /\ Reached(o, certs[c].before[o].by)

\* What a search has read, and the obligations it is about to mark.
SearchHeld(x) ==
    x.pc # "idle" =>
        /\ \A o \in Obligations : x.seen[o].remaining # 0 => Held(o, x.seen[o])
        /\ \A o \in x.loop : x.seen[o].remaining # 0
        /\ x.left \subseteq x.loop /\ x.marking \subseteq x.loop
        /\ x.pc = "mark" => \A o \in x.marking : Commitment(o) # x.seen[o].by

LedgerFollowed ==
    /\ \A o \in Obligations : Grown(o) /\ Held(o, rows[o])
    /\ \A c \in CertificateIds : AppliedToAll(c) /\ BasisHeld(c)
    /\ \A s \in Searches : SearchHeld(search[s])
    /\ \A r \in Requests : req[r].pc = "entries" => Applied(req[r].cert)
-----------------------------------------------------------------------------
(* What a step leaves as it was.                                           *)

\* A certificate once proposed keeps everything but its status, its signatures
\* and its locks.
LEMMA ProposalKept ==
    ASSUME TypeOK, [Next]_vars, NEW c \in CertificateIds, certs[c].status # "none"
    PROVE  /\ certs'[c].status # "none"
           /\ certs'[c].loop = certs[c].loop
           /\ certs'[c].wNet = certs[c].wNet
           /\ certs'[c].before = certs[c].before
<1>1. CASE UNCHANGED certs
  BY <1>1
<1>2. ASSUME NEW C \in SUBSET CertificateIds, NEW status \in ClosedStatuses, Closes(C, status)
      PROVE  /\ certs'[c].status # "none"
             /\ certs'[c].loop = certs[c].loop
             /\ certs'[c].wNet = certs[c].wNet
             /\ certs'[c].before = certs[c].before
  BY <1>2, ClosesFields DEF ClosedStatuses
<1>3. ASSUME NEW d \in CertificateIds, NEW p \in Parties, Signs(d, p)
      PROVE  /\ certs'[c].status # "none"
             /\ certs'[c].loop = certs[c].loop
             /\ certs'[c].wNet = certs[c].wNet
             /\ certs'[c].before = certs[c].before
  BY <1>3, SignsFields DEF OpenStatuses
<1>4. ASSUME NEW s \in Searches, NEW d \in CertificateIds, Inserting(s, d)
      PROVE  certs'[c] = certs[c]
  BY <1>4 DEF Inserting, TypeOK
<1>. QED
  BY <1>1, <1>2, <1>3, <1>4, CertificatesStep DEF CertificateStep, Closing

\* An obligation gets at most one new version, never one it had.
Appended(o, v) ==
    /\ v # Genesis /\ ~ Applied(v)
    /\ chain'[o] = Append(chain[o], v)
    /\ v \in CertificateIds =>
          /\ certs[v].status # "none" /\ o \in certs[v].loop
          /\ Commitment(o) = certs[v].before[o].by

LEMMA OneMore ==
    ASSUME TypeOK, [Next]_vars, NEW o \in Obligations
    PROVE  chain'[o] = chain[o] \/ \E v \in Versions : Appended(o, v)
<1>1. CASE UNCHANGED chain
  BY <1>1
<1>2. ASSUME NEW c \in CertificateIds, ApplyOnLedger(c)
      PROVE  chain'[o] = chain[o] \/ \E v \in Versions : Appended(o, v)
  <2>1. c \in Versions /\ c # Genesis
    BY ConstantsAssumption DEF Versions
  <2>. QED
    BY <1>2, <2>1 DEF ApplyOnLedger, Advance, Appended
<1>3. ASSUME NEW u \in Unseen, NEW loop \in Loops, ApplyUnseen(u, loop)
      PROVE  chain'[o] = chain[o] \/ \E v \in Versions : Appended(o, v)
  <2>1. u \in Versions /\ u # Genesis /\ u \notin CertificateIds
    BY ConstantsAssumption DEF Versions
  <2>. QED
    BY <1>3, <2>1 DEF ApplyUnseen, Advance, Appended
<1>. QED
  BY <1>1, <1>2, <1>3, LedgerStep

\* The versions an obligation has had stay where they are.
LEMMA VersionsKept ==
    ASSUME TypeOK, [Next]_vars, NEW o \in Obligations
    PROVE  /\ chain[o] \in Seq(Versions) /\ chain'[o] \in Seq(Versions)
           /\ Len(chain'[o]) \in {Len(chain[o]), Len(chain[o]) + 1}
           /\ \A i \in DOMAIN chain[o] : i \in DOMAIN chain'[o] /\ chain'[o][i] = chain[o][i]
<1>1. chain[o] \in Seq(Versions)
  BY DEF TypeOK
<1>2. CASE chain'[o] = chain[o]
  BY <1>1, <1>2
<1>3. ASSUME NEW v \in Versions, chain'[o] = Append(chain[o], v)
      PROVE  /\ chain'[o] \in Seq(Versions)
             /\ Len(chain'[o]) \in {Len(chain[o]), Len(chain[o]) + 1}
             /\ \A i \in DOMAIN chain[o] : i \in DOMAIN chain'[o] /\ chain'[o][i] = chain[o][i]
  BY <1>1, <1>3
<1>. QED
  BY <1>1, <1>2, <1>3, OneMore DEF Appended

LEMMA GrownStep ==
    ASSUME TypeOK, [Next]_vars, NEW o \in Obligations, Grown(o)
    PROVE  Grown(o)'
<1>1. /\ Len(chain[o]) \in Nat /\ Len(chain[o]) >= 1
      /\ DOMAIN chain[o] = 1 .. Len(chain[o]) /\ DOMAIN chain'[o] = 1 .. Len(chain'[o])
      /\ chain[o] \in Seq(Versions)
  BY VersionsKept DEF Grown
<1>2. CASE chain'[o] = chain[o]
  BY <1>1, <1>2, ProposalKept DEF Grown
<1>3. ASSUME NEW v \in Versions, Appended(o, v)
      PROVE  Grown(o)'
  <2>. DEFINE n == Len(chain[o])
  <2>1. /\ Len(chain'[o]) = n + 1 /\ chain'[o][n + 1] = v
        /\ \A i \in 1 .. n : chain'[o][i] = chain[o][i]
        /\ chain[o][n] = Commitment(o)
    BY <1>1, <1>3 DEF Appended, Commitment, Last
  <2>2. \A i \in 1 .. n : chain[o][i] # v
    BY <1>1, <1>3 DEF Appended, Applied
  <2>3. chain'[o][1] = Genesis
    BY <1>1, <2>1 DEF Grown
  <2>4. ASSUME NEW i \in 1 .. n + 1, NEW j \in 1 .. n + 1, chain'[o][i] = chain'[o][j]
        PROVE  i = j
    <3>1. CASE i \in 1 .. n /\ j \in 1 .. n
      BY <1>1, <2>1, <2>4, <3>1 DEF Grown
    <3>2. CASE i \notin 1 .. n \/ j \notin 1 .. n
      <4>1. i = n + 1 \/ i \in 1 .. n
        BY <1>1
      <4>2. j = n + 1 \/ j \in 1 .. n
        BY <1>1
      <4>3. \A k \in 1 .. n : chain'[o][k] # chain'[o][n + 1]
        BY <2>1, <2>2
      <4>. HIDE DEF n
      <4>. QED
        BY <2>4, <3>2, <4>1, <4>2, <4>3
    <3>. QED
      BY <3>1, <3>2
  <2>5. ASSUME NEW i \in 2 .. n + 1, NEW c \in CertificateIds, chain'[o][i] = c
        PROVE  /\ certs'[c].status # "none" /\ o \in certs'[c].loop
               /\ chain'[o][i - 1] = certs'[c].before[o].by
    <3>1. CASE i \in 2 .. n
      <4>1. chain[o][i] = c /\ chain'[o][i - 1] = chain[o][i - 1]
        BY <1>1, <2>1, <2>5, <3>1, SMTT(40)
      <4>. QED
        BY <3>1, <4>1, ProposalKept DEF Grown
    <3>2. CASE i = n + 1
      <4>1. c = v /\ chain'[o][i - 1] = Commitment(o)
        BY <1>1, <2>1, <2>5, <3>2
      <4>. QED
        BY <1>3, <4>1, ProposalKept DEF Appended
    <3>. QED
      BY <1>1, <3>1, <3>2
  <2>. QED
    BY <1>1, <2>1, <2>3, <2>4, <2>5 DEF Grown
<1>. QED
  BY <1>2, <1>3, OneMore
-----------------------------------------------------------------------------
(* The states an obligation has had.                                       *)

\* What the versions of an obligation and the certificates behind them say of
\* its state up to the i-th version stays true.
LEMMA NettedFacts ==
    ASSUME TypeOK, NEW o \in Obligations, NEW i \in DOMAIN chain[o],
           Netted(o, i) \subseteq CertificateIds
    PROVE  IsFiniteSet(Netted(o, i)) /\ \A c \in Netted(o, i) : WNets[c] \in Nat
<1>1. i \in Int /\ 2 \in Int
  BY DEF TypeOK
<1>2. IsFiniteSet(2 .. i)
  BY <1>1, FS_Interval, Zenon
<1>. DEFINE f == [j \in 2 .. i |-> chain[o][j]]
<1>3. f \in Surjection(2 .. i, Netted(o, i))
  BY Zenon DEF Surjection, Netted
<1>4. IsFiniteSet(Netted(o, i))
  BY <1>2, <1>3, FS_Surjection DEF ExistsSurjection
<1>5. \A c \in CertificateIds : WNets[c] \in Nat
  BY DEF WNets, TypeOK, Certificate
<1>. QED
  BY <1>4, <1>5

LEMMA ShowsKept ==
    ASSUME TypeOK, [Next]_vars, NEW o \in Obligations, Grown(o),
           NEW i \in DOMAIN chain[o], NEW st, Shows(o, i, st)
    PROVE  i \in DOMAIN chain'[o] /\ Shows(o, i, st)'
<1>1. i \in Nat /\ chain[o] \in Seq(Versions)
  BY DEF TypeOK
<1>2. \A j \in 1 .. i : j \in DOMAIN chain[o] /\ chain'[o][j] = chain[o][j]
  BY <1>1, VersionsKept
<1>3. i \in DOMAIN chain'[o] /\ chain'[o][i] = chain[o][i]
  BY VersionsKept
<1>4. Netted(o, i)' = Netted(o, i)
  BY <1>1, <1>2 DEF Netted
<1>5. \A c \in Netted(o, i) : WNets'[c] = WNets[c]
  <2>1. SUFFICES ASSUME NEW j \in 2 .. i
                 PROVE  WNets'[chain[o][j]] = WNets[chain[o][j]]
    BY DEF Netted
  <2>2. j \in 2 .. Len(chain[o]) /\ chain[o][j] \in CertificateIds
    BY <1>1 DEF Shows, Netted
  <2>3. certs[chain[o][j]].status # "none"
    BY <2>2 DEF Grown
  <2>. QED
    BY <2>2, <2>3, ProposalKept DEF WNets
<1>6. SumFunctionOnSet(WNets', Netted(o, i)) = SumFunctionOnSet(WNets, Netted(o, i))
  BY <1>5, SameSum, NettedFacts DEF Shows
<1>. QED
  BY <1>3, <1>4, <1>6 DEF Shows

\* A state the obligation has had stays one.
LEMMA HeldKept ==
    ASSUME TypeOK, [Next]_vars, NEW o \in Obligations, Grown(o), NEW st, Held(o, st)
    PROVE  Held(o, st)'
<1>1. PICK i \in DOMAIN chain[o] : Shows(o, i, st)
  BY DEF Held
<1>. QED
  BY <1>1, ShowsKept DEF Held

\* The version and what remains are all there is to a state.
LEMMA SameHeld ==
    ASSUME NEW o, NEW st, Held(o, st), NEW other, other.by = st.by,
           other.remaining = st.remaining
    PROVE  Held(o, other)
BY DEF Held, Shows

\* There is one state of an obligation for each version it has had.
LEMMA OneState ==
    ASSUME TypeOK, NEW o \in Obligations, Grown(o), NEW st, Held(o, st),
           NEW other, Held(o, other), st.by = other.by,
           st.remaining \in Nat, other.remaining \in Nat
    PROVE  st.remaining = other.remaining
<1>1. PICK i \in DOMAIN chain[o] : Shows(o, i, st)
  BY DEF Held
<1>2. PICK j \in DOMAIN chain[o] : Shows(o, j, other)
  BY DEF Held
<1>3. i = j
  BY <1>1, <1>2 DEF Grown, Shows
<1>4. SumFunctionOnSet(WNets, Netted(o, i)) \in Nat
  BY <1>1, NettedFacts, SumIsNumber DEF Shows
<1>5. Terms[o].amount \in Nat
  BY ConstantsAssumption
<1>. DEFINE sum == SumFunctionOnSet(WNets, Netted(o, i))
<1>6. st.remaining + sum = other.remaining + sum
  BY <1>1, <1>2, <1>3 DEF Shows
<1>. HIDE DEF sum
<1>. QED
  BY <1>4, <1>6 DEF sum

\* Once the ledger has left a state of an obligation it never comes back to it.
LEMMA LeftForGood ==
    ASSUME TypeOK, [Next]_vars, NEW o \in Obligations, Grown(o), NEW st, Held(o, st),
           Commitment(o) # st.by \/ chain'[o] # chain[o]
    PROVE  Commitment(o)' # st.by
<1>1. PICK i \in DOMAIN chain[o] : chain[o][i] = st.by
  BY DEF Held, Shows
<1>2. CASE chain'[o] = chain[o]
  BY <1>2 DEF Commitment
<1>3. ASSUME NEW v \in Versions, Appended(o, v)
      PROVE  Commitment(o)' # st.by
  <2>1. chain[o] \in Seq(Versions)
    BY DEF TypeOK
  <2>2. Commitment(o)' = v
    BY <1>3, <2>1 DEF Appended, Commitment, Last
  <2>3. st.by # v
    BY <1>1, <1>3 DEF Appended, Applied
  <2>. QED
    BY <2>2, <2>3
<1>. QED
  BY <1>2, <1>3, OneMore

\* finalizeApplied: the state a certificate makes of the one it was built on.
LEMMA NextState ==
    ASSUME TypeOK, NEW c \in CertificateIds, certs[c].status # "none",
           NEW o \in certs[c].loop, Grown(o), Held(o, certs[c].before[o]),
           NEW k \in DOMAIN chain[o], chain[o][k] = c,
           NEW st, st.by = c, st.remaining = certs[c].before[o].remaining - certs[c].wNet
    PROVE  Held(o, st) /\ k - 1 \in DOMAIN chain[o] /\ chain[o][k - 1] = certs[c].before[o].by
<1>. DEFINE basis == certs[c].before[o]
            sum == SumFunctionOnSet(WNets, Netted(o, k - 1))
<1>1. o \in Obligations /\ chain[o] \in Seq(Versions)
  BY DEF TypeOK, Certificate
<1>2. k \in 2 .. Len(chain[o])
  <2>1. k # 1
    BY ConstantsAssumption DEF Grown
  <2>. QED
    BY <1>1, <2>1
<1>3. k - 1 \in DOMAIN chain[o] /\ chain[o][k - 1] = basis.by
  BY <1>1, <1>2 DEF Grown
<1>4. Shows(o, k - 1, basis)
  <2>1. PICK i \in DOMAIN chain[o] : Shows(o, i, basis)
    BY DEF Held
  <2>2. i = k - 1
    BY <1>3, <2>1 DEF Grown, Shows
  <2>. QED
    BY <2>1, <2>2
<1>5. Netted(o, k) = Netted(o, k - 1) \cup {c}
  BY <1>2 DEF Netted
<1>6. c \notin Netted(o, k - 1)
  <2>1. ASSUME NEW j \in 2 .. k - 1
        PROVE  chain[o][j] # c
    <3>1. j \in DOMAIN chain[o] /\ j # k
      BY <1>1, <1>2
    <3>. QED
      BY <3>1 DEF Grown
  <2>. QED
    BY <2>1 DEF Netted
<1>7. /\ IsFiniteSet(Netted(o, k - 1))
      /\ \A d \in Netted(o, k - 1) : WNets[d] \in Nat
  BY <1>1, <1>3, <1>4, NettedFacts DEF Shows
<1>8. WNets[c] = certs[c].wNet /\ certs[c].wNet \in Nat
  BY DEF WNets, TypeOK, Certificate
<1>9. SumFunctionOnSet(WNets, Netted(o, k)) = certs[c].wNet + sum /\ sum \in Nat
  <2>1. \A d \in Netted(o, k - 1) \cup {c} : WNets[d] \in Nat
    BY <1>7, <1>8
  <2>. QED
    BY <1>5, <1>6, <1>7, <1>8, <2>1, SumOfOneMore, SumIsNumber
<1>10. basis.remaining + sum = Terms[o].amount
  BY <1>4 DEF Shows
<1>11. certs[c].wNet \in Nat /\ basis.remaining \in Nat
  BY <1>1, <1>8 DEF TypeOK, Certificate, Basis
<1>. HIDE DEF sum, basis
<1>12. st.remaining + (certs[c].wNet + sum) = Terms[o].amount
  <2>1. st.remaining = basis.remaining - certs[c].wNet
    BY DEF basis
  <2>. QED
    BY <1>9, <1>10, <1>11, <2>1
<1>13. Netted(o, k) \subseteq CertificateIds
  BY <1>4, <1>5 DEF Shows
<1>14. Shows(o, k, st)
  BY <1>9, <1>12, <1>13 DEF Shows
<1>. QED
  BY <1>3, <1>14 DEF Held, basis
-----------------------------------------------------------------------------
(* What a step may do to the rows.                                         *)

\* Closed or disputed, which no open certificate survives.
Taken(o) ==
    /\ rows[o].status # "closed"
    /\ rows[o].status = "out_of_sync" => rows'[o].status = "closed"
    /\ rows'[o].status \in {"closed", "disputed"}
    /\ rows'[o].by = rows[o].by /\ rows'[o].remaining = rows[o].remaining
    /\ \A x \in Obligations : x # o => rows'[x] = rows[x]
    /\ AbandonCollecting(o) /\ ~ HeldByReady(o)

Withdrawn(o) ==
    /\ rows[o].status = "disputed" /\ rows'[o].status = "active"
    /\ rows'[o].by = rows[o].by /\ rows'[o].remaining = rows[o].remaining
    /\ \A x \in Obligations : x # o => rows'[x] = rows[x]

Marking(s, o) ==
    /\ search[s] \in Search /\ search[s].pc = "mark" /\ o \in search[s].marking
    /\ rows[o].by = search[s].seen[o].by
    /\ rows[o].status = "active" /\ rows'[o].status = "out_of_sync"
    /\ rows'[o].by = rows[o].by /\ rows'[o].remaining = rows[o].remaining
    /\ \A x \in Obligations : x # o => rows'[x] = rows[x]
    /\ UNCHANGED <<certs, chain>>

RowStep ==
    \/ UNCHANGED rows
    \/ \E r \in Requests : Finalizing(r)
    \/ \E o \in Obligations :
          \/ Taken(o)
          \/ Withdrawn(o)
          \/ \E s \in Searches : Marking(s, o)

LEMMA RowsStep == TypeOK /\ [Next]_vars => RowStep
<1>. SUFFICES ASSUME TypeOK, [Next]_vars
              PROVE  RowStep
  OBVIOUS
<1>0. rows \in [Obligations -> Row]
  BY DEF TypeOK
<1>1. ASSUME NEW r \in Requests, FinalizeApplied(r)
      PROVE  RowStep
  BY <1>1, ProcessTypes DEF FinalizeApplied, Finalizing, RowStep
<1>2. ASSUME NEW o \in Closable, CloseObligation(o)
      PROVE  RowStep
  <2>1. o \in Obligations
    BY ConstantsAssumption
  <2>2. CASE rows[o].status \in {"active", "out_of_sync", "disputed"} /\ ~ HeldByReady(o)
    <3>1. rows' = [rows EXCEPT ![o] = [rows[o] EXCEPT !.status = "closed"]]
      BY <1>0, <1>2, <2>1, <2>2 DEF CloseObligation
    <3>2. Taken(o)
      BY <1>0, <1>2, <2>1, <2>2, <3>1 DEF CloseObligation, Taken, Row
    <3>. QED
      BY <2>1, <3>2 DEF RowStep
  <2>. QED
    BY <1>2, <2>2 DEF CloseObligation, RowStep
<1>3. ASSUME NEW r \in Requests, DisputeObligation(r)
      PROVE  RowStep
  <2>. DEFINE o == req[r].obligation
  <2>1. o \in Obligations
    BY <1>3, ProcessTypes DEF DisputeObligation, DisputeCall
  <2>2. CASE rows[o].status = "active" /\ ~ HeldByReady(o)
    <3>1. rows' = [rows EXCEPT ![o] = [rows[o] EXCEPT !.status = "disputed",
                                                     !.disputedBy = {req[r].party}]]
      BY <1>0, <1>3, <2>1, <2>2 DEF DisputeObligation
    <3>2. AbandonCollecting(o)
      BY <1>3 DEF DisputeObligation
    <3>. HIDE DEF o
    <3>3. Taken(o)
      BY <1>0, <2>1, <2>2, <3>1, <3>2 DEF Taken, Row
    <3>. QED
      BY <2>1, <3>3 DEF RowStep
  <2>. QED
    BY <1>3, <2>2 DEF DisputeObligation, RowStep
<1>4. ASSUME NEW o \in Disputable, NEW p \in Parties, WithdrawDispute(o, p)
      PROVE  RowStep
  <2>1. o \in Obligations
    BY ConstantsAssumption
  <2>2. rows' = [rows EXCEPT ![o] = [rows[o] EXCEPT !.status = "active", !.disputedBy = {}]]
    BY <1>0, <1>4, <2>1 DEF WithdrawDispute
  <2>3. Withdrawn(o)
    BY <1>0, <1>4, <2>1, <2>2 DEF WithdrawDispute, Withdrawn, Row
  <2>. QED
    BY <2>1, <2>3 DEF RowStep
<1>5. ASSUME NEW s \in Searches, MarkOutOfSync(s)
      PROVE  RowStep
  <2>1. PICK o \in search[s].marking : rows' = Marked(o, search[s].seen[o])
    BY <1>5 DEF MarkOutOfSync
  <2>2. search[s] \in Search /\ search[s].pc = "mark" /\ o \in Obligations
    BY <1>5, ProcessTypes DEF MarkOutOfSync, Search
  <2>3. CASE rows[o].status = "active" /\ rows[o].by = search[s].seen[o].by
    <3>1. rows' = [rows EXCEPT ![o] = [rows[o] EXCEPT !.status = "out_of_sync"]]
      BY <1>0, <2>1, <2>2, <2>3 DEF Marked
    <3>2. Marking(s, o)
      BY <1>0, <1>5, <2>2, <2>3, <3>1 DEF MarkOutOfSync, Marking, Row
    <3>. QED
      BY <2>2, <3>2 DEF RowStep
  <2>. QED
    BY <2>1, <2>3 DEF Marked, RowStep
<1>6. ASSUME NEW r \in Requests, RequestStep(r), ~ FinalizeApplied(r), ~ DisputeObligation(r)
      PROVE  UNCHANGED rows
  BY <1>6 DEF RequestStep, QueryApplied, ReadEntry, Expire, AddSignature, Decline
<1>7. ASSUME NEW s \in Searches, StartSearch(s) \/ SearchStep(s), ~ MarkOutOfSync(s)
      PROVE  UNCHANGED rows
  BY <1>7 DEF SearchStep, StartSearch, CheckMember, SearchAgain, InsertCertificate,
              InsertRefused, Reload
<1>8. CASE \/ \E c \in CertificateIds, p \in Parties : Sign(c, p)
           \/ \E c \in CertificateIds : ApplyOnLedger(c)
           \/ \E u \in Unseen, loop \in Loops : ApplyUnseen(u, loop)
           \/ \E r \in Requests, kind \in Kinds, c \in CertificateIds, p \in Parties :
                 Start(r, kind, c, p)
           \/ \E r \in Requests, o \in Disputable, p \in Parties : StartDispute(r, o, p)
           \/ Tick \/ ChainTick
           \/ UNCHANGED vars
  BY <1>8 DEF Sign, ApplyOnLedger, ApplyUnseen, Start, StartDispute, Tick, ChainTick, vars,
              RowStep
<1>. QED
  BY <1>1, <1>2, <1>3, <1>4, <1>5, <1>6, <1>7, <1>8 DEF Next, RowStep

\* finalizeApplied brings an obligation from the state a certificate was built
\* on to the one it made.
Advanced(r, o) ==
    LET c == req[r].cert IN
    /\ Finalizing(r)
    /\ c \in CertificateIds /\ certs[c].status # "none" /\ o \in certs[c].loop
    /\ rows[o].by = certs[c].before[o].by /\ rows[o].status # "out_of_sync"
    /\ rows'[o].status = rows[o].status /\ rows'[o].by = c
    /\ rows'[o].remaining = certs[c].before[o].remaining - certs[c].wNet
    /\ \E k \in DOMAIN chain[o] : chain[o][k] = c

\* Apart from that it may find an obligation of the certificate moved on.
LEMMA FinalizedRow ==
    ASSUME TypeOK, LedgerFollowed, NEW r \in Requests, Finalizing(r), NEW o \in Obligations
    PROVE  LET c == req[r].cert IN
           /\ c \in CertificateIds /\ certs[c].status # "none"
           /\ o \in certs[c].loop => \E k \in DOMAIN chain[o] : chain[o][k] = c
           /\ \/ rows'[o] = rows[o]
              \/ /\ o \in certs[c].loop
                 /\ rows[o].by = certs[c].before[o].by
                 /\ rows'[o] = [rows[o] EXCEPT !.status = "out_of_sync"]
              \/ Advanced(r, o)
           /\ \/ o \notin certs[c].loop
              \/ rows'[o].status = "out_of_sync"
              \/ rows[o].by # certs[c].before[o].by
              \/ rows'[o].by = c
<1>. DEFINE c == req[r].cert
<1>1. c \in CertificateIds /\ certs[c].status # "none" /\ rows[o] \in Row
  BY DEF Finalizing, TypeOK, Call
<1>2. o \in certs[c].loop => \E k \in DOMAIN chain[o] : chain[o][k] = c
  <2>1. Applied(c) /\ AppliedToAll(c)
    BY <1>1 DEF LedgerFollowed, Finalizing
  <2>. QED
    BY <2>1 DEF AppliedToAll
<1>3. rows'[o] = Finalized(c, req[r].moved)[o]
  BY DEF Finalizing
<1>. DEFINE rest == certs[c].before[o].remaining - certs[c].wNet
            ahead == [rows[o] EXCEPT !.by = c, !.remaining = rest]
<1>4. ahead.by = c /\ ahead.remaining = rest /\ ahead.status = rows[o].status
  <2>. HIDE DEF rest, c
  <2>. QED
    BY <1>1 DEF Row
<1>5. CASE \/ o \notin certs[c].loop
           \/ rows[o].status = "out_of_sync"
           \/ rows[o].by # certs[c].before[o].by
  <2>1. rows'[o] = rows[o]
    BY <1>3, <1>5 DEF Finalized
  <2>. QED
    BY <1>1, <1>2, <1>5, <2>1
<1>6. CASE /\ o \in certs[c].loop
           /\ rows[o].status # "out_of_sync"
           /\ rows[o].by = certs[c].before[o].by
           /\ o \in req[r].moved
  <2>1. rows'[o] = [rows[o] EXCEPT !.status = "out_of_sync"]
    BY <1>3, <1>6 DEF Finalized
  <2>2. rows'[o].status = "out_of_sync"
    BY <1>1, <2>1 DEF Row
  <2>. QED
    BY <1>1, <1>2, <1>6, <2>1, <2>2
<1>7. CASE /\ o \in certs[c].loop
           /\ rows[o].status # "out_of_sync"
           /\ rows[o].by = certs[c].before[o].by
           /\ o \notin req[r].moved
  <2>1. rows'[o] = ahead
    BY <1>3, <1>7 DEF Finalized
  <2>. HIDE DEF ahead
  <2>2. Advanced(r, o)
    BY <1>1, <1>2, <1>4, <1>7, <2>1 DEF Advanced
  <2>. QED
    BY <1>1, <1>2, <1>4, <2>1, <2>2
<1>. QED
  BY <1>5, <1>6, <1>7

\* Nothing else changes the state a row shows.
LEMMA RowAfter ==
    ASSUME TypeOK, LedgerFollowed, [Next]_vars, NEW o \in Obligations
    PROVE  \/ rows'[o].by = rows[o].by /\ rows'[o].remaining = rows[o].remaining
           \/ \E r \in Requests : Advanced(r, o)
<1>1. ASSUME NEW r \in Requests, Finalizing(r)
      PROVE  \/ rows'[o].by = rows[o].by /\ rows'[o].remaining = rows[o].remaining
             \/ Advanced(r, o)
  <2>1. rows[o] \in Row
    BY DEF TypeOK
  <2>2. LET out == [rows[o] EXCEPT !.status = "out_of_sync"]
        IN  out.by = rows[o].by /\ out.remaining = rows[o].remaining
    BY <2>1 DEF Row
  <2>. QED
    BY <1>1, <2>2, FinalizedRow
<1>2. ASSUME NEW x \in Obligations,
             Taken(x) \/ Withdrawn(x) \/ \E s \in Searches : Marking(s, x)
      PROVE  rows'[o].by = rows[o].by /\ rows'[o].remaining = rows[o].remaining
  BY <1>2 DEF Taken, Withdrawn, Marking
<1>. QED
  BY <1>1, <1>2, RowsStep DEF RowStep
-----------------------------------------------------------------------------
(* The invariant, part by part.                                            *)

LEMMA RowHeldStep ==
    ASSUME TypeOK, LedgerFollowed, [Next]_vars, NEW o \in Obligations
    PROVE  Held(o, rows[o])'
<1>1. PICK st : st = rows'[o]
  OBVIOUS
<1>2. Grown(o) /\ Held(o, rows[o])
  BY DEF LedgerFollowed
<1>3. Held(o, st)
  <2>1. CASE st.by = rows[o].by /\ st.remaining = rows[o].remaining
    BY <1>2, <2>1, SameHeld
  <2>2. ASSUME NEW r \in Requests, Advanced(r, o)
        PROVE  Held(o, st)
    <3>. DEFINE c == req[r].cert
    <3>1. /\ c \in CertificateIds /\ certs[c].status # "none" /\ o \in certs[c].loop
          /\ st.by = c /\ st.remaining = certs[c].before[o].remaining - certs[c].wNet
      BY <1>1, <2>2 DEF Advanced
    <3>2. PICK k \in DOMAIN chain[o] : chain[o][k] = c
      BY <2>2 DEF Advanced
    <3>3. Held(o, certs[c].before[o])
      BY <3>1 DEF LedgerFollowed, BasisHeld
    <3>. HIDE DEF c
    <3>. QED
      BY <1>2, <3>1, <3>2, <3>3, NextState
  <2>. QED
    BY <1>1, <2>1, <2>2, RowAfter
<1>4. Held(o, st)'
  BY <1>2, <1>3, HeldKept
<1>. QED
  BY <1>1, <1>4 DEF Held, Shows

\* A row never falls back behind a version it has reached.
LEMMA ReachedKept ==
    ASSUME TypeOK, LedgerFollowed, [Next]_vars, NEW o \in Obligations, NEW v, Reached(o, v)
    PROVE  Reached(o, v)'
<1>1. PICK i \in DOMAIN chain[o], j \in DOMAIN chain[o] :
          i <= j /\ chain[o][i] = v /\ chain[o][j] = rows[o].by
  BY DEF Reached
<1>2. Grown(o) /\ chain[o] \in Seq(Versions)
  BY DEF LedgerFollowed, TypeOK
<1>3. CASE rows'[o].by = rows[o].by
  BY <1>1, <1>3, VersionsKept DEF Reached
<1>4. ASSUME NEW r \in Requests, Advanced(r, o)
      PROVE  Reached(o, v)'
  <2>. DEFINE c == req[r].cert
  <2>1. /\ c \in CertificateIds /\ certs[c].status # "none" /\ o \in certs[c].loop
        /\ rows'[o].by = c /\ rows[o].by = certs[c].before[o].by
    BY <1>4 DEF Advanced
  <2>2. PICK k \in DOMAIN chain[o] : chain[o][k] = c
    BY <1>4 DEF Advanced
  <2>3. Held(o, certs[c].before[o])
    BY <2>1 DEF LedgerFollowed, BasisHeld
  <2>4. k - 1 \in DOMAIN chain[o] /\ chain[o][k - 1] = certs[c].before[o].by
    <3>. HIDE DEF c
    <3>1. PICK st : st = [by |-> c, remaining |-> certs[c].before[o].remaining - certs[c].wNet]
      OBVIOUS
    <3>2. st.by = c /\ st.remaining = certs[c].before[o].remaining - certs[c].wNet
      BY <3>1
    <3>. QED
      BY <1>2, <2>1, <2>2, <2>3, <3>2, NextState
  <2>5. j = k - 1
    BY <1>1, <1>2, <2>1, <2>4 DEF Grown
  <2>6. i <= k
    BY <1>1, <1>2, <2>5
  <2>7. /\ i \in DOMAIN chain'[o] /\ chain'[o][i] = v
        /\ k \in DOMAIN chain'[o] /\ chain'[o][k] = c
    BY <1>1, <2>2, VersionsKept
  <2>. QED
    BY <2>1, <2>6, <2>7 DEF Reached
<1>. QED
  BY <1>3, <1>4, RowAfter

\* A certificate of this step is one a search proposed from what it had read.
LEMMA NewCertificate ==
    ASSUME TypeOK, [Next]_vars, NEW c \in CertificateIds,
           certs[c].status = "none", certs'[c].status # "none"
    PROVE  \E s \in Searches :
               /\ Inserting(s, c)
               /\ UNCHANGED <<rows, chain>>
               /\ certs'[c].loop = search[s].loop
               /\ search[s].loop \subseteq Obligations
               /\ certs'[c].status = "collecting"
               /\ \A o \in search[s].loop :
                     /\ certs'[c].before[o] = search[s].seen[o]
                     /\ rows[o].status = "active" /\ rows[o].by = search[s].seen[o].by
<1>1. ASSUME NEW C \in SUBSET CertificateIds, NEW status \in ClosedStatuses, Closes(C, status)
      PROVE  FALSE
  <2>1. c \in C
    BY <1>1, ClosesFields
  <2>. QED
    BY <1>1, <2>1 DEF Closes, Open, OpenStatuses
<1>2. ASSUME NEW d \in CertificateIds, NEW p \in Parties, Signs(d, p)
      PROVE  FALSE
  BY <1>2, SignsFields DEF Signs
<1>3. PICK s \in Searches, d \in CertificateIds : Inserting(s, d)
  BY <1>1, <1>2, CertificatesStep DEF CertificateStep, Closing
<1>4. d = c
  BY <1>3 DEF Inserting, TypeOK
<1>5. certs'[c] = Proposed(s)
  BY <1>3, <1>4 DEF Inserting, TypeOK
<1>6. search[s].loop \subseteq Obligations
  BY <1>3, LoopsHold DEF Inserting, Search
<1>7. \A o \in search[s].loop : rows[o].status = "active" /\ rows[o].by = search[s].seen[o].by
  BY <1>3 DEF Inserting, Insertable
<1>8. /\ Proposed(s).loop = search[s].loop /\ Proposed(s).status = "collecting"
      /\ \A o \in search[s].loop : Proposed(s).before[o] = search[s].seen[o]
  BY <1>6 DEF Proposed
<1>. QED
  BY <1>3, <1>4, <1>5, <1>6, <1>7, <1>8 DEF Inserting

LEMMA BasisHeldStep ==
    ASSUME TypeOK, LedgerFollowed, [Next]_vars, NEW c \in CertificateIds
    PROVE  BasisHeld(c)'
<1>1. ASSUME certs[c].status # "none", NEW o \in certs'[c].loop
      PROVE  Held(o, certs[c].before[o])' /\ Reached(o, certs[c].before[o].by)'
  <2>1. o \in certs[c].loop /\ certs'[c].before = certs[c].before /\ o \in Obligations
    BY <1>1, ProposalKept DEF TypeOK, Certificate
  <2>2. PICK st : st = certs[c].before[o]
    OBVIOUS
  <2>3. Grown(o) /\ Held(o, st) /\ Reached(o, st.by)
    BY <1>1, <2>1, <2>2 DEF LedgerFollowed, BasisHeld
  <2>4. Held(o, st)' /\ Reached(o, st.by)'
    BY <2>1, <2>3, HeldKept, ReachedKept
  <2>. QED
    BY <2>1, <2>2, <2>4 DEF Held, Shows, Reached
<1>2. ASSUME certs[c].status = "none", certs'[c].status # "none", NEW o \in certs'[c].loop
      PROVE  Held(o, certs[c].before[o])' /\ Reached(o, certs[c].before[o].by)'
  <2>1. PICK s \in Searches :
            /\ Inserting(s, c)
            /\ certs'[c].loop = search[s].loop
            /\ search[s].loop \subseteq Obligations
            /\ \A x \in search[s].loop :
                  /\ certs'[c].before[x] = search[s].seen[x]
                  /\ rows[x].status = "active" /\ rows[x].by = search[s].seen[x].by
    BY <1>2, NewCertificate
  <2>2. o \in search[s].loop /\ o \in Obligations
    BY <1>2, <2>1
  <2>3. PICK st : st = search[s].seen[o]
    OBVIOUS
  <2>4. Held(o, st)
    <3>1. search[s].pc # "idle"
      BY <2>1 DEF Inserting, Search
    <3>. QED
      BY <2>2, <2>3, <3>1 DEF LedgerFollowed, SearchHeld
  <2>5. Grown(o) /\ Held(o, rows[o]) /\ rows[o].by = st.by
    BY <2>1, <2>2, <2>3 DEF LedgerFollowed
  <2>6. Reached(o, st.by)
    <3>1. PICK i \in DOMAIN chain[o] : chain[o][i] = st.by
      BY <2>5 DEF Held, Shows
    <3>2. i <= i
      BY <2>2, <3>1 DEF TypeOK
    <3>. QED
      BY <2>5, <3>1, <3>2 DEF Reached
  <2>7. Held(o, st)' /\ Reached(o, st.by)'
    BY <2>2, <2>4, <2>5, <2>6, HeldKept, ReachedKept
  <2>8. certs'[c].before[o] = st
    BY <2>1, <2>2, <2>3
  <2>. QED
    BY <2>7, <2>8 DEF Held, Shows, Reached
<1>. QED
  BY <1>1, <1>2 DEF BasisHeld

\* What the ledger has applied stays applied.
LEMMA AppliedStays ==
    ASSUME TypeOK, [Next]_vars, NEW c, Applied(c)
    PROVE  Applied(c)'
<1>1. PICK o \in Obligations : \E i \in DOMAIN chain[o] : chain[o][i] = c
  BY DEF Applied
<1>2. \E i \in DOMAIN chain'[o] : chain'[o][i] = c
  BY <1>1, VersionsKept
<1>. QED
  BY <1>2 DEF Applied

\* A certificate the ledger has applied is one the service proposed.
LEMMA AppliedProposed ==
    ASSUME TypeOK, \A o \in Obligations : Grown(o), NEW c \in CertificateIds, Applied(c)
    PROVE  certs[c].status # "none"
<1>1. PICK o \in Obligations : \E i \in DOMAIN chain[o] : chain[o][i] = c
  BY DEF Applied
<1>2. PICK i \in DOMAIN chain[o] : chain[o][i] = c
  BY <1>1
<1>3. i # 1
  BY <1>2, ConstantsAssumption DEF Grown
<1>4. i \in 2 .. Len(chain[o])
  BY <1>2, <1>3 DEF TypeOK
<1>. QED
  BY <1>2, <1>4 DEF Grown

LEMMA AppliedToAllStep ==
    ASSUME TypeOK, LedgerFollowed, [Next]_vars, NEW c \in CertificateIds
    PROVE  AppliedToAll(c)'
<1>. SUFFICES ASSUME Applied(c)', NEW o \in certs'[c].loop
              PROVE  \E i \in DOMAIN chain'[o] : chain'[o][i] = c
  BY DEF AppliedToAll
<1>1. CASE Applied(c)
  <2>1. o \in certs[c].loop /\ o \in Obligations
    BY <1>1, AppliedProposed, ProposalKept DEF LedgerFollowed, TypeOK, Certificate
  <2>2. PICK i \in DOMAIN chain[o] : chain[o][i] = c
    BY <1>1, <2>1 DEF LedgerFollowed, AppliedToAll
  <2>. QED
    BY <2>1, <2>2, VersionsKept
<1>2. CASE ~ Applied(c)
  <2>1. ASSUME UNCHANGED chain
        PROVE  FALSE
    BY <1>2, <2>1 DEF Applied
  <2>2. ASSUME NEW u \in Unseen, NEW loop \in Loops, ApplyUnseen(u, loop)
        PROVE  FALSE
    BY <1>2, <2>2, AppliedUnchanged, ConstantsAssumption DEF ApplyUnseen, Versions
  <2>3. PICK d \in CertificateIds : ApplyOnLedger(d)
    BY <2>1, <2>2, LedgerStep
  <2>4. d = c
    BY <1>2, <2>3, AppliedUnchanged DEF ApplyOnLedger, Versions
  <2>5. o \in certs[c].loop /\ o \in Obligations
    BY <2>3 DEF ApplyOnLedger, TypeOK, Certificate
  <2>6. chain'[o] = Append(chain[o], c) /\ chain[o] \in Seq(Versions)
    BY <2>3, <2>4, <2>5 DEF ApplyOnLedger, Advance, TypeOK
  <2>. QED
    BY <2>6
<1>. QED
  BY <1>1, <1>2

\* A call reads the entries of a certificate the ledger has applied.
LEMMA EntriesStep ==
    ASSUME TypeOK, LedgerFollowed, [Next]_vars, NEW r \in Requests, req'[r].pc = "entries"
    PROVE  Applied(req[r].cert)'
<1>. USE DEF TypeOK
<1>1. ASSUME req'[r] = req[r]
      PROVE  Applied(req'[r].cert)
  BY <1>1 DEF LedgerFollowed
<1>2. ASSUME NEW q \in Requests, RequestStep(q)
      PROVE  Applied(req'[r].cert)
  <2>1. CASE QueryApplied(q)
    <3>1. req[q] \in Call
      BY <2>1, ProcessTypes DEF QueryApplied
    <3>2. CASE q = r
      <4>1. CASE /\ Applied(req[q].cert)
                 /\ req' = [req EXCEPT ![q] = [req[q] EXCEPT
                                 !.pc = "entries", !.left = certs[req[q].cert].loop]]
        BY <3>1, <3>2, <4>1 DEF Call
      <4>2. CASE req' = [req EXCEPT ![q] = [req[q] EXCEPT !.pc = "expire"]]
        BY <3>1, <3>2, <4>2 DEF Call
      <4>3. CASE req' = [req EXCEPT ![q] = [req[q] EXCEPT !.pc = "act"]]
        BY <3>1, <3>2, <4>3 DEF Call
      <4>4. CASE req' = [req EXCEPT ![q] = Idle]
        BY <3>2, <4>4 DEF Idle
      <4>. QED
        BY <2>1, <4>1, <4>2, <4>3, <4>4 DEF QueryApplied, Goto, Done
    <3>3. CASE q # r
      BY <1>1, <2>1, <3>3 DEF QueryApplied, Goto, Done
    <3>. QED
      BY <3>2, <3>3
  <2>2. ASSUME NEW o \in Obligations, ReadEntry(q, o)
        PROVE  Applied(req'[r].cert)
    <3>1. req[q] \in Call /\ req[q].pc = "entries"
      BY <2>2, ProcessTypes DEF ReadEntry
    <3>. DEFINE moved == IF Commitment(o) # req[q].cert THEN req[q].moved \cup {o}
                                                        ELSE req[q].moved
                after == [req[q] EXCEPT !.left = @ \ {o}, !.moved = moved]
    <3>2. req' = [req EXCEPT ![q] = after]
      BY <2>2 DEF ReadEntry
    <3>3. after.cert = req[q].cert
      BY <3>1 DEF Call
    <3>. HIDE DEF after
    <3>4. CASE q = r
      BY <3>1, <3>2, <3>3, <3>4 DEF LedgerFollowed
    <3>5. CASE q # r
      BY <1>1, <3>2, <3>5
    <3>. QED
      BY <3>4, <3>5
  <2>3. CASE ~ QueryApplied(q) /\ ~ \E o \in Obligations : ReadEntry(q, o)
    <3>1. Done(q)
      BY <1>2, <2>3 DEF RequestStep, FinalizeApplied, Expire, AddSignature, Decline,
                        DisputeObligation
    <3>2. q # r
      BY <3>1 DEF Done, Idle
    <3>. QED
      BY <1>1, <3>1, <3>2 DEF Done
  <2>. QED
    BY <2>1, <2>2, <2>3
<1>3. ASSUME NEW q \in Requests, req'[q].pc # "entries",
             \A p \in Requests : p # q => req'[p] = req[p]
      PROVE  req'[r] = req[r]
  BY <1>3
<1>4. ASSUME NEW q \in Requests, NEW kind \in Kinds, NEW c \in CertificateIds,
             NEW p \in Parties, Start(q, kind, c, p)
      PROVE  req'[r] = req[r]
  BY <1>3, <1>4 DEF Start
<1>5. ASSUME NEW q \in Requests, NEW o \in Disputable, NEW p \in Parties, StartDispute(q, o, p)
      PROVE  req'[r] = req[r]
  BY <1>3, <1>5 DEF StartDispute
<1>6. ASSUME NEW s \in Searches, StartSearch(s) \/ SearchStep(s)
      PROVE  UNCHANGED req
  BY <1>6 DEF SearchStep, StartSearch, CheckMember, MarkOutOfSync, SearchAgain,
              InsertCertificate, InsertRefused, Reload
<1>7. ASSUME \/ \E c \in CertificateIds, p \in Parties : Sign(c, p)
             \/ \E c \in CertificateIds : ApplyOnLedger(c)
             \/ \E u \in Unseen, loop \in Loops : ApplyUnseen(u, loop)
             \/ \E o \in Closable : CloseObligation(o)
             \/ \E o \in Disputable, p \in Parties : WithdrawDispute(o, p)
             \/ Tick \/ ChainTick
             \/ UNCHANGED vars
      PROVE  Applied(req'[r].cert)
  BY <1>1, <1>7 DEF Sign, ApplyOnLedger, ApplyUnseen, CloseObligation, WithdrawDispute, Tick,
                    ChainTick, vars
<1>8. Applied(req'[r].cert)
  BY <1>1, <1>2, <1>4, <1>5, <1>6, <1>7 DEF Next
<1>9. PICK c : c = req'[r].cert
  OBVIOUS
<1>10. Applied(c)'
  BY <1>8, <1>9, AppliedStays
<1>. QED
  BY <1>9, <1>10 DEF Applied

\* What a search holds stays true while it waits.
LEMMA SearchKept ==
    ASSUME TypeOK, [Next]_vars, \A o \in Obligations : Grown(o),
           NEW x \in Search \cup {Idle}, SearchHeld(x)
    PROVE  SearchHeld(x)'
<1>. SUFFICES ASSUME x.pc # "idle"
              PROVE  SearchHeld(x)'
  BY DEF SearchHeld
<1>1. x \in Search /\ x.loop \subseteq Obligations
  BY LoopsHold DEF Idle, Search
<1>2. ASSUME NEW o \in Obligations, x.seen[o].remaining # 0
      PROVE  Held(o, x.seen[o])'
  <2>1. Held(o, x.seen[o])
    BY <1>2 DEF SearchHeld
  <2>. QED
    BY <2>1, HeldKept
<1>3. ASSUME x.pc = "mark", NEW o \in x.marking
      PROVE  Commitment(o)' # x.seen[o].by
  <2>1. o \in Obligations /\ x.seen[o].remaining # 0
    BY <1>1, <1>3 DEF SearchHeld
  <2>2. Held(o, x.seen[o]) /\ Commitment(o) # x.seen[o].by
    BY <1>3, <2>1 DEF SearchHeld
  <2>. QED
    BY <2>1, <2>2, LeftForGood
<1>. QED
  BY <1>2, <1>3 DEF SearchHeld

\* An attempt of a search takes obligations of which it has read a state.
LEMMA AttemptHeld ==
    ASSUME TypeOK, NEW s \in Searches, NEW seen, NEW excluded, NEW at, NEW count,
           \A o \in Obligations : seen[o].remaining # 0 => Held(o, seen[o]),
           Attempt(s, seen, excluded, at, count)
    PROVE  \E x : x = search'[s] /\ SearchHeld(x)
<1>1. CASE search' = [search EXCEPT ![s] = Idle]
  <2>1. search'[s] = Idle
    BY <1>1 DEF TypeOK
  <2>. QED
    BY <2>1 DEF SearchHeld, Idle
<1>2. ASSUME NEW loop \in Candidates(seen, excluded),
             search' = [search EXCEPT ![s] =
                 [pc |-> "check", seen |-> seen, excluded |-> excluded, at |-> at,
                  count |-> count, loop |-> loop, left |-> loop, marking |-> {},
                  stale |-> FALSE]]
      PROVE  \E x : x = search'[s] /\ SearchHeld(x)
  <2>. DEFINE x == [pc |-> "check", seen |-> seen, excluded |-> excluded, at |-> at,
                    count |-> count, loop |-> loop, left |-> loop, marking |-> {},
                    stale |-> FALSE]
  <2>1. search'[s] = x
    BY <1>2 DEF TypeOK
  <2>2. \A o \in loop : seen[o].remaining # 0
    BY DEF Candidates
  <2>3. SearchHeld(x)
    BY <2>2 DEF SearchHeld
  <2>. QED
    BY <2>1, <2>3
<1>. QED
  BY <1>1, <1>2 DEF Attempt

LEMMA SnapshotHeld ==
    ASSUME LedgerFollowed, NEW o \in Obligations, Snapshot[o].remaining # 0
    PROVE  Held(o, Snapshot[o])
<1>. DEFINE read == [by |-> rows[o].by, remaining |-> rows[o].remaining]
<1>1. Snapshot[o] = read
  BY DEF Snapshot, Nothing
<1>2. Held(o, read)
  <2>1. Held(o, rows[o])
    BY DEF LedgerFollowed
  <2>. QED
    BY <2>1, SameHeld
<1>. QED
  BY <1>1, <1>2

\* What a step of a search leaves it holding.
LEMMA SearchNext ==
    ASSUME TypeOK, LedgerFollowed, NEW s \in Searches, StartSearch(s) \/ SearchStep(s)
    PROVE  \E x : x = search'[s] /\ SearchHeld(x)
<1>. DEFINE before == search[s]
<1>0. SearchHeld(before) /\ search \in [Searches -> Search \cup {Idle}]
  BY DEF LedgerFollowed, TypeOK
<1>1. CASE StartSearch(s)
  BY <1>1, AttemptHeld, SnapshotHeld DEF StartSearch
<1>2. ASSUME NEW o \in Obligations, CheckMember(s, o)
      PROVE  \E x : x = search'[s] /\ SearchHeld(x)
  <2>. DEFINE checked == [before EXCEPT !.left = @ \ {o}]
              mark == [before EXCEPT !.pc = "mark", !.marking = {o}]
  <2>1. before \in Search /\ before.pc = "check" /\ o \in before.left
    BY <1>2, ProcessTypes DEF CheckMember
  <2>2. CASE Commitment(o) = before.seen[o].by
    <3>1. search'[s] = checked
      BY <1>0, <1>2, <2>2 DEF CheckMember
    <3>2. SearchHeld(checked)
      BY <1>0, <2>1 DEF SearchHeld, Search
    <3>. QED
      BY <3>1, <3>2
  <2>3. CASE Commitment(o) # before.seen[o].by
    <3>1. search'[s] = mark
      BY <1>0, <1>2, <2>3 DEF CheckMember
    <3>2. /\ mark.pc = "mark" /\ mark.seen = before.seen /\ mark.loop = before.loop
          /\ mark.left = before.left /\ mark.marking = {o}
      BY <2>1 DEF Search
    <3>. HIDE DEF mark
    <3>3. SearchHeld(mark)
      BY <1>0, <2>1, <2>3, <3>2 DEF SearchHeld
    <3>. QED
      BY <3>1, <3>3
  <2>. QED
    BY <2>2, <2>3
<1>3. CASE MarkOutOfSync(s)
  <2>1. before \in Search /\ before.pc = "mark"
    BY <1>3, ProcessTypes DEF MarkOutOfSync
  <2>2. PICK o \in before.marking :
            search' = [search EXCEPT ![s].pc = "check", ![s].marking = {},
                                     ![s].left = @ \ {o}, ![s].excluded = @ \cup {o},
                                     ![s].stale = TRUE]
    BY <1>3 DEF MarkOutOfSync
  <2>. DEFINE after == [before EXCEPT !.pc = "check", !.marking = {}, !.left = @ \ {o},
                                      !.excluded = @ \cup {o}, !.stale = TRUE]
  <2>3. search'[s] = after
    BY <1>0, <2>2
  <2>4. /\ after.pc = "check" /\ after.seen = before.seen /\ after.loop = before.loop
        /\ after.left \subseteq before.left /\ after.marking = {}
    BY <2>1 DEF Search
  <2>. HIDE DEF after
  <2>5. SearchHeld(after)
    BY <1>0, <2>1, <2>4 DEF SearchHeld
  <2>. QED
    BY <2>3, <2>5
<1>4. CASE SearchAgain(s)
  <2>1. \A o \in Obligations : before.seen[o].remaining # 0 => Held(o, before.seen[o])
    BY <1>0, <1>4 DEF SearchAgain, SearchHeld
  <2>. QED
    BY <1>4, <2>1, AttemptHeld DEF SearchAgain
<1>5. ASSUME NEW c \in CertificateIds, InsertCertificate(s, c)
      PROVE  \E x : x = search'[s] /\ SearchHeld(x)
  <2>1. search'[s] = Idle
    BY <1>0, <1>5 DEF InsertCertificate
  <2>. QED
    BY <2>1 DEF SearchHeld, Idle
<1>6. CASE InsertRefused(s)
  <2>. DEFINE after == [before EXCEPT !.pc = "reload"]
  <2>1. before \in Search /\ before.pc = "check"
    BY <1>6, ProcessTypes DEF InsertRefused, Drawn
  <2>2. search'[s] = after
    BY <1>0, <1>6 DEF InsertRefused
  <2>3. SearchHeld(after)
    BY <1>0, <2>1 DEF SearchHeld, Search
  <2>. QED
    BY <2>2, <2>3
<1>7. CASE Reload(s)
  BY <1>7, AttemptHeld, SnapshotHeld DEF Reload
<1>. QED
  BY <1>1, <1>2, <1>3, <1>4, <1>5, <1>6, <1>7 DEF SearchStep

LEMMA SearchHeldStep ==
    ASSUME TypeOK, LedgerFollowed, [Next]_vars, NEW s \in Searches
    PROVE  SearchHeld(search[s])'
<1>1. \E x : x = search'[s] /\ SearchHeld(x)
  <2>1. ASSUME search'[s] = search[s]
        PROVE  \E x : x = search'[s] /\ SearchHeld(x)
    BY <2>1 DEF LedgerFollowed
  <2>2. ASSUME NEW t \in Searches, StartSearch(t) \/ SearchStep(t)
        PROVE  t = s \/ search'[s] = search[s]
    BY <2>2 DEF SearchStep, StartSearch, CheckMember, MarkOutOfSync, SearchAgain,
                InsertCertificate, InsertRefused, Reload, Attempt, TypeOK
  <2>3. ASSUME NEW r \in Requests, RequestStep(r)
        PROVE  UNCHANGED search
    BY <2>3 DEF RequestStep, QueryApplied, ReadEntry, FinalizeApplied, Expire, AddSignature,
                Decline, DisputeObligation
  <2>4. ASSUME \/ \E c \in CertificateIds, p \in Parties : Sign(c, p)
               \/ \E c \in CertificateIds : ApplyOnLedger(c)
               \/ \E u \in Unseen, loop \in Loops : ApplyUnseen(u, loop)
               \/ \E r \in Requests, kind \in Kinds, c \in CertificateIds, p \in Parties :
                     Start(r, kind, c, p)
               \/ \E o \in Closable : CloseObligation(o)
               \/ \E r \in Requests, o \in Disputable, p \in Parties : StartDispute(r, o, p)
               \/ \E o \in Disputable, p \in Parties : WithdrawDispute(o, p)
               \/ Tick \/ ChainTick
               \/ UNCHANGED vars
        PROVE  UNCHANGED search
    BY <2>4 DEF Sign, ApplyOnLedger, ApplyUnseen, Start, CloseObligation, StartDispute,
                WithdrawDispute, Tick, ChainTick, vars
  <2>. QED
    BY <2>1, <2>2, <2>3, <2>4, SearchNext DEF Next
<1>2. PICK x : x = search'[s] /\ SearchHeld(x)
  BY <1>1
<1>3. x \in Search \cup {Idle}
  BY <1>2, TypeStep DEF TypeOK
<1>4. SearchHeld(x)'
  BY <1>2, <1>3, SearchKept DEF LedgerFollowed
<1>. QED
  BY <1>2, <1>4 DEF SearchHeld

LEMMA LedgerFollowedInit == Init => LedgerFollowed
<1>. SUFFICES ASSUME Init PROVE LedgerFollowed
  OBVIOUS
<1>1. ASSUME NEW o \in Obligations
      PROVE  Grown(o) /\ Held(o, rows[o])
  <2>1. chain[o] = <<Genesis>>
    BY <1>1 DEF Init, InitAt
  <2>2. /\ Len(chain[o]) = 1 /\ DOMAIN chain[o] = {1} /\ chain[o][1] = Genesis
        /\ 2 .. Len(chain[o]) = {}
    BY <2>1
  <2>3. Grown(o)
    BY <2>2 DEF Grown
  <2>4. 2 .. 1 = {}
    OBVIOUS
  <2>5. Netted(o, 1) = {}
    BY <2>4 DEF Netted
  <2>6. rows[o].by = Genesis /\ rows[o].remaining = Terms[o].amount
    BY DEF Init, InitAt
  <2>7. rows[o].remaining + SumFunctionOnSet(WNets, {}) = Terms[o].amount
    <3>1. SumFunctionOnSet(WNets, {}) = 0
      BY SumOfNone
    <3>2. Terms[o].amount \in Nat
      BY ConstantsAssumption
    <3>. QED
      BY <2>6, <3>1, <3>2
  <2>8. Shows(o, 1, rows[o])
    BY <2>2, <2>5, <2>6, <2>7 DEF Shows
  <2>. QED
    BY <2>2, <2>3, <2>8 DEF Held
<1>2. ASSUME NEW c \in CertificateIds
      PROVE  AppliedToAll(c) /\ BasisHeld(c)
  <2>1. ~ Applied(c)
    BY ConstantsAssumption DEF Init, InitAt, Applied
  <2>2. certs[c].status = "none"
    BY DEF Init, InitAt, NoCertificate
  <2>. QED
    BY <2>1, <2>2 DEF AppliedToAll, BasisHeld
<1>3. \A s \in Searches : SearchHeld(search[s])
  BY DEF Init, InitAt, Idle, SearchHeld
<1>4. \A r \in Requests : req[r].pc # "entries"
  BY DEF Init, InitAt, Idle
<1>. QED
  BY <1>1, <1>2, <1>3, <1>4 DEF LedgerFollowed

LEMMA LedgerFollowedStep == TypeOK /\ LedgerFollowed /\ [Next]_vars => LedgerFollowed'
<1>. SUFFICES ASSUME TypeOK, LedgerFollowed, [Next]_vars
              PROVE  LedgerFollowed'
  OBVIOUS
<1>1. \A o \in Obligations : Grown(o)' /\ Held(o, rows[o])'
  BY GrownStep, RowHeldStep DEF LedgerFollowed
<1>2. \A c \in CertificateIds : AppliedToAll(c)' /\ BasisHeld(c)'
  BY AppliedToAllStep, BasisHeldStep
<1>3. \A s \in Searches : SearchHeld(search[s])'
  BY SearchHeldStep
<1>4. \A r \in Requests : req'[r].pc = "entries" => Applied(req[r].cert)'
  BY EntriesStep
<1>. QED
  BY <1>1, <1>2, <1>3, <1>4 DEF LedgerFollowed

\* Every state a row, a certificate or a search holds of an obligation is one the
\* obligation has had on the ledger.
THEOREM AlwaysFollowed == Spec => []LedgerFollowed
<1>. QED
  BY LedgerFollowedInit, LedgerFollowedStep, TypeCorrect, PTL DEF Spec
-----------------------------------------------------------------------------
(* What the invariant says of the rows.                                    *)

LEMMA KnownVersion ==
    ASSUME NEW o \in Obligations, Grown(o), NEW i \in DOMAIN chain[o], chain[o][i] = rows[o].by
    PROVE  Known(o) = i /\ NettedSoFar(o) = Netted(o, i)
<1>1. Known(o) = i
  BY DEF Known, Grown
<1>. QED
  BY <1>1 DEF NettedSoFar, Netted

\* What a row says remains of an obligation is its amount less every certificate
\* the ledger has applied to it up to the state the row shows, each counted
\* once, and the row shows no state the ledger has not had.
THEOREM RowsCorrect == Spec => []RowsFollowLedger
<1>1. ASSUME LedgerFollowed
      PROVE  RowsFollowLedger
  <2>1. SUFFICES ASSUME NEW o \in Obligations
                 PROVE  /\ \E i \in DOMAIN chain[o] : chain[o][i] = rows[o].by
                        /\ NettedSoFar(o) \subseteq CertificateIds
                        /\ rows[o].remaining + SumFunctionOnSet(WNets, NettedSoFar(o))
                              = Terms[o].amount
    BY DEF RowsFollowLedger
  <2>2. Grown(o)
    BY <1>1 DEF LedgerFollowed
  <2>3. PICK i \in DOMAIN chain[o] : Shows(o, i, rows[o])
    BY <1>1 DEF LedgerFollowed, Held
  <2>4. NettedSoFar(o) = Netted(o, i)
    BY <2>2, <2>3, KnownVersion DEF Shows
  <2>. QED
    BY <2>3, <2>4 DEF Shows
<1>. QED
  BY <1>1, AlwaysFollowed, PTL
-----------------------------------------------------------------------------
(* Out of sync.                                                            *)

\* A certificate of an obligation is applied: the ledger has left the state it
\* was built on.
LEMMA BasisLeft ==
    ASSUME TypeOK, LedgerFollowed, NEW c \in CertificateIds, certs[c].status # "none",
           NEW o \in certs[c].loop, NEW k \in DOMAIN chain[o], chain[o][k] = c
    PROVE  /\ Commitment(o) # certs[c].before[o].by
           /\ k - 1 \in DOMAIN chain[o] /\ chain[o][k - 1] = certs[c].before[o].by
<1>1. o \in Obligations /\ chain[o] \in Seq(Versions)
  BY DEF TypeOK, Certificate
<1>2. Grown(o) /\ Held(o, certs[c].before[o])
  BY <1>1 DEF LedgerFollowed, BasisHeld
<1>3. k - 1 \in DOMAIN chain[o] /\ chain[o][k - 1] = certs[c].before[o].by
  <2>1. PICK st : st = [by |-> c, remaining |-> certs[c].before[o].remaining - certs[c].wNet]
    OBVIOUS
  <2>2. st.by = c /\ st.remaining = certs[c].before[o].remaining - certs[c].wNet
    BY <2>1
  <2>. QED
    BY <1>2, <2>2, NextState
<1>4. Len(chain[o]) \in DOMAIN chain[o] /\ k - 1 # Len(chain[o])
  BY <1>1
<1>5. chain[o][Len(chain[o])] # chain[o][k - 1]
  BY <1>2, <1>3, <1>4 DEF Grown
<1>. QED
  BY <1>3, <1>5 DEF Commitment, Last

LEMMA OutOfSyncStep ==
    ASSUME TypeOK, LedgerFollowed, OutOfSyncIsReal, [Next]_vars
    PROVE  OutOfSyncIsReal'
<1>. SUFFICES ASSUME NEW o \in Obligations, rows'[o].status = "out_of_sync"
              PROVE  Commitment(o)' # rows'[o].by
  BY DEF OutOfSyncIsReal
<1>0. rows[o] \in Row /\ Grown(o) /\ Held(o, rows[o])
  BY DEF TypeOK, LedgerFollowed
<1>1. CASE rows'[o] = rows[o]
  <2>1. Commitment(o) # rows[o].by
    BY <1>1 DEF OutOfSyncIsReal
  <2>2. PICK st : st = rows[o]
    OBVIOUS
  <2>3. Commitment(o)' # st.by
    BY <1>0, <2>1, <2>2, LeftForGood
  <2>. QED
    BY <1>1, <2>2, <2>3
<1>2. ASSUME NEW r \in Requests, Finalizing(r), rows'[o] # rows[o]
      PROVE  Commitment(o)' # rows'[o].by
  <2>. DEFINE c == req[r].cert
  <2>1. c \in CertificateIds /\ certs[c].status # "none"
    BY <1>2, FinalizedRow
  <2>2. /\ o \in certs[c].loop /\ rows[o].by = certs[c].before[o].by
        /\ rows'[o] = [rows[o] EXCEPT !.status = "out_of_sync"]
    BY <1>2, FinalizedRow DEF Advanced
  <2>3. PICK k \in DOMAIN chain[o] : chain[o][k] = c
    BY <1>2, <2>2, FinalizedRow
  <2>4. Commitment(o) # rows[o].by
    <3>. HIDE DEF c
    <3>. QED
      BY <2>1, <2>2, <2>3, BasisLeft
  <2>5. rows'[o].by = rows[o].by
    BY <1>0, <2>2 DEF Row
  <2>6. UNCHANGED chain
    BY <1>2 DEF Finalizing
  <2>. QED
    BY <2>4, <2>5, <2>6 DEF Commitment
<1>3. ASSUME NEW s \in Searches, Marking(s, o)
      PROVE  Commitment(o)' # rows'[o].by
  <2>1. Commitment(o) # search[s].seen[o].by
    BY <1>3 DEF Marking, LedgerFollowed, SearchHeld
  <2>. QED
    BY <1>3, <2>1 DEF Marking, Commitment
<1>4. ASSUME NEW x \in Obligations,
             Taken(x) \/ Withdrawn(x) \/ \E s \in Searches : Marking(s, x),
             ~ \E s \in Searches : Marking(s, o)
      PROVE  rows'[o] = rows[o]
  BY <1>4 DEF Taken, Withdrawn, Marking
<1>. QED
  BY <1>1, <1>2, <1>3, <1>4, RowsStep DEF RowStep

\* An obligation is only excluded from netting when the ledger has left the state
\* its row shows.
THEOREM OutOfSyncCorrect == Spec => []OutOfSyncIsReal
<1>1. Init => OutOfSyncIsReal
  BY DEF Init, InitAt, OutOfSyncIsReal
<1>. QED
  BY <1>1, OutOfSyncStep, AlwaysFollowed, TypeCorrect, PTL DEF Spec
-----------------------------------------------------------------------------
(* Certificates recorded as applied.                                       *)

Recorded(c) ==
    /\ Applied(c)
    /\ \A o \in certs[c].loop :
          rows[o].status \in {"out_of_sync", "closed"} \/ Reached(o, c)

LEMMA ReachedNetted ==
    ASSUME TypeOK, NEW o \in Obligations, Grown(o), NEW c \in CertificateIds, Reached(o, c)
    PROVE  c \in NettedSoFar(o)
<1>1. PICK i \in DOMAIN chain[o], j \in DOMAIN chain[o] :
          i <= j /\ chain[o][i] = c /\ chain[o][j] = rows[o].by
  BY DEF Reached
<1>2. i # 1
  BY <1>1, ConstantsAssumption DEF Grown
<1>3. i \in 2 .. j
  BY <1>1, <1>2 DEF TypeOK
<1>4. NettedSoFar(o) = Netted(o, j)
  BY <1>1, KnownVersion
<1>. QED
  BY <1>1, <1>3, <1>4 DEF Netted

\* A row that is out of sync or closed, or has reached a certificate, stays so.
LEMMA BroughtKept ==
    ASSUME TypeOK, LedgerFollowed, [Next]_vars, NEW o \in Obligations, NEW c,
           rows[o].status \in {"out_of_sync", "closed"} \/ Reached(o, c)
    PROVE  rows'[o].status \in {"out_of_sync", "closed"} \/ Reached(o, c)'
<1>1. CASE Reached(o, c)
  BY <1>1, ReachedKept
<1>2. CASE rows[o].status \in {"out_of_sync", "closed"}
  <2>1. ASSUME NEW r \in Requests, Finalizing(r)
        PROVE  rows'[o].status \in {"out_of_sync", "closed"}
    <3>1. rows[o] \in Row
      BY DEF TypeOK
    <3>2. LET out == [rows[o] EXCEPT !.status = "out_of_sync"]
          IN  out.status = "out_of_sync"
      BY <3>1 DEF Row
    <3>. QED
      BY <1>2, <2>1, <3>2, FinalizedRow DEF Advanced
  <2>2. ASSUME NEW x \in Obligations,
               Taken(x) \/ Withdrawn(x) \/ \E s \in Searches : Marking(s, x)
        PROVE  rows'[o].status \in {"out_of_sync", "closed"}
    BY <1>2, <2>2 DEF Taken, Withdrawn, Marking
  <2>. QED
    BY <1>2, <2>1, <2>2, RowsStep DEF RowStep
<1>. QED
  BY <1>1, <1>2

\* finalizeApplied alone records a certificate as applied.
LEMMA NewlyApplied ==
    ASSUME TypeOK, [Next]_vars, NEW c \in CertificateIds,
           certs[c].status # "applied", certs'[c].status = "applied"
    PROVE  \E r \in Requests : Finalizing(r) /\ req[r].cert = c
<1>1. ASSUME NEW C \in SUBSET CertificateIds, NEW status \in ClosedStatuses, Closing(C, status)
      PROVE  \E r \in Requests : Finalizing(r) /\ req[r].cert = c
  <2>1. Closes(C, status)
    BY <1>1 DEF Closing
  <2>2. c \in C /\ status = "applied"
    <3>1. c \notin C => certs'[c] = certs[c]
      BY <2>1, ClosesFields
    <3>2. c \in C => certs'[c].status = status
      BY <2>1, ClosesFields
    <3>. QED
      BY <3>1, <3>2
  <2>. QED
    BY <1>1, <2>2 DEF Closing
<1>2. ASSUME NEW d \in CertificateIds, NEW p \in Parties, Signs(d, p)
      PROVE  FALSE
  BY <1>2, SignsFields DEF OpenStatuses
<1>3. ASSUME NEW s \in Searches, NEW d \in CertificateIds, Inserting(s, d)
      PROVE  FALSE
  BY <1>3 DEF Inserting, Proposed, TypeOK
<1>. QED
  BY <1>1, <1>2, <1>3, CertificatesStep DEF CertificateStep

LEMMA RecordedStep ==
    ASSUME TypeOK, LedgerFollowed, [Next]_vars, NEW c \in CertificateIds,
           certs[c].status = "applied" => Recorded(c), certs'[c].status = "applied"
    PROVE  Recorded(c)'
<1>1. CASE certs[c].status = "applied"
  <2>1. certs'[c].loop = certs[c].loop /\ certs[c].loop \subseteq Obligations
    BY <1>1, ProposalKept DEF TypeOK, Certificate
  <2>2. ASSUME NEW o \in certs[c].loop
        PROVE  rows'[o].status \in {"out_of_sync", "closed"} \/ Reached(o, c)'
    BY <1>1, <2>1, BroughtKept DEF Recorded
  <2>3. Applied(c)'
    BY <1>1, AppliedStays DEF Recorded
  <2>. QED
    BY <2>1, <2>2, <2>3 DEF Recorded
<1>2. CASE certs[c].status # "applied"
  <2>1. PICK r \in Requests : Finalizing(r) /\ req[r].cert = c
    BY <1>2, NewlyApplied
  <2>2. certs[c].status # "none" /\ Applied(c) /\ UNCHANGED chain
    BY <2>1 DEF Finalizing, LedgerFollowed, TypeOK
  <2>3. certs'[c].loop = certs[c].loop /\ certs[c].loop \subseteq Obligations
    BY <2>2, ProposalKept DEF TypeOK, Certificate
  <2>4. ASSUME NEW o \in certs[c].loop
        PROVE  rows'[o].status \in {"out_of_sync", "closed"} \/ Reached(o, c)'
    <3>0. o \in Obligations /\ Grown(o) /\ Reached(o, certs[c].before[o].by)
      BY <2>2, <2>3 DEF LedgerFollowed, BasisHeld
    <3>1. PICK k \in DOMAIN chain[o] : chain[o][k] = c
      BY <2>2, <2>4 DEF LedgerFollowed, AppliedToAll
    <3>2. k \in Nat
      BY <3>0, <3>1 DEF TypeOK
    <3>3. CASE rows[o].by # certs[c].before[o].by
      <4>1. PICK i \in DOMAIN chain[o], j \in DOMAIN chain[o] :
                /\ i <= j /\ chain[o][i] = certs[c].before[o].by
                /\ chain[o][j] = rows[o].by
        BY <3>0 DEF Reached
      <4>2. i = k - 1 /\ i # j
        BY <2>2, <3>0, <3>1, <3>3, <4>1, BasisLeft DEF Grown
      <4>3. i \in Nat /\ j \in Nat
        BY <3>0, <4>1 DEF TypeOK
      <4>4. k <= j
        BY <3>2, <4>1, <4>2, <4>3
      <4>5. Reached(o, c)
        BY <3>1, <4>1, <4>4 DEF Reached
      <4>. QED
        BY <3>0, <4>5, ReachedKept
    <3>4. CASE rows'[o].by = c
      <4>1. k <= k
        BY <3>2
      <4>. QED
        BY <2>2, <3>1, <3>4, <4>1 DEF Reached
    <3>. QED
      BY <2>1, <3>0, <3>3, <3>4, FinalizedRow
  <2>5. Applied(c)'
    BY <2>2, AppliedStays
  <2>. QED
    BY <2>3, <2>4, <2>5 DEF Recorded
<1>. QED
  BY <1>1, <1>2

\* Once a certificate is recorded as applied, the ledger has applied it and each of
\* its obligations has been brought at least that far, or is marked out of sync,
\* or was closed.
THEOREM RecordsCorrect == Spec => []AppliedIsRecorded
<1>. DEFINE AllRecorded == \A c \in CertificateIds : certs[c].status = "applied" => Recorded(c)
<1>1. Init => AllRecorded
  BY DEF Init, InitAt, NoCertificate
<1>2. TypeOK /\ LedgerFollowed /\ AllRecorded /\ [Next]_vars => AllRecorded'
  BY RecordedStep
<1>3. TypeOK /\ LedgerFollowed /\ AllRecorded => AppliedIsRecorded
  <2>1. SUFFICES ASSUME TypeOK, LedgerFollowed, AllRecorded, NEW c \in CertificateIds,
                        certs[c].status = "applied"
                 PROVE  /\ Applied(c)
                        /\ \A o \in certs[c].loop :
                              \/ rows[o].status \in {"out_of_sync", "closed"}
                              \/ c \in NettedSoFar(o)
    BY DEF AppliedIsRecorded
  <2>2. Recorded(c) /\ certs[c].loop \subseteq Obligations
    BY <2>1 DEF TypeOK, Certificate
  <2>3. \A o \in certs[c].loop : Reached(o, c) => c \in NettedSoFar(o)
    BY <2>1, <2>2, ReachedNetted DEF LedgerFollowed
  <2>. QED
    BY <2>2, <2>3 DEF Recorded
<1>. HIDE DEF AllRecorded
<1>. QED
  BY <1>1, <1>2, <1>3, AlwaysFollowed, TypeCorrect, PTL DEF Spec
-----------------------------------------------------------------------------
(* What open certificates were built on.                                   *)

\* An obligation of an open certificate, as OpenCertificatesHold has it.
Holds(c, o) ==
    /\ rows[o].status \in {"active", "out_of_sync"}
    /\ \/ Commitment(o) # certs[c].before[o].by
       \/ /\ rows[o].by = certs[c].before[o].by
          /\ rows[o].remaining = certs[c].before[o].remaining

\* No closed certificate is opened again.
LEMMA OpenBefore ==
    ASSUME TypeOK, [Next]_vars, NEW c \in CertificateIds, Open(c)', certs[c].status # "none"
    PROVE  Open(c)
<1>1. ASSUME NEW C \in SUBSET CertificateIds, NEW status \in ClosedStatuses, Closes(C, status)
      PROVE  Open(c)
  <2>1. CASE c \in C
    BY <1>1, <2>1 DEF Closes
  <2>2. CASE c \notin C
    <3>1. certs'[c] = certs[c]
      BY <1>1, <2>2, ClosesFields
    <3>. QED
      BY <3>1 DEF Open
  <2>. QED
    BY <2>1, <2>2
<1>2. ASSUME NEW d \in CertificateIds, NEW p \in Parties, Signs(d, p)
      PROVE  Open(c)
  <2>1. CASE c = d
    BY <1>2, <2>1 DEF Signs, Open, OpenStatuses
  <2>2. CASE c # d
    BY <1>2, <2>2, SignsFields DEF Open
  <2>. QED
    BY <2>1, <2>2
<1>3. ASSUME NEW s \in Searches, NEW d \in CertificateIds, Inserting(s, d)
      PROVE  Open(c)
  BY <1>3 DEF Inserting, Open, TypeOK
<1>4. CASE UNCHANGED certs
  BY <1>4 DEF Open
<1>. QED
  BY <1>1, <1>2, <1>3, <1>4, CertificatesStep DEF CertificateStep, Closing

\* closeObligation, disputeObligation: nobody takes back an obligation of a
\* certificate that stays open.
LEMMA NotTaken ==
    ASSUME TypeOK, LocksFollowCertificates, NEW c \in CertificateIds, Open(c), Open(c)',
           NEW o \in certs[c].loop
    PROVE  ~ Taken(o)
<1>1. o \in certs[c].locked
  BY DEF LocksFollowCertificates
<1>2. CASE certs[c].status = "collecting"
  <2>1. ASSUME AbandonCollecting(o)
        PROVE  FALSE
    <3>1. certs'[c] = [certs[c] EXCEPT !.status = "abandoned", !.locked = {}]
      BY <1>1, <1>2, <2>1 DEF AbandonCollecting
    <3>2. certs[c] \in Certificate
      BY DEF TypeOK
    <3>3. certs'[c].status = "abandoned"
      BY <3>1, <3>2 DEF Certificate
    <3>. QED
      BY <3>3 DEF Open, OpenStatuses
  <2>. QED
    BY <2>1 DEF Taken
<1>3. CASE certs[c].status = "ready"
  BY <1>1, <1>3 DEF Taken, HeldByReady
<1>. QED
  BY <1>2, <1>3 DEF Open, OpenStatuses

\* The state stays the one the certificate was built on, or the ledger leaves it.
LEMMA HoldsWhileSame ==
    ASSUME TypeOK, LedgerFollowed, [Next]_vars, NEW c \in CertificateIds,
           certs[c].status # "none", NEW o \in certs[c].loop, Holds(c, o),
           rows'[o].status \in {"active", "out_of_sync"},
           rows'[o].by = rows[o].by, rows'[o].remaining = rows[o].remaining
    PROVE  Holds(c, o)'
<1>1. o \in Obligations /\ certs'[c].before = certs[c].before
  BY ProposalKept DEF TypeOK, Certificate
<1>2. Grown(o) /\ Held(o, certs[c].before[o])
  BY <1>1 DEF LedgerFollowed, BasisHeld
<1>3. CASE Commitment(o) # certs[c].before[o].by
  <2>1. PICK st : st = certs[c].before[o]
    OBVIOUS
  <2>2. Commitment(o)' # st.by
    BY <1>1, <1>2, <1>3, <2>1, LeftForGood
  <2>. QED
    BY <1>1, <2>1, <2>2 DEF Holds
<1>4. CASE Commitment(o) = certs[c].before[o].by
  BY <1>1, <1>4 DEF Holds
<1>. QED
  BY <1>3, <1>4

LEMMA HoldsStep ==
    ASSUME TypeOK, LedgerFollowed, LocksFollowCertificates, OpenCertificatesHold, [Next]_vars,
           NEW c \in CertificateIds, Open(c)', NEW o \in certs'[c].loop
    PROVE  Holds(c, o)'
<1>1. CASE certs[c].status # "none"
  <2>1. /\ Open(c) /\ o \in certs[c].loop /\ o \in Obligations
        /\ certs'[c].before = certs[c].before
    BY <1>1, OpenBefore, ProposalKept DEF TypeOK, Certificate
  <2>2. Holds(c, o) /\ rows[o] \in Row
    BY <2>1 DEF OpenCertificatesHold, Holds, TypeOK
  <2>3. CASE rows'[o] = rows[o]
    BY <1>1, <2>1, <2>2, <2>3, HoldsWhileSame DEF Holds
  <2>4. CASE rows'[o] = [rows[o] EXCEPT !.status = "out_of_sync"]
    <3>1. /\ rows'[o].status = "out_of_sync" /\ rows'[o].by = rows[o].by
          /\ rows'[o].remaining = rows[o].remaining
      BY <2>2, <2>4 DEF Row
    <3>. QED
      BY <1>1, <2>1, <2>2, <3>1, HoldsWhileSame
  <2>5. ASSUME NEW r \in Requests, Advanced(r, o)
        PROVE  Holds(c, o)'
    <3>. DEFINE d == req[r].cert
    <3>1. /\ d \in CertificateIds /\ certs[d].status # "none" /\ o \in certs[d].loop
          /\ rows[o].by = certs[d].before[o].by /\ rows'[o].status = rows[o].status
          /\ UNCHANGED chain
      BY <2>5 DEF Advanced, Finalizing
    <3>2. PICK k \in DOMAIN chain[o] : chain[o][k] = d
      BY <2>5 DEF Advanced
    <3>3. Commitment(o) # rows[o].by
      <4>. HIDE DEF d
      <4>. QED
        BY <3>1, <3>2, BasisLeft
    <3>4. Commitment(o) # certs[c].before[o].by
      BY <2>2, <3>3 DEF Holds
    <3>. QED
      BY <2>1, <2>2, <3>1, <3>4 DEF Holds, Commitment
  <2>6. ASSUME NEW s \in Searches, Marking(s, o)
        PROVE  Holds(c, o)'
    BY <1>1, <2>1, <2>2, <2>6, HoldsWhileSame DEF Marking
  <2>7. ~ Taken(o) /\ ~ Withdrawn(o)
    <3>1. ~ Taken(o)
      BY <2>1, NotTaken
    <3>2. ~ Withdrawn(o)
      BY <2>2 DEF Holds, Withdrawn
    <3>. QED
      BY <3>1, <3>2
  <2>8. ASSUME NEW x \in Obligations, x # o,
               Taken(x) \/ Withdrawn(x) \/ \E s \in Searches : Marking(s, x)
        PROVE  rows'[o] = rows[o]
    BY <2>1, <2>8 DEF Taken, Withdrawn, Marking
  <2>9. ASSUME NEW r \in Requests, Finalizing(r)
        PROVE  \/ rows'[o] = rows[o]
               \/ rows'[o] = [rows[o] EXCEPT !.status = "out_of_sync"]
               \/ Advanced(r, o)
    BY <2>1, <2>9, FinalizedRow
  <2>. QED
    BY <2>3, <2>4, <2>5, <2>6, <2>7, <2>8, <2>9, RowsStep DEF RowStep
<1>2. CASE certs[c].status = "none"
  <2>1. certs'[c].status # "none"
    BY DEF Open, OpenStatuses
  <2>2. PICK s \in Searches :
            /\ Inserting(s, c)
            /\ UNCHANGED <<rows, chain>>
            /\ certs'[c].loop = search[s].loop
            /\ search[s].loop \subseteq Obligations
            /\ \A x \in search[s].loop :
                  /\ certs'[c].before[x] = search[s].seen[x]
                  /\ rows[x].status = "active" /\ rows[x].by = search[s].seen[x].by
    BY <1>2, <2>1, NewCertificate
  <2>3. o \in search[s].loop /\ o \in Obligations
    BY <2>2
  <2>4. /\ certs'[c].before[o] = search[s].seen[o] /\ rows[o].status = "active"
        /\ rows[o].by = search[s].seen[o].by
    BY <2>2, <2>3
  <2>5. search[s] \in Search /\ search[s].pc # "idle"
    BY <2>2 DEF Inserting, Search
  <2>6. Held(o, search[s].seen[o]) /\ Held(o, rows[o]) /\ Grown(o)
    BY <2>3, <2>5 DEF LedgerFollowed, SearchHeld
  <2>7. search[s].seen[o].remaining \in Nat /\ rows[o].remaining \in Nat
    BY <2>3, <2>5 DEF Search, Basis, TypeOK, Row
  <2>8. rows[o].remaining = search[s].seen[o].remaining
    BY <2>3, <2>4, <2>6, <2>7, OneState
  <2>. QED
    BY <2>2, <2>4, <2>8 DEF Holds
<1>. QED
  BY <1>1, <1>2

\* Nobody takes an obligation back under an open certificate, and as long as the
\* ledger could still apply it the rows show the states it was built on.
THEOREM OpenCorrect == Spec => []OpenCertificatesHold
<1>1. Init => OpenCertificatesHold
  BY DEF Init, InitAt, OpenCertificatesHold, NoCertificate, Open, OpenStatuses
<1>2. /\ TypeOK /\ LedgerFollowed /\ LocksFollowCertificates
      /\ OpenCertificatesHold /\ [Next]_vars
      => OpenCertificatesHold'
  BY HoldsStep DEF OpenCertificatesHold, Holds
<1>. QED
  BY <1>1, <1>2, AlwaysFollowed, LocksCorrect, TypeCorrect, PTL DEF Spec
=============================================================================
