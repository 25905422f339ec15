--------------------------- MODULE ContractsProofs ---------------------------
(***************************************************************************)
(* Theorems about the contracts, for every set of invoices, parties,       *)
(* certificates and commitments and any clock: what each transaction has   *)
(* written so far, and why all of it, kept at once, is one step of what    *)
(* the contracts promise.                                                  *)
(***************************************************************************)
EXTENDS Contracts, Integers, Sequences, Sums

-----------------------------------------------------------------------------
(* The netting ledger.                                                     *)

\* The entries of a certificate that a call has written.
Written == 1 .. call.pos - 1

\* A call in its third pass has passed the first two, and its own view of the
\* storage has the signed commitment for every entry it has been through, each
\* of which the chain still holds as the parties saw it, and the chain's own for
\* every other obligation.
CallHeld ==
    LET cert == call.cert
        written(k) == \E i \in Written : Ledgers!KeyOf(cert.entries[i]) = k
    IN
    /\ call \in Ledgers!Call
    /\ cert.id \notin applied /\ ledgerTime <= cert.deadline
    /\ Ledgers!LoopAccepted(cert) /\ Ledgers!SignaturesAccepted(cert, call.signers)
    /\ call.pos \in 1 .. Len(cert.entries) + 1
    /\ \A i \in Written :
          LET e == cert.entries[i] IN
          /\ e.prior = state[Ledgers!KeyOf(e)]
          /\ call.work[Ledgers!KeyOf(e)] = e.next
    /\ \A k \in Ledgers!Keys : ~ written(k) => call.work[k] = state[k]

LedgerHeld ==
    /\ state \in [Ledgers!Keys -> Commitments]
    /\ call # NoTx => CallHeld

\* What the constants of the ledger say of a certificate.
LEMMA CertificateTyped ==
    ASSUME NEW cert \in Certificates
    PROVE  /\ cert.entries \in Seq(Ledgers!Entry)
           /\ \A i \in DOMAIN cert.entries :
                 /\ cert.entries[i] \in Ledgers!Entry
                 /\ Ledgers!KeyOf(cert.entries[i]) \in Ledgers!Keys
<1>1. cert \in Ledgers!Certificate
  BY LedgerAssumption DEF Ledgers!ConstantsAssumption
<1>2. cert.entries \in Seq(Ledgers!Entry)
  BY <1>1 DEF Ledgers!Certificate
<1>3. ASSUME NEW i \in DOMAIN cert.entries
      PROVE  Ledgers!KeyOf(cert.entries[i]) \in Ledgers!Keys
  BY DEF Ledgers!Keys, Ledgers!KeysOf, Ledgers!Entries
<1>. QED
  BY <1>2, <1>3

\* In a loop every entry has a key of its own, and every creditor is a debtor.
LEMMA LoopKeys ==
    ASSUME NEW cert \in Certificates, Ledgers!LoopAccepted(cert)
    PROVE  /\ \A i, j \in DOMAIN cert.entries :
                 Ledgers!KeyOf(cert.entries[i]) = Ledgers!KeyOf(cert.entries[j]) => i = j
           /\ Ledgers!PartiesOf(cert) \subseteq Ledgers!DebtorsOf(cert)
<1>1. /\ \A i, j \in DOMAIN cert.entries : cert.entries[i].debtor = cert.entries[j].debtor => i = j
      /\ \A i \in DOMAIN cert.entries :
            cert.entries[i].creditor = cert.entries[Ledgers!NextIndex(i, Len(cert.entries))].debtor
  BY DEF Ledgers!LoopAccepted, Ledgers!SimpleLoop, Ledgers!PathClosed, Ledgers!DebtorsDistinct
<1>2. ASSUME NEW i \in DOMAIN cert.entries
      PROVE  Ledgers!NextIndex(i, Len(cert.entries)) \in DOMAIN cert.entries
  BY <1>2, CertificateTyped DEF Ledgers!NextIndex
<1>3. ASSUME NEW e \in Ledgers!Entries(cert)
      PROVE  e.creditor \in Ledgers!DebtorsOf(cert)
  BY <1>1, <1>2 DEF Ledgers!Entries, Ledgers!DebtorsOf
<1>4. Ledgers!PartiesOf(cert) \subseteq Ledgers!DebtorsOf(cert)
  BY <1>3 DEF Ledgers!PartiesOf
<1>. QED
  BY <1>1, <1>4 DEF Ledgers!KeyOf

LEMMA BeginHeld ==
    ASSUME LedgerHeld, NEW cert \in Certificates, NEW signers \in SUBSET (Addresses \ {ZeroAddress}),
           Ledgers!ApplyBegin(cert, signers)
    PROVE  LedgerHeld'
<1>1. /\ call' = [cert |-> cert, signers |-> signers, pos |-> 1, work |-> state]
      /\ UNCHANGED <<state, applied, ledgerTime>>
      /\ cert.id \notin applied /\ ledgerTime <= cert.deadline
      /\ Ledgers!LoopAccepted(cert) /\ Ledgers!SignaturesAccepted(cert, signers)
      /\ Len(cert.entries) \in 2 .. 5
  BY DEF Ledgers!ApplyBegin, Ledgers!MinCycleLength, Ledgers!MaxCycleLength
<1>2. call' \in Ledgers!Call
  BY <1>1 DEF LedgerHeld, Ledgers!Call
<1>3. /\ call'.cert = cert /\ call'.signers = signers /\ call'.pos = 1 /\ call'.work = state
  BY <1>1
<1>4. 1 .. call'.pos - 1 = {}
  BY <1>3
<1>5. CallHeld'
  BY <1>1, <1>2, <1>3, <1>4 DEF CallHeld, Written, Ledgers!LoopAccepted, Ledgers!SignaturesAccepted
<1>. QED
  BY <1>1, <1>5 DEF LedgerHeld

\* The entry at the position of the call has a key that no entry before has.
LEMMA SwapHeld ==
    ASSUME LedgerHeld, Ledgers!CompareAndSwap
    PROVE  LedgerHeld'
<1>. DEFINE cert == call.cert
            K == Ledgers!KeyOf(Ledgers!Current)
            pos == call.pos
            work == call.work
<1>1. /\ CallHeld /\ pos <= Len(cert.entries) /\ work[K] = Ledgers!Current.prior
      /\ call' = [call EXCEPT !.pos = @ + 1, !.work[K] = Ledgers!Current.next]
      /\ UNCHANGED <<state, applied, ledgerTime>>
  BY DEF LedgerHeld, Ledgers!CompareAndSwap, Ledgers!Fresh
<1>2. /\ call \in Ledgers!Call /\ cert \in Certificates /\ pos \in 1 .. Len(cert.entries)
      /\ Ledgers!LoopAccepted(cert)
      /\ work \in [Ledgers!Keys -> Commitments] /\ Ledgers!Current = cert.entries[pos]
  BY <1>1, CertificateTyped DEF CallHeld, Ledgers!Call, Ledgers!Current
<1>3. /\ DOMAIN cert.entries = 1 .. Len(cert.entries) /\ Len(cert.entries) \in Nat
      /\ \A i \in 1 .. Len(cert.entries) : /\ cert.entries[i] \in Ledgers!Entry
                                           /\ Ledgers!KeyOf(cert.entries[i]) \in Ledgers!Keys
      /\ \A i, j \in 1 .. Len(cert.entries) :
            Ledgers!KeyOf(cert.entries[i]) = Ledgers!KeyOf(cert.entries[j]) => i = j
  BY <1>2, CertificateTyped, LoopKeys
<1>4. K \in Ledgers!Keys /\ Ledgers!Current.next \in Commitments
  BY <1>2, <1>3 DEF Ledgers!Entry
<1>5. PICK next \in Commitments : next = Ledgers!Current.next
  BY <1>4
<1>6. PICK newWork : newWork = [work EXCEPT ![K] = next]
  OBVIOUS
<1>7. newWork \in [Ledgers!Keys -> Commitments]
  BY <1>2, <1>4, <1>6
<1>8. call' = [call EXCEPT !.pos = pos + 1, !.work = newWork]
  BY <1>1, <1>2, <1>5, <1>6 DEF Ledgers!Call
<1>9. /\ call'.cert = cert /\ call'.signers = call.signers /\ call'.pos = pos + 1
      /\ call'.work = newWork /\ call' \in Ledgers!Call
  <2>1. PICK old, p : old = call /\ p = pos + 1
    OBVIOUS
  <2>2. old \in Ledgers!Call /\ p \in Nat /\ call' = [old EXCEPT !.pos = p, !.work = newWork]
    BY <1>2, <1>8, <2>1
  <2>. DEFINE x == [old EXCEPT !.pos = p, !.work = newWork]
  <2>3. x.cert = old.cert /\ x.signers = old.signers /\ x.pos = p /\ x.work = newWork
    BY <2>2 DEF Ledgers!Call
  <2>4. x \in Ledgers!Call
    BY <1>7, <2>2 DEF Ledgers!Call
  <2>. QED
    BY <2>1, <2>2, <2>3, <2>4
<1>. DEFINE key(i) == Ledgers!KeyOf(cert.entries[i])
<1>10. \A i \in 1 .. pos - 1 : key(i) # K
  BY <1>2, <1>3
<1>11. work[K] = state[K]
  BY <1>1, <1>4, <1>10 DEF CallHeld, Written
<1>12. 1 .. call'.pos - 1 = (1 .. pos - 1) \cup {pos}
  BY <1>2, <1>9
<1>13. ASSUME NEW i \in 1 .. call'.pos - 1
       PROVE  cert.entries[i].prior = state[key(i)] /\ newWork[key(i)] = cert.entries[i].next
  <2>1. CASE i = pos
    BY <1>1, <1>2, <1>4, <1>5, <1>6, <1>11, <2>1
  <2>2. CASE i \in 1 .. pos - 1
    <3>1. cert.entries[i].prior = state[key(i)] /\ work[key(i)] = cert.entries[i].next
      BY <1>1, <2>2 DEF CallHeld, Written
    <3>2. key(i) # K /\ key(i) \in Ledgers!Keys
      BY <1>2, <1>3, <1>10, <2>2
    <3>. QED
      BY <1>2, <1>6, <3>1, <3>2
  <2>. QED
    BY <1>12, <2>1, <2>2
<1>14. ASSUME NEW k \in Ledgers!Keys, \A i \in 1 .. call'.pos - 1 : key(i) # k
       PROVE  newWork[k] = state[k]
  <2>1. k # K
    BY <1>2, <1>12, <1>14
  <2>2. \A i \in 1 .. pos - 1 : key(i) # k
    BY <1>12, <1>14
  <2>3. work[k] = state[k]
    BY <1>1, <2>2 DEF CallHeld, Written
  <2>. QED
    BY <1>2, <1>6, <2>1, <2>3
<1>15. cert.id \notin applied' /\ ledgerTime' <= cert.deadline
  BY <1>1 DEF CallHeld
<1>16. Ledgers!LoopAccepted(cert) /\ Ledgers!SignaturesAccepted(cert, call.signers)
  BY <1>1 DEF CallHeld
<1>17. call'.pos \in 1 .. Len(cert.entries) + 1
  BY <1>2, <1>3, <1>9
<1>. HIDE DEF cert
<1>18. CallHeld'
  <2>1. \A i \in 1 .. call'.pos - 1 :
          cert.entries[i].prior = state'[key(i)] /\ call'.work[key(i)] = cert.entries[i].next
    BY <1>1, <1>9, <1>13
  <2>2. \A k \in Ledgers!Keys : (\A i \in 1 .. call'.pos - 1 : key(i) # k) => call'.work[k] = state'[k]
    BY <1>1, <1>9, <1>14
  <2>3. call'.cert = cert /\ call'.signers = call.signers /\ call' \in Ledgers!Call
    BY <1>9
  <2>. QED
    BY <1>15, <1>16, <1>17, <2>1, <2>2, <2>3
       DEF CallHeld, Written, Ledgers!LoopAccepted, Ledgers!SignaturesAccepted, Ledgers!KeyOf
<1>. QED
  BY <1>1, <1>18 DEF LedgerHeld

\* A call that has been through every entry has done what Apply does.
LEMMA CommitApplies ==
    ASSUME LedgerHeld, Ledgers!ApplyCommit
    PROVE  /\ LedgerHeld'
           /\ Ledgers!Ledger!Apply(call.cert, call.signers)
           /\ call.cert \in Certificates /\ call.signers \in SUBSET Addresses
<1>. DEFINE cert == call.cert
            work == call.work
            n == Len(cert.entries)
            entry(i) == cert.entries[i]
            key(i) == Ledgers!KeyOf(entry(i))
<1>1. /\ CallHeld /\ call' = NoTx /\ call.pos > n
      /\ state' = work /\ applied' = applied \cup {cert.id}
      /\ log' = Append(log, [cert |-> cert, signers |-> call.signers]) /\ UNCHANGED ledgerTime
  BY DEF LedgerHeld, Ledgers!ApplyCommit
<1>2. /\ cert \in Certificates /\ call.signers \subseteq Addresses
      /\ work \in [Ledgers!Keys -> Commitments]
      /\ cert.id \notin applied /\ ledgerTime <= cert.deadline
      /\ Ledgers!LoopAccepted(cert) /\ Ledgers!DebtorsOf(cert) \subseteq call.signers
  BY <1>1 DEF CallHeld, Ledgers!Call, Ledgers!SignaturesAccepted
<1>3. /\ DOMAIN cert.entries = 1 .. n /\ n \in Nat
      /\ \A i \in 1 .. n : key(i) \in Ledgers!Keys
      /\ \A i, j \in 1 .. n : key(i) = key(j) => i = j
  BY <1>2, CertificateTyped, LoopKeys
<1>4. Written = 1 .. n
  BY <1>1, <1>3 DEF CallHeld, Written
<1>5. /\ \A i \in 1 .. n : entry(i).prior = state[key(i)] /\ work[key(i)] = entry(i).next
      /\ \A k \in Ledgers!Keys : (\A i \in 1 .. n : key(i) # k) => work[k] = state[k]
  BY <1>1, <1>4 DEF CallHeld
<1>6. \A k : Ledgers!Ledger!KeyOf(k) = Ledgers!KeyOf(k)
  BY DEF Ledgers!Ledger!KeyOf, Ledgers!KeyOf
<1>7. /\ Ledgers!Ledger!Entries(cert) = {entry(i) : i \in 1 .. n}
      /\ Ledgers!Ledger!KeysOf(cert) = {key(i) : i \in 1 .. n}
      /\ Ledgers!Ledger!Keys = Ledgers!Keys
  <2>1. /\ Ledgers!Ledger!Entries(cert) = {entry(i) : i \in 1 .. n}
        /\ Ledgers!Ledger!KeysOf(cert) = {Ledgers!Ledger!KeyOf(e) : e \in Ledgers!Ledger!Entries(cert)}
    BY <1>3 DEF Ledgers!Ledger!Entries, Ledgers!Ledger!KeysOf
  <2>2. Ledgers!Ledger!KeysOf(cert) = {key(i) : i \in 1 .. n}
    BY <1>6, <2>1
  <2>3. Ledgers!Ledger!Keys = Ledgers!Keys
    BY DEF Ledgers!Ledger!Keys, Ledgers!Keys, Ledgers!Ledger!KeysOf, Ledgers!KeysOf, Ledgers!Ledger!Entries,
           Ledgers!Entries, Ledgers!Ledger!KeyOf, Ledgers!KeyOf
  <2>. QED
    BY <2>1, <2>2, <2>3
<1>8. Ledgers!Ledger!PartiesOf(cert) \subseteq call.signers
  <2>1. Ledgers!Ledger!PartiesOf(cert) = Ledgers!PartiesOf(cert)
    BY DEF Ledgers!Ledger!PartiesOf, Ledgers!PartiesOf, Ledgers!Ledger!DebtorsOf, Ledgers!DebtorsOf,
           Ledgers!Ledger!Entries, Ledgers!Entries
  <2>. QED
    BY <1>2, <2>1, LoopKeys
<1>9. \A i \in 1 .. n : entry(i).next \notin {Zero, entry(i).prior}
  BY <1>2, <1>3 DEF Ledgers!LoopAccepted, Ledgers!Entries
<1>10. work = [k \in Ledgers!Keys |->
                 IF k \in Ledgers!Ledger!KeysOf(cert) THEN Ledgers!Ledger!EntryFor(cert, k).next
                 ELSE state[k]]
  <2>1. ASSUME NEW i \in 1 .. n
        PROVE  Ledgers!Ledger!EntryFor(cert, key(i)) = entry(i)
    <3>1. \A e \in Ledgers!Ledger!Entries(cert) : Ledgers!Ledger!KeyOf(e) = key(i) => e = entry(i)
      BY <1>3, <1>6, <1>7
    <3>2. entry(i) \in Ledgers!Ledger!Entries(cert) /\ Ledgers!Ledger!KeyOf(entry(i)) = key(i)
      BY <1>6, <1>7
    <3>. QED
      BY <3>1, <3>2 DEF Ledgers!Ledger!EntryFor
  <2>2. \A k \in Ledgers!Keys :
           work[k] = IF k \in Ledgers!Ledger!KeysOf(cert) THEN Ledgers!Ledger!EntryFor(cert, k).next
                     ELSE state[k]
    BY <1>5, <1>7, <2>1
  <2>. QED
    BY <1>2, <2>2
<1>11. Ledgers!Ledger!Apply(cert, call.signers)
  <2>1. /\ \A e \in Ledgers!Ledger!Entries(cert) : /\ e.prior = state[Ledgers!Ledger!KeyOf(e)]
                                                   /\ e.next \notin {Zero, e.prior}
        /\ \A e, f \in Ledgers!Ledger!Entries(cert) :
              Ledgers!Ledger!KeyOf(e) = Ledgers!Ledger!KeyOf(f) => e = f
    BY <1>3, <1>5, <1>6, <1>7, <1>9
  <2>. QED
    BY <1>1, <1>2, <1>7, <1>8, <1>10, <2>1 DEF Ledgers!Ledger!Apply
<1>12. LedgerHeld'
  BY <1>1, <1>2 DEF LedgerHeld
<1>. QED
  BY <1>2, <1>11, <1>12

LEMMA LedgerInit == Ledgers!Init => LedgerHeld /\ Ledgers!Ledger!Init
<1>1. Ledgers!Ledger!Keys = Ledgers!Keys
  BY DEF Ledgers!Ledger!Keys, Ledgers!Keys, Ledgers!Ledger!KeysOf, Ledgers!KeysOf, Ledgers!Ledger!Entries,
         Ledgers!Entries, Ledgers!Ledger!KeyOf, Ledgers!KeyOf
<1>. QED
  BY <1>1, LedgerAssumption DEF Ledgers!Init, Ledgers!Ledger!Init, LedgerHeld, Ledgers!ConstantsAssumption

\* Every step of a transaction is a step of the promise, or none.
LEMMA LedgerStep ==
    ASSUME LedgerHeld, Ledgers!Next
    PROVE  LedgerHeld' /\ [Ledgers!Ledger!Next]_(Ledgers!Ledger!vars)
<1>1. ASSUME NEW cert \in Certificates, NEW signers \in SUBSET (Addresses \ {ZeroAddress}),
             Ledgers!ApplyBegin(cert, signers)
      PROVE  LedgerHeld' /\ UNCHANGED Ledgers!Ledger!vars
  BY <1>1, BeginHeld DEF Ledgers!ApplyBegin, Ledgers!Ledger!vars
<1>2. CASE Ledgers!CompareAndSwap
  BY <1>2, SwapHeld DEF Ledgers!CompareAndSwap, Ledgers!Ledger!vars
<1>3. CASE Ledgers!ApplyRevert
  BY <1>3 DEF Ledgers!ApplyRevert, Ledgers!Ledger!vars, LedgerHeld
<1>4. CASE Ledgers!ApplyCommit
  BY <1>4, CommitApplies DEF Ledgers!Ledger!Next
<1>5. CASE Ledgers!Tick
  BY <1>5 DEF Ledgers!Tick, Ledgers!Ledger!Next, Ledgers!Ledger!Tick, LedgerHeld
<1>. QED
  BY <1>1, <1>2, <1>3, <1>4, <1>5 DEF Ledgers!Next

\* A part that is not chosen does not move.
LEMMA LedgerAlone ==
    ASSUME part = "ledger" => LedgerHeld, [ContractsNext]_<<part, contractsVars>>
    PROVE  /\ part' = part
           /\ (part = "ledger" => LedgerHeld)'
           /\ [part = "ledger" => [Ledgers!Ledger!Next]_(Ledgers!Ledger!vars)]_ledgersVars
<1>1. CASE UNCHANGED <<part, contractsVars>>
  BY <1>1 DEF contractsVars, ledgersVars, LedgerHeld, CallHeld, Written, Ledgers!LoopAccepted,
              Ledgers!SignaturesAccepted
<1>2. CASE ContractsNext
  BY <1>2, LedgerStep DEF ContractsNext, ledgersVars
<1>. QED
  BY <1>1, <1>2

\* applyCertificate, writing one commitment at a time and asking for the
\* debtors' signatures alone, does what NettingLedger says.
THEOREM LedgerImplemented == ContractsSpec => ImplementsNettingLedger
<1>1. ContractsInit => /\ part = "ledger" => LedgerHeld
                       /\ part = "ledger" => Ledgers!Ledger!Init
  BY LedgerInit DEF ContractsInit
<1>2. (part = "ledger" => LedgerHeld) /\ [ContractsNext]_<<part, contractsVars>> =>
         /\ (part = "ledger" => LedgerHeld)'
         /\ [part = "ledger" => [Ledgers!Ledger!Next]_(Ledgers!Ledger!vars)]_ledgersVars
  BY LedgerAlone
<1>. QED
  BY <1>1, <1>2, PTL DEF ContractsSpec, ImplementsNettingLedger

-----------------------------------------------------------------------------
(* The registry and the settler.                                           *)

\* The invoices of a loop that a settle call has been through.
Passed == 1 .. settling.pos - 1

\* A settle call has checked its loop, and its own view of the storage has every
\* invoice it has been through netted, from what the chain still holds, and the
\* chain's own for every other.
SettlingHeld ==
    LET loop == settling.loop
        wNet == settling.wNet
    IN
    /\ settling \in Settlements!Call
    /\ wNet # 0 /\ wNet \in Settlements!Amounts
    /\ Len(loop) \in 3 .. 5 /\ Settlements!LoopAccepted(loop)
    /\ \A i \in DOMAIN loop : loop[i] \in Settlements!Registered
    /\ settling.pos \in 1 .. Len(loop) + 1
    /\ \A i \in Passed :
          LET id == loop[i] IN
          /\ Settlements!Nettable(invoices[id], id, wNet)
          /\ settling.work[id] = Settlements!Netted(invoices[id], wNet)
    /\ \A id \in Ids : (\A i \in Passed : loop[i] # id) => settling.work[id] = invoices[id]

SettlementHeld ==
    /\ invoices \in Settlements!Storage
    /\ IsFiniteSet(Settlements!Registered)
    /\ lastNonce \in [Settlements!Pairs -> Nat]
    /\ settling # NoTx => SettlingHeld

\* What the constants of the settlement say of an attestation.
LEMMA TermsTyped ==
    ASSUME NEW id \in Ids
    PROVE  /\ Terms[id].amount \in Nat /\ Terms[id].nonce \in Nat
           /\ Settlements!Pair(id) \in Settlements!Pairs
           /\ NotFound \notin Settlements!Invoice /\ NotFound \notin Nat
BY SettlementAssumption DEF Settlements!ConstantsAssumption, Settlements!Pairs

\* The successors round a loop are its indexes, each once.
LEMMA Successors ==
    ASSUME NEW n \in Nat \ {0}
    PROVE  /\ \A i \in 1 .. n : Settlements!NextIndex(i, n) \in 1 .. n
           /\ \A i, j \in 1 .. n : Settlements!NextIndex(i, n) = Settlements!NextIndex(j, n) => i = j
           /\ \A i \in 1 .. n : \E j \in 1 .. n : Settlements!NextIndex(j, n) = i
<1>1. ASSUME NEW i \in 1 .. n
      PROVE  \E j \in 1 .. n : Settlements!NextIndex(j, n) = i
  <2>1. CASE i = 1
    BY <2>1 DEF Settlements!NextIndex
  <2>2. CASE i # 1
    <3>1. i - 1 \in 1 .. n /\ Settlements!NextIndex(i - 1, n) = i
      BY <2>2 DEF Settlements!NextIndex
    <3>. QED
      BY <3>1
  <2>. QED
    BY <2>1, <2>2
<1>. QED
  BY <1>1 DEF Settlements!NextIndex

\* A loop that settle accepts names no invoice, no debtor and no creditor twice,
\* and every creditor in it is the debtor of the invoice that follows.
LEMMA LoopFacts ==
    ASSUME NEW loop, Len(loop) \in 3 .. 5, DOMAIN loop = 1 .. Len(loop),
           Settlements!LoopAccepted(loop)
    PROVE  /\ \A i, j \in 1 .. Len(loop) : loop[i] = loop[j] => i = j
           /\ \A i, j \in 1 .. Len(loop) : Terms[loop[i]].debtor = Terms[loop[j]].debtor => i = j
           /\ \A i \in 1 .. Len(loop) :
                 /\ Settlements!NextIndex(i, Len(loop)) \in 1 .. Len(loop)
                 /\ Terms[loop[i]].creditor = Terms[loop[Settlements!NextIndex(i, Len(loop))]].debtor
           /\ \A i, j \in 1 .. Len(loop) : Terms[loop[i]].creditor = Terms[loop[j]].creditor => i = j
<1>. DEFINE n == Len(loop)
            edges == [i \in DOMAIN loop |-> Terms[loop[i]]]
<1>1. n \in 3 .. 5 /\ edges = [i \in 1 .. n |-> Terms[loop[i]]]
  OBVIOUS
<1>2. Len(edges) = n
  <2>1. edges \in Seq({Terms[loop[i]] : i \in 1 .. n})
    BY <1>1
  <2>. QED
    BY <1>1, <2>1
<1>3. Settlements!SimpleLoop(edges) /\ \A i, j \in 1 .. n : loop[i] = loop[j] => i = j
  BY DEF Settlements!LoopAccepted
<1>4. \A i, j \in 1 .. n : Terms[loop[i]].debtor = Terms[loop[j]].debtor => i = j
  BY <1>3 DEF Settlements!SimpleLoop, Settlements!DebtorsDistinct
<1>. n \in Nat \ {0}
  BY <1>1
<1>5. \A i \in 1 .. n : Settlements!NextIndex(i, n) \in 1 .. n
  BY Successors, Zenon
<1>6. ASSUME NEW i \in 1 .. n
      PROVE  Terms[loop[i]].creditor = Terms[loop[Settlements!NextIndex(i, n)]].debtor
  <2>1. edges[i].creditor = edges[Settlements!NextIndex(i, n)].debtor
    BY <1>2, <1>3 DEF Settlements!SimpleLoop, Settlements!PathClosed
  <2>. QED
    BY <1>5, <2>1
<1>7. \A i, j \in 1 .. n : Settlements!NextIndex(i, n) = Settlements!NextIndex(j, n) => i = j
  BY Successors, Zenon
<1>8. \A i, j \in 1 .. n : Terms[loop[i]].creditor = Terms[loop[j]].creditor => i = j
  BY <1>4, <1>5, <1>6, <1>7
<1>. QED
  BY <1>3, <1>4, <1>5, <1>6, <1>8

\* register adds an invoice with its whole amount.
LEMMA RegisterHeld ==
    ASSUME SettlementHeld, NEW id \in Ids, NEW d, NEW c, Settlements!Register(id, d, c)
    PROVE  SettlementHeld' /\ Settlements!Netting!Register(id)
<1>. DEFINE row == [status |-> "Active", remaining |-> Terms[id].amount]
            left(i) == IF invoices[i] = NotFound THEN NotFound ELSE invoices[i].remaining
<1>1. /\ settling = NoTx /\ settling' = NoTx /\ chainTime' = chainTime
      /\ invoices' = [invoices EXCEPT ![id] = row] /\ invoices[id] = NotFound
      /\ lastNonce' = [lastNonce EXCEPT ![Settlements!Pair(id)] = Terms[id].nonce]
      /\ Terms[id].nonce = lastNonce[Settlements!Pair(id)] + 1
      /\ Terms[id].amount # 0 /\ Terms[id].debtor # Terms[id].creditor
  BY DEF Settlements!Register, Settlements!WellFormed, Settlements!NextNonce
<1>2. row \in Settlements!Invoice /\ row.remaining = Terms[id].amount
  BY TermsTyped DEF Settlements!Invoice
<1>. HIDE DEF row
<1>3. /\ invoices' \in Settlements!Storage /\ invoices'[id] = row
      /\ \A x \in Ids \ {id} : invoices'[x] = invoices[x]
  BY <1>1, <1>2 DEF SettlementHeld, Settlements!Storage
<1>4. row # NotFound
  BY <1>2, TermsTyped
<1>5. Settlements!Registered' = Settlements!Registered \cup {id}
  BY <1>3, <1>4 DEF Settlements!Registered
<1>6. IsFiniteSet(Settlements!Registered')
  BY <1>5, FS_AddElement DEF SettlementHeld
<1>7. lastNonce' \in [Settlements!Pairs -> Nat]
  BY <1>1, TermsTyped DEF SettlementHeld
<1>8. SettlementHeld'
  BY <1>1, <1>3, <1>6, <1>7 DEF SettlementHeld
<1>9. left(id) = NotFound /\ left(id)' = Terms[id].amount
  BY <1>1, <1>2, <1>3, <1>4
<1>10. \A x \in Ids \ {id} : left(x)' = left(x)
  BY <1>3
<1>11. [x \in Ids |-> left(x)'] = [[x \in Ids |-> left(x)] EXCEPT ![id] = Terms[id].amount]
  BY <1>9, <1>10
<1>12. Settlements!Netting!Pair(id) = Settlements!Pair(id)
  BY DEF Settlements!Netting!Pair, Settlements!Pair
<1>13. Terms[id].amount > 0
  BY <1>1, TermsTyped
<1>14. lastNonce' = [lastNonce EXCEPT ![Settlements!Pair(id)] = @ + 1]
  BY <1>1
<1>. QED
  BY <1>1, <1>8, <1>9, <1>11, <1>12, <1>13, <1>14 DEF Settlements!Netting!Register

LEMMA SettleBeginHeld ==
    ASSUME SettlementHeld, NEW loop \in Settlements!ReadableLoops, NEW wNet \in Settlements!Amounts,
           Settlements!SettleBegin(loop, wNet)
    PROVE  SettlementHeld'
<1>1. /\ settling' = [loop |-> loop, wNet |-> wNet, pos |-> 1, work |-> invoices]
      /\ UNCHANGED <<invoices, lastNonce, chainTime>>
      /\ wNet # 0 /\ Len(loop) \in 3 .. 5 /\ Settlements!LoopAccepted(loop)
  BY DEF Settlements!SettleBegin, Settlements!MinCycleLength, Settlements!MaxCycleLength
<1>2. PICK n \in Nat : loop \in [1 .. n -> Settlements!Registered]
  BY SettlementAssumption DEF Settlements!ReadableLoops, Settlements!ConstantsAssumption
<1>3. Len(loop) = n /\ DOMAIN loop = 1 .. n
  BY <1>2
<1>4. loop \in Settlements!Loops
  <2>1. loop \in [1 .. n -> Ids] /\ n \in 1 .. 5
    BY <1>1, <1>2, <1>3 DEF Settlements!Registered
  <2>. QED
    BY <2>1 DEF Settlements!Loops, Settlements!MaxCycleLength
<1>5. wNet \in Nat
  BY DEF Settlements!Amounts
<1>6. settling' \in Settlements!Call
  BY <1>1, <1>4, <1>5 DEF SettlementHeld, Settlements!Call, Settlements!MaxCycleLength
<1>7. /\ settling'.loop = loop /\ settling'.wNet = wNet /\ settling'.pos = 1
      /\ settling'.work = invoices
  BY <1>1
<1>8. \A i \in DOMAIN loop : loop[i] \in Settlements!Registered'
  BY <1>1, <1>2 DEF Settlements!Registered
<1>9. 1 .. settling'.pos - 1 = {}
  BY <1>7
<1>10. Settlements!LoopAccepted(loop)' /\ Settlements!Amounts' = Settlements!Amounts
  BY <1>1 DEF Settlements!LoopAccepted, Settlements!SimpleLoop, Settlements!PathClosed,
              Settlements!DebtorsDistinct, Settlements!Amounts
<1>11. SettlingHeld'
  BY <1>1, <1>6, <1>7, <1>8, <1>9, <1>10
     DEF SettlingHeld, Passed, Settlements!LoopAccepted
<1>. QED
  BY <1>1, <1>11 DEF SettlementHeld, Settlements!Registered

\* netInvoice subtracts from the invoice the call has come to, which no position
\* before it names.
LEMMA NetInvoiceHeld ==
    ASSUME SettlementHeld, Settlements!NetInvoice
    PROVE  SettlementHeld'
<1>. DEFINE loop == settling.loop
            pos == settling.pos
            work == settling.work
            wNet == settling.wNet
            id == loop[pos]
<1>1. /\ SettlingHeld /\ pos <= Len(loop)
      /\ Settlements!Nettable(work[id], id, wNet)
      /\ settling' = [settling EXCEPT !.pos = @ + 1, !.work[id] = Settlements!Netted(@, wNet)]
      /\ UNCHANGED <<invoices, lastNonce, chainTime>>
  BY DEF SettlementHeld, Settlements!NetInvoice
<1>2. /\ settling \in Settlements!Call /\ Len(loop) \in 3 .. 5 /\ pos \in 1 .. Len(loop)
      /\ Settlements!LoopAccepted(loop) /\ work \in [Ids -> Settlements!Invoice \cup {NotFound}]
      /\ wNet \in Nat
  BY <1>1 DEF SettlingHeld, Settlements!Call, Settlements!Storage
<1>3. DOMAIN loop = 1 .. Len(loop)
  <2>1. PICK n \in 1 .. 5 : loop \in [1 .. n -> Ids]
    BY <1>2 DEF Settlements!Call, Settlements!Loops, Settlements!MaxCycleLength
  <2>. QED
    BY <2>1
<1>4. /\ id \in Ids /\ id \in Settlements!Registered
      /\ \A i \in 1 .. pos - 1 : loop[i] # id
  <2>1. \A i, j \in 1 .. Len(loop) : loop[i] = loop[j] => i = j
    BY <1>2, <1>3, LoopFacts
  <2>. QED
    BY <1>1, <1>2, <1>3, <2>1 DEF SettlingHeld, Settlements!Registered
<1>5. work[id] = invoices[id]
  BY <1>1, <1>4 DEF SettlingHeld, Passed
<1>6. PICK row : row = Settlements!Netted(work[id], wNet)
  OBVIOUS
<1>7. row \in Settlements!Invoice
  <2>1. PICK invoice : invoice = work[id]
    OBVIOUS
  <2>2. invoice \in Settlements!Invoice /\ wNet <= invoice.remaining
    BY <1>1, <1>2, <1>4, <2>1 DEF Settlements!Nettable
  <2>3. invoice.remaining - wNet \in Nat /\ invoice.status \in {"Active", "Extinguished"}
    BY <1>2, <2>2 DEF Settlements!Invoice
  <2>4. PICK left \in Nat : left = invoice.remaining - wNet
    BY <2>3
  <2>5. row = [status |-> IF left = 0 THEN "Extinguished" ELSE invoice.status, remaining |-> left]
    BY <1>6, <2>1, <2>4 DEF Settlements!Netted
  <2>. QED
    BY <2>3, <2>5 DEF Settlements!Invoice
<1>8. PICK newWork : newWork = [work EXCEPT ![id] = row]
  OBVIOUS
<1>9. newWork \in Settlements!Storage
  BY <1>2, <1>4, <1>7, <1>8 DEF Settlements!Storage
<1>10. PICK next : next = pos + 1
  OBVIOUS
<1>11. settling' = [settling EXCEPT !.pos = next, !.work = newWork]
  BY <1>1, <1>2, <1>6, <1>8, <1>10 DEF Settlements!Call
<1>12. /\ settling'.loop = loop /\ settling'.wNet = wNet /\ settling'.pos = next
       /\ settling'.work = newWork /\ settling' \in Settlements!Call
  <2>1. PICK old : old = settling
    OBVIOUS
  <2>2. next \in 1 .. 5 + 1
    <3>1. PICK n, p : n = Len(loop) /\ p = pos
      OBVIOUS
    <3>2. n \in 3 .. 5 /\ p \in 1 .. n /\ next = p + 1
      BY <1>2, <1>10, <3>1
    <3>. QED
      BY <3>2
  <2>3. old \in Settlements!Call /\ settling' = [old EXCEPT !.pos = next, !.work = newWork]
    BY <1>2, <1>11, <2>1
  <2>. DEFINE x == [old EXCEPT !.pos = next, !.work = newWork]
  <2>4. x.loop = old.loop /\ x.wNet = old.wNet /\ x.pos = next /\ x.work = newWork
    BY <2>3 DEF Settlements!Call
  <2>5. x \in Settlements!Call
    BY <1>9, <2>2, <2>3 DEF Settlements!Call, Settlements!MaxCycleLength
  <2>. QED
    BY <2>1, <2>3, <2>4, <2>5
<1>13. 1 .. next - 1 = (1 .. pos - 1) \cup {pos}
  BY <1>2, <1>10
<1>14. ASSUME NEW i \in 1 .. next - 1
       PROVE  /\ Settlements!Nettable(invoices[loop[i]], loop[i], wNet)
              /\ newWork[loop[i]] = Settlements!Netted(invoices[loop[i]], wNet)
  <2>1. CASE i = pos
    BY <1>1, <1>2, <1>4, <1>5, <1>6, <1>8, <2>1
  <2>2. CASE i \in 1 .. pos - 1
    <3>1. /\ Settlements!Nettable(invoices[loop[i]], loop[i], wNet)
          /\ work[loop[i]] = Settlements!Netted(invoices[loop[i]], wNet)
      BY <1>1, <2>2 DEF SettlingHeld, Passed
    <3>2. loop[i] # id
      BY <1>4, <2>2
    <3>. QED
      BY <1>2, <1>8, <3>1, <3>2 DEF SettlingHeld
  <2>. QED
    BY <1>13, <2>1, <2>2
<1>15. ASSUME NEW x \in Ids, \A i \in 1 .. next - 1 : loop[i] # x
       PROVE  newWork[x] = invoices[x]
  <2>1. x # id /\ \A i \in 1 .. pos - 1 : loop[i] # x
    BY <1>13, <1>15
  <2>2. work[x] = invoices[x]
    BY <1>1, <2>1 DEF SettlingHeld, Passed
  <2>. QED
    BY <1>2, <1>8, <2>1, <2>2
<1>16. /\ Settlements!LoopAccepted(loop) /\ wNet # 0 /\ wNet \in Settlements!Amounts
       /\ Len(loop) \in 3 .. 5 /\ next \in 1 .. Len(loop) + 1
       /\ \A i \in DOMAIN loop : loop[i] \in Settlements!Registered
  BY <1>1, <1>2, <1>10 DEF SettlingHeld
<1>17. SettlingHeld'
  <2>1. PICK lp, w : lp = loop /\ w = wNet
    OBVIOUS
  <2>2. /\ settling'.loop = lp /\ settling'.wNet = w /\ settling'.pos = next
        /\ settling'.work = newWork /\ settling' \in Settlements!Call
    BY <1>12, <2>1
  <2>3. ASSUME NEW i \in 1 .. next - 1
        PROVE  /\ Settlements!Nettable(invoices[lp[i]], lp[i], w)'
               /\ newWork[lp[i]] = Settlements!Netted(invoices[lp[i]], w)'
    BY <1>1, <1>14, <2>1 DEF Settlements!Nettable, Settlements!Netted
  <2>4. \A x \in Ids : (\A i \in 1 .. next - 1 : lp[i] # x) => newWork[x] = invoices'[x]
    BY <1>1, <1>15, <2>1
  <2>5. \A i \in DOMAIN lp : lp[i] \in Settlements!Registered'
    BY <1>1, <1>16, <2>1 DEF Settlements!Registered
  <2>6. /\ Settlements!LoopAccepted(lp) /\ w # 0 /\ w \in Settlements!Amounts
        /\ Len(lp) \in 3 .. 5 /\ next \in 1 .. Len(lp) + 1
    BY <1>16, <2>1
  <2>. QED
    BY <2>2, <2>3, <2>4, <2>5, <2>6 DEF SettlingHeld, Passed
<1>. QED
  BY <1>1, <1>17 DEF SettlementHeld, Settlements!Registered

\* When a call commits, every invoice of its loop has been netted, and no other
\* has changed.
LEMMA CommitChanges ==
    ASSUME SettlementHeld, Settlements!SettleCommit, NEW loop, loop = settling.loop,
           NEW wNet, wNet = settling.wNet
    PROVE  /\ settling' = NoTx /\ UNCHANGED <<lastNonce, chainTime>>
           /\ wNet \in Settlements!Amounts /\ wNet \in Nat /\ wNet # 0
           /\ Len(loop) \in 3 .. 5 /\ DOMAIN loop = 1 .. Len(loop)
           /\ Settlements!LoopAccepted(loop)
           /\ invoices' \in Settlements!Storage
           /\ Settlements!Registered' = Settlements!Registered
           /\ \A i \in 1 .. Len(loop) :
                 /\ loop[i] \in Ids /\ loop[i] \in Settlements!Registered
                 /\ Settlements!Nettable(invoices[loop[i]], loop[i], wNet)
                 /\ invoices[loop[i]].remaining \in Nat
                 /\ invoices'[loop[i]].remaining = invoices[loop[i]].remaining - wNet
           /\ \A id \in Ids : (\A i \in 1 .. Len(loop) : loop[i] # id) => invoices'[id] = invoices[id]
<1>1. /\ SettlingHeld /\ settling' = NoTx /\ UNCHANGED <<lastNonce, chainTime>>
      /\ invoices' = settling.work /\ settling.pos > Len(loop)
  BY DEF SettlementHeld, Settlements!SettleCommit
<1>2. PICK work : work = settling.work
  OBVIOUS
<1>3. Passed = 1 .. Len(loop)
  <2>1. PICK n, p : n = Len(loop) /\ p = settling.pos
    OBVIOUS
  <2>2. n \in 3 .. 5 /\ p \in 1 .. n + 1 /\ p > n
    BY <1>1, <2>1 DEF SettlingHeld
  <2>3. 1 .. p - 1 = 1 .. n
    BY <2>2
  <2>. QED
    BY <2>1, <2>3 DEF Passed
<1>4. /\ Len(loop) \in 3 .. 5 /\ Settlements!LoopAccepted(loop)
      /\ \A i \in DOMAIN loop : loop[i] \in Settlements!Registered
      /\ \A i \in 1 .. Len(loop) : /\ Settlements!Nettable(invoices[loop[i]], loop[i], wNet)
                                   /\ work[loop[i]] = Settlements!Netted(invoices[loop[i]], wNet)
      /\ \A id \in Ids : (\A i \in 1 .. Len(loop) : loop[i] # id) => work[id] = invoices[id]
      /\ wNet # 0 /\ wNet \in Settlements!Amounts
  BY <1>1, <1>2, <1>3 DEF SettlingHeld
<1>5. /\ work \in Settlements!Storage /\ wNet \in Nat
      /\ DOMAIN loop = 1 .. Len(loop)
  <2>1. settling \in Settlements!Call
    BY <1>1 DEF SettlingHeld
  <2>2. loop \in Settlements!Loops /\ wNet \in Nat /\ work \in Settlements!Storage
    BY <1>2, <2>1 DEF Settlements!Call
  <2>3. PICK n \in 1 .. 5 : loop \in [1 .. n -> Ids]
    BY <2>2 DEF Settlements!Loops, Settlements!MaxCycleLength
  <2>. QED
    BY <2>2, <2>3
<1>6. invoices' = work
  BY <1>1, <1>2
<1>7. ASSUME NEW i \in 1 .. Len(loop)
      PROVE  /\ loop[i] \in Ids /\ loop[i] \in Settlements!Registered
             /\ invoices[loop[i]].remaining \in Nat
             /\ work[loop[i]].remaining = invoices[loop[i]].remaining - wNet
             /\ work[loop[i]] # NotFound
  <2>1. loop[i] \in Settlements!Registered
    BY <1>4, <1>5
  <2>2. loop[i] \in Ids /\ invoices[loop[i]] \in Settlements!Invoice
    BY <2>1 DEF Settlements!Registered, SettlementHeld, Settlements!Storage
  <2>3. PICK invoice : invoice = invoices[loop[i]]
    OBVIOUS
  <2>4. /\ invoice \in Settlements!Invoice /\ wNet <= invoice.remaining
        /\ work[loop[i]] = Settlements!Netted(invoice, wNet)
    BY <1>4, <2>2, <2>3 DEF Settlements!Nettable
  <2>5. PICK left \in Nat : left = invoice.remaining - wNet
    BY <1>5, <2>4 DEF Settlements!Invoice
  <2>6. /\ invoice.remaining \in Nat
        /\ work[loop[i]] = [status |-> IF left = 0 THEN "Extinguished" ELSE invoice.status,
                            remaining |-> left]
        /\ work[loop[i]] \in Settlements!Invoice
    BY <2>4, <2>5 DEF Settlements!Netted, Settlements!Invoice
  <2>7. work[loop[i]] # NotFound
    BY <2>2, <2>6, TermsTyped
  <2>. QED
    BY <2>1, <2>2, <2>3, <2>5, <2>6, <2>7
<1>8. ASSUME NEW id \in Ids
      PROVE  work[id] # NotFound <=> invoices[id] # NotFound
  <2>1. CASE \A i \in 1 .. Len(loop) : loop[i] # id
    BY <1>4, <2>1
  <2>2. CASE \E i \in 1 .. Len(loop) : loop[i] = id
    BY <1>7, <2>2 DEF Settlements!Registered
  <2>. QED
    BY <2>1, <2>2
<1>9. Settlements!Registered' = Settlements!Registered
  BY <1>6, <1>8 DEF Settlements!Registered
<1>10. invoices' \in Settlements!Storage
  BY <1>5, <1>6
<1>11. \A i \in 1 .. Len(loop) :
          invoices'[loop[i]].remaining = invoices[loop[i]].remaining - wNet
  BY <1>6, <1>7
<1>12. \A id \in Ids : (\A i \in 1 .. Len(loop) : loop[i] # id) => invoices'[id] = invoices[id]
  BY <1>4, <1>6
<1>. QED
  BY <1>1, <1>4, <1>5, <1>7, <1>9, <1>10, <1>11, <1>12

\* The invoices of an accepted loop are a balanced set.
LEMMA LoopBalanced ==
    ASSUME NEW loop, Len(loop) \in 3 .. 5, DOMAIN loop = 1 .. Len(loop),
           Settlements!LoopAccepted(loop)
    PROVE  Settlements!Netting!Balanced({loop[i] : i \in 1 .. Len(loop)})
<1>. DEFINE S == {loop[i] : i \in 1 .. Len(loop)}
<1>1. ASSUME NEW x \in S
      PROVE  \E y \in S : Terms[y].debtor = Terms[x].creditor
  <2>1. PICK i \in 1 .. Len(loop) : x = loop[i]
    OBVIOUS
  <2>2. PICK j \in 1 .. Len(loop) : Terms[loop[i]].creditor = Terms[loop[j]].debtor
    BY LoopFacts
  <2>. QED
    BY <2>1, <2>2
<1>2. ASSUME NEW x \in S, NEW y \in S
      PROVE  /\ Terms[x].debtor = Terms[y].debtor => x = y
             /\ Terms[x].creditor = Terms[y].creditor => x = y
  <2>1. PICK i \in 1 .. Len(loop), j \in 1 .. Len(loop) : x = loop[i] /\ y = loop[j]
    OBVIOUS
  <2>. QED
    BY <2>1, LoopFacts
<1>. QED
  BY <1>1, <1>2 DEF Settlements!Netting!Balanced

\* Keeping what a call wrote nets its whole loop at once.
LEMMA CommitNets ==
    ASSUME SettlementHeld, Settlements!SettleCommit
    PROVE  SettlementHeld' /\ Settlements!Netting!Next
<1>1. PICK loop, wNet : loop = settling.loop /\ wNet = settling.wNet
  OBVIOUS
<1>. DEFINE S == {loop[i] : i \in 1 .. Len(loop)}
            left(id) == IF invoices[id] = NotFound THEN NotFound ELSE invoices[id].remaining
<1>2. /\ settling' = NoTx /\ UNCHANGED <<lastNonce, chainTime>>
      /\ wNet \in Settlements!Amounts /\ wNet \in Nat /\ wNet # 0
      /\ Len(loop) \in 3 .. 5 /\ DOMAIN loop = 1 .. Len(loop)
      /\ Settlements!LoopAccepted(loop)
      /\ invoices' \in Settlements!Storage
      /\ Settlements!Registered' = Settlements!Registered
      /\ \A i \in 1 .. Len(loop) :
            /\ loop[i] \in Ids /\ loop[i] \in Settlements!Registered
            /\ Settlements!Nettable(invoices[loop[i]], loop[i], wNet)
            /\ invoices[loop[i]].remaining \in Nat
            /\ invoices'[loop[i]].remaining = invoices[loop[i]].remaining - wNet
      /\ \A id \in Ids : (\A i \in 1 .. Len(loop) : loop[i] # id) => invoices'[id] = invoices[id]
  BY <1>1, CommitChanges, SMTT(40)
<1>3. SettlementHeld'
  BY <1>2 DEF SettlementHeld
<1>4. \A id \in S : /\ id \in Ids /\ invoices[id] # NotFound /\ invoices'[id] # NotFound
                    /\ Settlements!Nettable(invoices[id], id, wNet)
                    /\ left(id) = invoices[id].remaining /\ left(id) \in Nat
                    /\ left(id)' = left(id) - wNet
  <2>1. SUFFICES ASSUME NEW i \in 1 .. Len(loop), NEW id, id = loop[i]
                 PROVE  /\ id \in Ids /\ invoices[id] # NotFound /\ invoices'[id] # NotFound
                        /\ Settlements!Nettable(invoices[id], id, wNet)
                        /\ invoices[id].remaining \in Nat
                        /\ invoices'[id].remaining = invoices[id].remaining - wNet
    OBVIOUS
  <2>2. id \in Settlements!Registered /\ id \in Settlements!Registered'
    BY <1>2, <2>1
  <2>3. invoices[id] # NotFound /\ invoices'[id] # NotFound /\ id \in Ids
    BY <2>2 DEF Settlements!Registered
  <2>. QED
    BY <1>2, <2>1, <2>3
<1>5. \A id \in Ids \ S : left(id)' = left(id)
  BY <1>2
<1>6. S # {} /\ wNet > 0
  <2>1. 1 \in 1 .. Len(loop)
    BY <1>2
  <2>. QED
    BY <1>2, <2>1
<1>7. Settlements!Netting!Balanced(S)
  BY <1>2, LoopBalanced
<1>8. S \in SUBSET {id \in Ids : left(id) # NotFound}
  BY <1>4, TermsTyped
<1>9. wNet \in Settlements!Netting!Amounts
  BY <1>2, <1>6 DEF Settlements!Amounts, Settlements!Netting!Amounts
<1>10. \A id \in S : left(id) >= wNet /\ Settlements!Netting!Mature(id)
  BY <1>4 DEF Settlements!Nettable, Settlements!Netting!Mature
<1>. HIDE DEF S
<1>11. [id \in Ids |-> left(id)'] = [id \in Ids |-> IF id \in S THEN left(id) - wNet ELSE left(id)]
  BY <1>4, <1>5
<1>12. Settlements!Netting!Net(S, wNet)
  BY <1>2, <1>4, <1>6, <1>7, <1>10, <1>11 DEF Settlements!Netting!Net
<1>. QED
  BY <1>3, <1>8, <1>9, <1>12 DEF Settlements!Netting!Next

LEMMA SettlementInit ==
    ASSUME Settlements!Init
    PROVE  SettlementHeld /\ Settlements!Netting!Init
<1>1. /\ invoices = [id \in Ids |-> NotFound] /\ lastNonce = [p \in Settlements!Pairs |-> 0]
      /\ chainTime = 0 /\ settling = NoTx
  BY DEF Settlements!Init
<1>2. Settlements!Registered = {}
  BY <1>1 DEF Settlements!Registered
<1>3. SettlementHeld
  BY <1>1, <1>2, FS_EmptySet DEF SettlementHeld, Settlements!Storage
<1>4. Settlements!Netting!Pairs = Settlements!Pairs
  BY DEF Settlements!Netting!Pairs, Settlements!Pairs, Settlements!Netting!Pair, Settlements!Pair
<1>. QED
  BY <1>1, <1>3, <1>4 DEF Settlements!Netting!Init

\* Every step of the two contracts is a step of what they promise, or none.
LEMMA SettlementStep ==
    ASSUME SettlementHeld, Settlements!Next
    PROVE  SettlementHeld' /\ [Settlements!Netting!Next]_(Settlements!Netting!vars)
<1>1. ASSUME NEW id \in Ids, NEW d, NEW c, Settlements!Register(id, d, c)
      PROVE  SettlementHeld' /\ [Settlements!Netting!Next]_(Settlements!Netting!vars)
  BY <1>1, RegisterHeld DEF Settlements!Netting!Next
<1>2. ASSUME NEW loop \in Settlements!ReadableLoops, NEW wNet \in Settlements!Amounts,
             Settlements!SettleBegin(loop, wNet)
      PROVE  SettlementHeld' /\ UNCHANGED Settlements!Netting!vars
  BY <1>2, SettleBeginHeld DEF Settlements!SettleBegin, Settlements!Netting!vars
<1>3. CASE Settlements!NetInvoice
  BY <1>3, NetInvoiceHeld DEF Settlements!NetInvoice, Settlements!Netting!vars
<1>4. CASE Settlements!SettleRevert
  BY <1>4 DEF Settlements!SettleRevert, SettlementHeld, Settlements!Registered,
              Settlements!Netting!vars
<1>5. CASE Settlements!SettleCommit
  BY <1>5, CommitNets
<1>6. CASE Settlements!Tick
  <2>1. SettlementHeld' /\ Settlements!Netting!Tick
    BY <1>6 DEF Settlements!Tick, SettlementHeld, Settlements!Registered, Settlements!Netting!Tick
  <2>. QED
    BY <2>1 DEF Settlements!Netting!Next
<1>. QED
  BY <1>1, <1>2, <1>3, <1>4, <1>5, <1>6 DEF Settlements!Next

\* A part that is not chosen does not move.
LEMMA SettlementAlone ==
    ASSUME part = "settlement" => SettlementHeld, [ContractsNext]_<<part, contractsVars>>
    PROVE  /\ part' = part
           /\ (part = "settlement" => SettlementHeld)'
           /\ [part = "settlement" => [Settlements!Netting!Next]_(Settlements!Netting!vars)]_settlementVars
<1>1. CASE UNCHANGED <<part, contractsVars>>
  BY <1>1 DEF contractsVars, settlementVars, SettlementHeld, SettlingHeld, Passed,
              Settlements!Registered, Settlements!LoopAccepted, Settlements!Nettable,
              Settlements!Netted
<1>2. CASE ContractsNext
  BY <1>2, SettlementStep DEF ContractsNext, settlementVars
<1>. QED
  BY <1>1, <1>2

\* The registry and the settler, writing one invoice at a time and undoing what
\* they wrote when one fails, net a whole loop or nothing: what InvoiceNetting
\* says.
THEOREM SettlementImplemented == ContractsSpec => ImplementsInvoiceNetting
<1>1. ContractsInit => /\ part = "settlement" => SettlementHeld
                       /\ part = "settlement" => Settlements!Netting!Init
  BY SettlementInit DEF ContractsInit
<1>2. (part = "settlement" => SettlementHeld) /\ [ContractsNext]_<<part, contractsVars>> =>
         /\ (part = "settlement" => SettlementHeld)'
         /\ [part = "settlement" => [Settlements!Netting!Next]_(Settlements!Netting!vars)]_settlementVars
  BY SettlementAlone
<1>. QED
  BY <1>1, <1>2, PTL DEF ContractsSpec, ImplementsInvoiceNetting

-----------------------------------------------------------------------------
(* Net positions.                                                          *)

\* The invoices on one side of a party.
ClaimsOf(p) == {id \in Settlements!Registered : Terms[id].creditor = p}
DebtsOf(p) == {id \in Settlements!Registered : Terms[id].debtor = p}

LEMMA PositionIs ==
    ASSUME NEW p
    PROVE  /\ Settlements!Position(p) = SumFunctionOnSet(Settlements!Owed, ClaimsOf(p))
                                        - SumFunctionOnSet(Settlements!Owed, DebtsOf(p))
           /\ Settlements!Position(p)' = SumFunctionOnSet(Settlements!Owed', ClaimsOf(p)')
                                         - SumFunctionOnSet(Settlements!Owed', DebtsOf(p)')
BY DEF Settlements!Position, ClaimsOf, DebtsOf, SumFunctionOnSet, Settlements!SumFunctionOnSet,
       FoldFunctionOnSet, Settlements!FoldFunctionOnSet, MapThenFoldSet, Settlements!MapThenFoldSet

\* One term less makes the sum less by as much.
LEMMA OneTermLess ==
    ASSUME NEW S, IsFiniteSet(S), NEW f, NEW g, \A y \in S : f[y] \in Nat /\ g[y] \in Nat,
           NEW x \in S, NEW w \in Nat, f[x] = g[x] + w, \A y \in S \ {x} : f[y] = g[y]
    PROVE  /\ SumFunctionOnSet(f, S) = SumFunctionOnSet(g, S) + w
           /\ SumFunctionOnSet(g, S) \in Nat
<1>. DEFINE T == S \ {x}
<1>1. IsFiniteSet(T) /\ S = T \cup {x} /\ x \notin T
  BY FS_Subset
<1>2. /\ \A y \in T \cup {x} : f[y] \in Nat /\ g[y] \in Nat
      /\ \A y \in T : f[y] = g[y]
  OBVIOUS
<1>. HIDE DEF T
<1>3. /\ SumFunctionOnSet(f, S) = f[x] + SumFunctionOnSet(f, T)
      /\ SumFunctionOnSet(g, S) = g[x] + SumFunctionOnSet(g, T)
  BY <1>1, <1>2, SumOfOneMore
<1>4. SumFunctionOnSet(f, T) = SumFunctionOnSet(g, T)
  BY <1>1, <1>2, SameSum
<1>5. SumFunctionOnSet(g, T) \in Nat
  BY <1>1, <1>2, SumIsNumber
<1>6. g[x] \in Nat
  OBVIOUS
<1>. QED
  BY <1>3, <1>4, <1>5, <1>6

\* What is owed on a set of registered invoices that a commit either leaves alone
\* or of which it nets exactly one.
LEMMA SideNetted ==
    ASSUME SettlementHeld, Settlements!SettleCommit, NEW loop, loop = settling.loop,
           NEW wNet, wNet = settling.wNet, NEW S \in SUBSET Settlements!Registered
    PROVE  /\ SumFunctionOnSet(Settlements!Owed', S) \in Nat
           /\ (\A i \in 1 .. Len(loop) : loop[i] \notin S) =>
                 SumFunctionOnSet(Settlements!Owed, S) = SumFunctionOnSet(Settlements!Owed', S)
           /\ \A i \in 1 .. Len(loop) :
                 loop[i] \in S /\ (\A j \in 1 .. Len(loop) : loop[j] \in S => loop[j] = loop[i]) =>
                    SumFunctionOnSet(Settlements!Owed, S) = SumFunctionOnSet(Settlements!Owed', S) + wNet
<1>1. /\ wNet \in Nat /\ invoices' \in Settlements!Storage
      /\ Settlements!Registered' = Settlements!Registered
      /\ \A i \in 1 .. Len(loop) :
            /\ loop[i] \in Ids /\ invoices[loop[i]].remaining \in Nat
            /\ invoices'[loop[i]].remaining = invoices[loop[i]].remaining - wNet
      /\ \A id \in Ids : (\A i \in 1 .. Len(loop) : loop[i] # id) => invoices'[id] = invoices[id]
  BY CommitChanges
<1>2. PICK f, g : f = Settlements!Owed /\ g = Settlements!Owed'
  OBVIOUS
<1>3. IsFiniteSet(S)
  BY FS_Subset DEF SettlementHeld
<1>4. ASSUME NEW id \in S
      PROVE  /\ id \in Ids /\ f[id] = invoices[id].remaining /\ g[id] = invoices'[id].remaining
             /\ f[id] \in Nat /\ g[id] \in Nat
  <2>1. id \in Settlements!Registered /\ id \in Settlements!Registered'
    BY <1>1
  <2>2. id \in Ids /\ invoices[id] # NotFound /\ invoices'[id] # NotFound
    BY <2>1 DEF Settlements!Registered
  <2>3. invoices[id] \in Settlements!Invoice /\ invoices'[id] \in Settlements!Invoice
    BY <1>1, <2>2 DEF SettlementHeld, Settlements!Storage
  <2>4. f[id] = invoices[id].remaining /\ g[id] = invoices'[id].remaining
    BY <1>2, <2>2 DEF Settlements!Owed
  <2>. QED
    BY <2>2, <2>3, <2>4 DEF Settlements!Invoice
<1>5. SumFunctionOnSet(g, S) \in Nat
  BY <1>3, <1>4, SumIsNumber
<1>6. ASSUME \A i \in 1 .. Len(loop) : loop[i] \notin S
      PROVE  SumFunctionOnSet(f, S) = SumFunctionOnSet(g, S)
  <2>1. \A id \in S : f[id] = g[id]
    BY <1>1, <1>4, <1>6
  <2>. QED
    BY <1>3, <2>1, SameSum
<1>7. ASSUME NEW i \in 1 .. Len(loop), loop[i] \in S,
             \A j \in 1 .. Len(loop) : loop[j] \in S => loop[j] = loop[i]
      PROVE  SumFunctionOnSet(f, S) = SumFunctionOnSet(g, S) + wNet
  <2>1. PICK x \in S : x = loop[i]
    BY <1>7
  <2>2. f[x] \in Nat /\ g[x] = f[x] - wNet
    BY <1>1, <1>4, <2>1
  <2>3. f[x] = g[x] + wNet
    BY <1>1, <2>2
  <2>4. \A y \in S \ {x} : f[y] = g[y]
    BY <1>1, <1>4, <1>7, <2>1
  <2>. QED
    BY <1>1, <1>3, <1>4, <2>3, <2>4, OneTermLess, SMTT(40)
<1>. QED
  BY <1>2, <1>5, <1>6, <1>7

\* A party of the loop has one claim and one debt in it, both netted by the same
\* amount; any other party has neither.
LEMMA CommitKeepsPositions ==
    ASSUME SettlementHeld, Settlements!SettleCommit, NEW p
    PROVE  Settlements!Position(p)' = Settlements!Position(p)
<1>1. PICK loop, wNet : loop = settling.loop /\ wNet = settling.wNet
  OBVIOUS
<1>2. /\ wNet \in Nat /\ Len(loop) \in 3 .. 5 /\ DOMAIN loop = 1 .. Len(loop)
      /\ Settlements!LoopAccepted(loop) /\ Settlements!Registered' = Settlements!Registered
      /\ \A i \in 1 .. Len(loop) : loop[i] \in Settlements!Registered
  BY <1>1, CommitChanges
<1>3. PICK claims, debts : claims = ClaimsOf(p) /\ debts = DebtsOf(p)
  OBVIOUS
<1>4. /\ ClaimsOf(p)' = claims /\ DebtsOf(p)' = debts
      /\ claims \in SUBSET Settlements!Registered /\ debts \in SUBSET Settlements!Registered
  BY <1>2, <1>3 DEF ClaimsOf, DebtsOf
<1>5. \A i \in 1 .. Len(loop) : /\ loop[i] \in claims <=> Terms[loop[i]].creditor = p
                                /\ loop[i] \in debts <=> Terms[loop[i]].debtor = p
  BY <1>2, <1>3 DEF ClaimsOf, DebtsOf
<1>6. PICK f, g : f = Settlements!Owed /\ g = Settlements!Owed'
  OBVIOUS
<1>7. /\ \A i, j \in 1 .. Len(loop) : Terms[loop[i]].debtor = Terms[loop[j]].debtor => i = j
      /\ \A i \in 1 .. Len(loop) :
            \E j \in 1 .. Len(loop) : Terms[loop[i]].creditor = Terms[loop[j]].debtor
      /\ \A i, j \in 1 .. Len(loop) : Terms[loop[i]].creditor = Terms[loop[j]].creditor => i = j
  BY <1>2, LoopFacts
<1>8. /\ Settlements!Position(p) = SumFunctionOnSet(f, claims) - SumFunctionOnSet(f, debts)
      /\ Settlements!Position(p)' = SumFunctionOnSet(g, claims) - SumFunctionOnSet(g, debts)
  BY <1>3, <1>4, <1>6, PositionIs
<1>9. ASSUME NEW S \in SUBSET Settlements!Registered
      PROVE  /\ SumFunctionOnSet(g, S) \in Nat
             /\ (\A i \in 1 .. Len(loop) : loop[i] \notin S) =>
                   SumFunctionOnSet(f, S) = SumFunctionOnSet(g, S)
             /\ \A i \in 1 .. Len(loop) :
                   loop[i] \in S /\ (\A j \in 1 .. Len(loop) : loop[j] \in S => loop[j] = loop[i]) =>
                      SumFunctionOnSet(f, S) = SumFunctionOnSet(g, S) + wNet
  BY <1>1, <1>6, SideNetted, ZenonT(40)
<1>10. CASE \E i \in 1 .. Len(loop) : Terms[loop[i]].debtor = p
  <2>1. PICK i \in 1 .. Len(loop) : Terms[loop[i]].debtor = p
    BY <1>10
  <2>2. PICK j \in 1 .. Len(loop) : Terms[loop[j]].creditor = p
    <3>1. PICK n : n = Len(loop)
      OBVIOUS
    <3>2. PICK j \in 1 .. n : Settlements!NextIndex(j, n) = i
      BY <1>2, <2>1, <3>1, Successors
    <3>. QED
      BY <1>2, <2>1, <3>1, <3>2, LoopFacts
  <2>3. /\ loop[j] \in claims /\ \A k \in 1 .. Len(loop) : loop[k] \in claims => loop[k] = loop[j]
        /\ loop[i] \in debts /\ \A k \in 1 .. Len(loop) : loop[k] \in debts => loop[k] = loop[i]
    BY <1>5, <1>7, <2>1, <2>2
  <2>4. /\ SumFunctionOnSet(f, claims) = SumFunctionOnSet(g, claims) + wNet
        /\ SumFunctionOnSet(f, debts) = SumFunctionOnSet(g, debts) + wNet
        /\ SumFunctionOnSet(g, claims) \in Nat /\ SumFunctionOnSet(g, debts) \in Nat
    <3>1. SumFunctionOnSet(f, claims) = SumFunctionOnSet(g, claims) + wNet
      BY <1>4, <1>9, <2>2, <2>3, Zenon
    <3>2. SumFunctionOnSet(f, debts) = SumFunctionOnSet(g, debts) + wNet
      BY <1>4, <1>9, <2>1, <2>3, Zenon
    <3>3. SumFunctionOnSet(g, claims) \in Nat /\ SumFunctionOnSet(g, debts) \in Nat
      BY <1>4, <1>9, Zenon
    <3>. QED
      BY <3>1, <3>2, <3>3
  <2>. QED
    BY <1>2, <1>8, <2>4
<1>11. CASE ~ \E i \in 1 .. Len(loop) : Terms[loop[i]].debtor = p
  <2>1. \A i \in 1 .. Len(loop) : loop[i] \notin debts
    BY <1>5, <1>11
  <2>2. \A i \in 1 .. Len(loop) : loop[i] \notin claims
    BY <1>5, <1>11, <1>7
  <2>3. /\ SumFunctionOnSet(f, claims) = SumFunctionOnSet(g, claims)
        /\ SumFunctionOnSet(f, debts) = SumFunctionOnSet(g, debts)
    BY <1>4, <1>9, <2>1, <2>2, Zenon
  <2>. QED
    BY <1>8, <2>3
<1>. QED
  BY <1>10, <1>11

\* Only a commit changes what is owed on a registered invoice.
LEMMA PositionsKept ==
    ASSUME SettlementHeld, Settlements!Next
    PROVE  Settlements!KeepsPositions
<1>1. SUFFICES ASSUME \E id \in Settlements!Registered : invoices'[id] # invoices[id]
               PROVE  \A p \in Parties : Settlements!Position(p)' = Settlements!Position(p)
  BY DEF Settlements!KeepsPositions
<1>2. PICK id \in Ids : invoices[id] # NotFound /\ invoices'[id] # invoices[id]
  BY <1>1 DEF Settlements!Registered
<1>3. ASSUME NEW x \in Ids, NEW d, NEW c, Settlements!Register(x, d, c)
      PROVE  FALSE
  <2>1. invoices[x] = NotFound /\ \E r : invoices' = [invoices EXCEPT ![x] = r]
    BY <1>3 DEF Settlements!Register
  <2>. QED
    BY <1>2, <2>1 DEF SettlementHeld, Settlements!Storage
<1>4. Settlements!SettleCommit
  BY <1>2, <1>3 DEF Settlements!Next, Settlements!SettleBegin, Settlements!NetInvoice,
                    Settlements!SettleRevert, Settlements!Tick
<1>. QED
  BY <1>4, CommitKeepsPositions

\* Whatever loop and amount settle is called with, and wherever it may fail, a
\* step that changes what is owed on a registered invoice leaves the net position
\* of every party where it was.
THEOREM PositionsCorrect == ContractsSpec => PositionsUnchanged
<1>1. ContractsInit => (part = "settlement" => SettlementHeld)
  BY SettlementInit DEF ContractsInit
<1>2. (part = "settlement" => SettlementHeld) /\ [ContractsNext]_<<part, contractsVars>> =>
         /\ (part = "settlement" => SettlementHeld)'
         /\ [part = "settlement" => Settlements!KeepsPositions]_settlementVars
  <2>1. SUFFICES ASSUME part = "settlement" => SettlementHeld,
                        [ContractsNext]_<<part, contractsVars>>
                 PROVE  [part = "settlement" => Settlements!KeepsPositions]_settlementVars
    BY SettlementAlone
  <2>2. CASE UNCHANGED <<part, contractsVars>>
    BY <2>2 DEF contractsVars
  <2>3. CASE ContractsNext
    BY <2>1, <2>3, PositionsKept DEF ContractsNext
  <2>. QED
    BY <2>1, <2>2, <2>3
<1>. QED
  BY <1>1, <1>2, PTL DEF ContractsSpec, PositionsUnchanged
=============================================================================
