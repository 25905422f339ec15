------------------------------ MODULE ChainIndex -----------------------------
(***************************************************************************)
(* The index of the Registry's events.  A run reads the logs of a range of *)
(* blocks, writes its nonces and events and then moves the cursor; readers *)
(* and a background task start runs under a lock that expires.  Every      *)
(* block has one event of one pair: an invoice registered, or one netted.  *)
(***************************************************************************)
EXTENDS Integers, Sequences, FiniteSets, FiniteSetsExt

CONSTANTS
    Syncs,          \* runs that may be at work at once
    LastBlock,      \* bound on the chain
    ChunkBlocks,    \* blocks of a range
    MaxEvents,      \* events the index keeps
    NoSync

VARIABLES
    chain,          \* the event of each block
    meta,           \* the saved cursor, head and whether events were left out
    events,         \* the blocks whose event is stored
    nonce,          \* the stored nonce of the pair
    indexLock,
    syncs,
    outlived        \* whether a run ever outlived its lock

indexVars == <<chain, meta, events, nonce, indexLock, syncs, outlived>>

emptyMeta == [cursor |-> 0, head |-> 0, truncated |-> FALSE]
NoRun == [at |-> "idle", meta |-> emptyMeta, to |-> 0, known |-> 0, have |-> 0]

Init ==
    /\ chain = <<>>
    /\ meta = emptyMeta
    /\ events = {} /\ nonce = 0
    /\ indexLock = NoSync
    /\ syncs = [s \in Syncs |-> NoRun]
    /\ outlived = FALSE

At(s, place) == syncs[s].at = place
Go(s, place) == syncs' = [syncs EXCEPT ![s].at = place]
Confirmed == IF chain = <<>> THEN 0 ELSE Len(chain) - 1
RegisteredTo(b) == Cardinality({i \in 1..b : chain[i] = "registered"})
Blocks(s) == (syncs[s].meta.cursor + 1)..syncs[s].to

-----------------------------------------------------------------------------
Grow(kind) ==
    /\ Len(chain) < LastBlock
    /\ chain' = Append(chain, kind)
    /\ UNCHANGED <<meta, events, nonce, indexLock, syncs, outlived>>

\* ensureIndexed and advanceChainIndexQuietly.  An index seen at its head
\* lately is used as it is, and a run in progress is waited for.
Begin(s) ==
    /\ At(s, "idle")
    /\ Go(s, "locking")
    /\ UNCHANGED <<chain, meta, events, nonce, indexLock, outlived>>

Lock(s) ==
    /\ At(s, "locking") /\ indexLock = NoSync
    /\ indexLock' = s /\ Go(s, "reading")
    /\ UNCHANGED <<chain, meta, events, nonce, outlived>>

ReadMeta(s) ==
    /\ At(s, "reading")
    /\ syncs' = [syncs EXCEPT ![s].meta = meta, ![s].at = "heading"]
    /\ UNCHANGED <<chain, meta, events, nonce, indexLock, outlived>>

ReadHead(s) ==
    /\ At(s, "heading")
    /\ syncs' = [syncs EXCEPT ![s].meta.head = Max({@, Confirmed}), ![s].at = "chunk"]
    /\ UNCHANGED <<chain, meta, events, nonce, indexLock, outlived>>

\* The next range is read, or the budget is spent, or the head is reached.
\* A range whose cursor moves when its logs are read.
ReadLogsMovingCursor(s) ==
    /\ At(s, "chunk")
    /\ LET at == syncs[s].meta IN
       \/ /\ at.cursor < at.head
          /\ syncs' = [syncs EXCEPT ![s].to = Min({at.cursor + ChunkBlocks, at.head}), ![s].at = "nonces"]
          /\ meta' = [at EXCEPT !.cursor = Min({at.cursor + ChunkBlocks, at.head})]
       \/ at.cursor < at.head /\ Go(s, "releasing") /\ UNCHANGED meta
       \/ at.cursor >= at.head /\ meta' = at /\ Go(s, "releasing")
    /\ UNCHANGED <<chain, events, nonce, indexLock, outlived>>

ReadLogs(s) ==
    /\ At(s, "chunk")
    /\ LET at == syncs[s].meta IN
       \/ /\ at.cursor < at.head
          /\ syncs' = [syncs EXCEPT ![s].to = Min({at.cursor + ChunkBlocks, at.head}), ![s].at = "nonces"]
          /\ UNCHANGED meta
       \/ at.cursor < at.head /\ Go(s, "releasing") /\ UNCHANGED meta
       \/ at.cursor >= at.head /\ meta' = at /\ Go(s, "releasing")
    /\ UNCHANGED <<chain, events, nonce, indexLock, outlived>>

ReadNonces(s) ==
    /\ At(s, "nonces")
    /\ IF \E b \in Blocks(s) : chain[b] = "registered"
       THEN syncs' = [syncs EXCEPT ![s].known = nonce, ![s].at = "raising"]
       ELSE Go(s, "counting")
    /\ UNCHANGED <<chain, meta, events, nonce, indexLock, outlived>>

\* The largest registered nonce of the range, when it is above the known one.
PutNonces(s) ==
    /\ At(s, "raising")
    /\ LET last == RegisteredTo(syncs[s].to) IN
       IF last > syncs[s].known THEN nonce' = last ELSE UNCHANGED nonce
    /\ Go(s, "counting")
    /\ UNCHANGED <<chain, meta, events, indexLock, outlived>>

CountEvents(s) ==
    /\ At(s, "counting")
    /\ syncs' = [syncs EXCEPT ![s].have = Cardinality(events), ![s].at = "storing"]
    /\ UNCHANGED <<chain, meta, events, nonce, indexLock, outlived>>

\* Past the cap the first events of the range that fit are kept.
PutEvents(s) ==
    /\ At(s, "storing")
    /\ LET room == Max({0, MaxEvents - syncs[s].have})
           kept == {b \in Blocks(s) : b <= syncs[s].meta.cursor + room} IN
       /\ events' = events \cup kept
       /\ syncs' = [syncs EXCEPT ![s].at = "moving", ![s].meta.truncated = @ \/ kept # Blocks(s)]
    /\ UNCHANGED <<chain, meta, nonce, indexLock, outlived>>

PutMeta(s) ==
    /\ At(s, "moving")
    /\ LET moved == [syncs[s].meta EXCEPT !.cursor = syncs[s].to] IN
       meta' = moved /\ syncs' = [syncs EXCEPT ![s].meta = moved, ![s].at = "chunk"]
    /\ UNCHANGED <<chain, events, nonce, indexLock, outlived>>

\* A run releases only its own lock; one that throws releases it too.
Release(s) ==
    /\ syncs[s].at \notin {"idle", "locking"}
    /\ indexLock' = IF indexLock = s THEN NoSync ELSE indexLock
    /\ syncs' = [syncs EXCEPT ![s] = NoRun]
    /\ UNCHANGED <<chain, meta, events, nonce, outlived>>

Die(s) ==
    /\ ~At(s, "idle")
    /\ syncs' = [syncs EXCEPT ![s] = NoRun]
    /\ UNCHANGED <<chain, meta, events, nonce, indexLock, outlived>>

LockExpires ==
    /\ indexLock # NoSync
    /\ indexLock' = NoSync
    /\ outlived' = (outlived \/ ~At(indexLock, "idle"))
    /\ UNCHANGED <<chain, meta, events, nonce, syncs>>

Next ==
    \/ \E kind \in {"registered", "netted"} : Grow(kind)
    \/ LockExpires
    \/ \E s \in Syncs :
          \/ Begin(s) \/ Lock(s) \/ ReadMeta(s) \/ ReadHead(s) \/ ReadLogs(s)
          \/ ReadNonces(s) \/ PutNonces(s) \/ CountEvents(s) \/ PutEvents(s) \/ PutMeta(s)
          \/ Release(s) \/ Die(s)

-----------------------------------------------------------------------------
\* Whichever runs die or overlap, the events up to the cursor are stored or the
\* index says that some are not.  Unless a run outlived its lock, the nonce is
\* the pair's at the cursor or at a block some run has read after it.
IndexIsComplete ==
    /\ ~meta.truncated => 1..meta.cursor \subseteq events
    /\ ~outlived => \E b \in meta.cursor..Len(chain) : nonce = RegisteredTo(b)
=============================================================================
