---------------------------- MODULE ProtocolStats ----------------------------
(***************************************************************************)
(* The protocol totals on the stats page.  A refresh folds ranges of       *)
(* blocks into the totals and saves totals and cursor together after each; *)
(* a page only reads what is saved and says when it is behind.  Every      *)
(* block has one event, and a node may return a log twice.                 *)
(***************************************************************************)
EXTENDS Integers, SequencesExt, FiniteSetsExt

CONSTANTS
    Refreshes,      \* runs that may be at work at once
    LastStatsBlock, \* bound on the chain
    StatsChunk,     \* STATS_CHUNK_BLOCKS
    NoRefresh

VARIABLES
    height,         \* confirmed blocks
    saved,          \* the stored state
    lastError,      \* whether an error is recorded since the state was saved
    statsLock,
    refreshes,
    view            \* the figures a page shows, and whether it calls them current

statsVars == <<height, saved, lastError, statsLock, refreshes, view>>

emptyState == [cursor |-> 0, head |-> 0, total |-> 0]
NoRun == [at |-> "idle", state |-> emptyState, logs |-> <<>>]

Init ==
    /\ height = 0
    /\ saved = emptyState
    /\ lastError = FALSE
    /\ statsLock = NoRefresh
    /\ refreshes = [r \in Refreshes |-> NoRun]
    /\ view = [total |-> 0, to |-> 0, current |-> FALSE]

At(r, place) == refreshes[r].at = place
Go(r, place) == refreshes' = [refreshes EXCEPT ![r].at = place]

\* Every log a node returns, and foldEvents, which counts a log once and none
\* at or below the cursor.
FoldedTwice(state, logs) == Len(logs)
Folded(state, logs) == Cardinality({b \in ToSet(logs) : b > state.cursor})

-----------------------------------------------------------------------------
Confirm ==
    /\ height < LastStatsBlock /\ height' = height + 1
    /\ UNCHANGED <<saved, lastError, statsLock, refreshes, view>>

Lock(r) ==
    /\ At(r, "idle") /\ statsLock = NoRefresh
    /\ statsLock' = r /\ Go(r, "reading")
    /\ UNCHANGED <<height, saved, lastError, view>>

ReadState(r) ==
    /\ At(r, "reading")
    /\ refreshes' = [refreshes EXCEPT ![r].state = saved, ![r].at = "heading"]
    /\ UNCHANGED <<height, saved, lastError, statsLock, view>>

ReadHead(r) ==
    /\ At(r, "heading")
    /\ refreshes' = [refreshes EXCEPT ![r].state.head = Max({@, height}), ![r].at = "chunk"]
    /\ UNCHANGED <<height, saved, lastError, statsLock, view>>

\* The next range, or the end of the budget with the progress saved, or the
\* head.
Fetch(r) ==
    /\ At(r, "chunk")
    /\ LET state == refreshes[r].state
           to == Min({state.cursor + StatsChunk, state.head})
           logs == [i \in 1..(to - state.cursor) |-> state.cursor + i] IN
       \/ /\ state.cursor < state.head
          /\ \E twice \in BOOLEAN :
                refreshes' = [refreshes EXCEPT ![r].at = "saving",
                    ![r].logs = IF twice THEN logs \o logs ELSE logs]
       \/ state.cursor < state.head /\ Go(r, "clearing")
       \/ state.cursor >= state.head /\ Go(r, "finishing")
    /\ UNCHANGED <<height, saved, lastError, statsLock, view>>

SaveChunk(r) ==
    /\ At(r, "saving")
    /\ LET state == refreshes[r].state
           logs == refreshes[r].logs
           next == [state EXCEPT !.total = @ + Folded(state, logs), !.cursor = Max(ToSet(logs))] IN
       /\ saved' = next
       /\ refreshes' = [refreshes EXCEPT ![r] = [at |-> "chunk", state |-> next, logs |-> <<>>]]
    /\ UNCHANGED <<height, lastError, statsLock, view>>

SaveUpdated(r) ==
    /\ At(r, "finishing")
    /\ saved' = refreshes[r].state
    /\ lastError' = FALSE
    /\ Go(r, "clearing")
    /\ UNCHANGED <<height, statsLock, view>>

ClearError(r) ==
    /\ At(r, "clearing")
    /\ lastError' = FALSE /\ Go(r, "releasing")
    /\ UNCHANGED <<height, saved, statsLock, view>>

Throw(r) ==
    /\ refreshes[r].at \in {"reading", "heading", "chunk", "saving", "finishing", "clearing"}
    /\ lastError' = TRUE /\ Go(r, "releasing")
    /\ UNCHANGED <<height, saved, statsLock, view>>

Release(r) ==
    /\ At(r, "releasing")
    /\ statsLock' = IF statsLock = r THEN NoRefresh ELSE statsLock
    /\ refreshes' = [refreshes EXCEPT ![r] = NoRun]
    /\ UNCHANGED <<height, saved, lastError, view>>

Die(r) ==
    /\ ~At(r, "idle")
    /\ refreshes' = [refreshes EXCEPT ![r] = NoRun]
    /\ UNCHANGED <<height, saved, lastError, statsLock, view>>

LockExpires ==
    /\ statsLock # NoRefresh
    /\ statsLock' = NoRefresh
    /\ UNCHANGED <<height, saved, lastError, refreshes, view>>

\* buildStatsView; figures whose refresh is long ago are called out of date.
Show ==
    /\ \E old \in BOOLEAN :
          view' = [total |-> saved.total, to |-> saved.head,
                   current |-> saved.cursor >= saved.head /\ ~old /\ ~lastError]
    /\ UNCHANGED <<height, saved, lastError, statsLock, refreshes>>

Next ==
    \/ Confirm \/ LockExpires \/ Show
    \/ \E r \in Refreshes :
          \/ Lock(r) \/ ReadState(r) \/ ReadHead(r) \/ Fetch(r) \/ SaveChunk(r)
          \/ SaveUpdated(r) \/ ClearError(r) \/ Throw(r) \/ Release(r) \/ Die(r)

-----------------------------------------------------------------------------
\* Whatever crashes, overlaps or is returned twice, the saved totals are what
\* the contracts emitted up to the saved cursor, and figures that a page shows
\* as current are those of the head it was told.
TotalsAddUp ==
    /\ saved.total = saved.cursor
    /\ view.current => view.total = view.to
=============================================================================
