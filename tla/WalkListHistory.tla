--------------------------- MODULE WalkListHistory ---------------------------
(***************************************************************************)
(* WorkspaceRefresh with a history of the walks: which walks in flight an  *)
(* invalidation of the walk cache has crossed, and whether the list in the *)
(* cache came from such a walk.  WalkCache::store clears the dirty flag    *)
(* whatever happened since the walk began, so a list can outlive the event *)
(* that made it stale; the history says that nothing else makes it so.     *)
(***************************************************************************)
EXTENDS WorkspaceRefresh

VARIABLES
    crossed,  \* the polls whose walk an invalidation has crossed
    tainted   \* the list in the walk cache came from a crossed walk

historyVars == <<vars, crossed, tainted>>

\* A step invalidates when a membership event or an ignore-file event is
\* delivered, the roots change or the switch flips.
Invalidates ==
    \/ roots' # roots
    \/ enabled' # enabled
    \/ \E event \in events \ events' : event.kind # "changed"

InFlight == {p \in Polls : poll'[p].pc \in {"walk", "walked"}}

Stores(p) == poll[p].pc = "walked" /\ poll[p].caching /\ poll'[p].pc = "load"

HistoryInit == RefreshInit /\ crossed = {} /\ tainted = FALSE

Remember ==
    /\ crossed' = IF Invalidates THEN InFlight ELSE crossed \cap InFlight
    /\ tainted' = IF \E p \in Polls : Stores(p)
                  THEN \E p \in crossed : Stores(p) ELSE tainted

\* Polls that the client may cancel.
HistoryNext ==
    \/ RefreshNext /\ Remember
    \/ \E p \in Polls : PollCancelled(p) /\ Remember
    \/ \E o \in orphans : (OrphanReads(o) \/ OrphanInstalls(o)) /\ Remember

HistorySpec == HistoryInit /\ [][HistoryNext]_historyVars

\* A valid walk list under a watching client is what a walk would find now,
\* up to the events on their way, unless the walk it came from was crossed
\* by an invalidation (documents.rs: "List membership changed: the next poll
\* re-walks"): the flag, the registration gate and the two ways of dropping
\* the list leave no other hole.
ListStaleOnlyIfCrossed == WalkListFresh \/ tainted
=============================================================================
