----------------------------- MODULE DesktopRail ----------------------------
(***************************************************************************)
(* A task in the desktop's rail: its tree is loaded, followed along the    *)
(* host's stream of its events, and refreshed besides by a cancel or when  *)
(* a scheduled task is opened. Answers are shown in the order they come.   *)
(***************************************************************************)
EXTENDS Naturals

VARIABLES treeAtHost,     \* whether a worker of the task is still running
          follow,         \* what followTree is at
          streamed,       \* the state whose event the stream has delivered last
          streamRefresh,  \* refreshTree called by followTree: the tree it was answered
          ownerRefresh,   \* refreshTree called by trackTask, cancelChild or openScheduledParent
          treeShown,
          overtaken       \* history: a refresh of the owner's has brought back an older tree

railVars == <<treeAtHost, follow, streamed, streamRefresh, ownerRefresh, treeShown, overtaken>>

Tree == {"none", "running", "settled"}
NoRefresh == [why |-> "none", tree |-> "none"]

RailTypeOK ==
    /\ treeAtHost \in Tree \ {"none"}
    /\ follow \in {"none", "open", "chunk", "last", "cut", "over", "lost"}
    /\ streamed \in Tree /\ treeShown \in Tree
    /\ streamRefresh \in Tree \cup {"asked"}
    /\ ownerRefresh \in [why: {"none", "track", "cancel", "open"}, tree: Tree]
    /\ overtaken \in BOOLEAN

-----------------------------------------------------------------------------
\* Mutant: a tree that is there already is kept.
SetTree_IfNew(tree) == treeShown' = IF treeShown = "none" THEN tree ELSE treeShown
\* refreshTree takes what it is answered, be it older than what it has.
SetTree(tree) == treeShown' = tree

TaskSettles ==
    /\ treeAtHost = "running" /\ treeAtHost' = "settled"
    /\ UNCHANGED <<follow, streamed, streamRefresh, ownerRefresh, treeShown, overtaken>>

\* The stream delivers the event of a state.
Chunk ==
    /\ follow = "open" /\ streamed # treeAtHost
    /\ streamed' = treeAtHost
    /\ follow' = "chunk" /\ streamRefresh' = "asked"
    /\ UNCHANGED <<treeAtHost, ownerRefresh, treeShown, overtaken>>

\* The host ends the stream once the task has settled and all its events are sent, or after an error of its own.
TreeStreamEnds ==
    /\ follow = "open"
    /\ follow' = IF streamed = "settled" THEN "last" ELSE "cut"
    /\ streamRefresh' = "asked"
    /\ UNCHANGED <<treeAtHost, streamed, ownerRefresh, treeShown, overtaken>>

StreamTreeTaken ==
    /\ streamRefresh = "asked" /\ streamRefresh' = treeAtHost
    /\ UNCHANGED <<treeAtHost, follow, streamed, ownerRefresh, treeShown, overtaken>>

\* followTree waits for each refresh before it reads on.
StreamTreeShown ==
    /\ streamRefresh \in {"running", "settled"}
    /\ SetTree(streamRefresh) /\ overtaken' = FALSE
    /\ streamRefresh' = "none"
    /\ follow' = CASE follow = "chunk" -> "open" [] follow = "last" -> "over" [] follow = "cut" -> "lost"
    /\ UNCHANGED <<treeAtHost, streamed, ownerRefresh>>

\* The stream fails, or a refresh of it: nothing follows the task any more.
FollowFails ==
    /\ follow \in {"open", "chunk", "last", "cut"}
    /\ follow' = "lost" /\ streamRefresh' = "none"
    /\ UNCHANGED <<treeAtHost, streamed, ownerRefresh, treeShown, overtaken>>

-----------------------------------------------------------------------------
\* A task just delegated, a scheduled one that is opened, a cancel of its worker, which may come too late.
OwnerRefreshes(why) ==
    /\ ownerRefresh = NoRefresh
    /\ ownerRefresh' = [ownerRefresh EXCEPT !.why = why]
    /\ why = "track" => follow = "none" /\ treeShown = "none"
    /\ IF why = "cancel" THEN treeShown = "running" /\ treeAtHost' = "settled" ELSE UNCHANGED treeAtHost
    /\ UNCHANGED <<follow, streamed, streamRefresh, treeShown, overtaken>>

OwnerTreeTaken ==
    /\ ownerRefresh.why # "none" /\ ownerRefresh.tree = "none"
    /\ ownerRefresh' = [ownerRefresh EXCEPT !.tree = treeAtHost]
    /\ UNCHANGED <<treeAtHost, follow, streamed, streamRefresh, treeShown, overtaken>>

OwnerTreeShown ==
    /\ ownerRefresh.tree # "none"
    /\ SetTree(ownerRefresh.tree)
    /\ overtaken' = (ownerRefresh.tree # treeAtHost)
    /\ ownerRefresh' = NoRefresh
    /\ IF ownerRefresh.why = "track" /\ follow = "none" THEN follow' = "open" ELSE UNCHANGED follow
    /\ UNCHANGED <<treeAtHost, streamed, streamRefresh>>

OwnerRefreshFails ==
    /\ ownerRefresh # NoRefresh /\ ownerRefresh' = NoRefresh
    /\ UNCHANGED <<treeAtHost, follow, streamed, streamRefresh, treeShown, overtaken>>

\* Not known yet, or loaded with the recent trees and followed while it is active.
RailInit ==
    /\ treeAtHost = "running"
    /\ \/ follow = "none" /\ treeShown = "none"
       \/ follow = "open" /\ treeShown = "running"
    /\ streamed = "none" /\ streamRefresh = "none" /\ ownerRefresh = NoRefresh
    /\ overtaken = FALSE

RailNext ==
    \/ TaskSettles \/ Chunk \/ TreeStreamEnds \/ StreamTreeTaken \/ StreamTreeShown \/ FollowFails
    \/ (\E why \in {"track", "cancel", "open"} : OwnerRefreshes(why))
    \/ OwnerTreeTaken \/ OwnerTreeShown \/ OwnerRefreshFails

RailSpec == RailInit /\ [][RailNext]_railVars

-----------------------------------------------------------------------------
(***************************************************************************)
(* A task that has been followed to the end of its stream is shown as      *)
(* settled, unless the refresh of a cancel or of a scheduled task brings   *)
(* an older tree after it (app.ts:560, 538).                               *)
(***************************************************************************)
FollowedToTheEnd == follow = "over" /\ ~overtaken => treeShown = "settled"
=============================================================================
