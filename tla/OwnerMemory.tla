---------------------------- MODULE OwnerMemory ----------------------------
(***************************************************************************)
(* The memories of the owner: a Markdown file each, and a full-text index  *)
(* of them in SQLite that only search looks at. Requests and the recorder  *)
(* of finished tasks call a synchronous store, so each runs to its end     *)
(* before the next; but its effects are separate writes, and a crash or a  *)
(* failing write leaves those done that came before.                       *)
(***************************************************************************)
EXTENDS Naturals, Sequences, FiniteSets, SequencesExt

CONSTANTS MemoryId,       \* ids the owner gives
          MemoryContent,  \* what a memory says
          Dashed,         \* ids with three dashes in a row, which the pattern of ids allows
          Supervised      \* supervised tasks, each with the id of its experience

NoText == "no text"

ASSUME MemoryIds ==
    /\ Dashed \subseteq MemoryId /\ MemoryId \cap Supervised = {}
    /\ NoText \notin MemoryContent

VARIABLES memFile,    \* the file of an id
          memIndex,   \* its row in memory_search
          effects,    \* what the call under way has still to write
          completed,  \* supervised tasks whose parent row is completed
          cut,        \* history: ids whose last call was cut short
          forgotten   \* history: supervised tasks whose experience the owner forgot

memVars == <<memFile, memIndex, effects, completed, cut, forgotten>>

AnyId == MemoryId \cup Supervised
Experience == "experience"
Text == MemoryContent \cup {Experience}
Effect == [write: {"file", "row"}, id: AnyId, text: Text \cup {NoText}] \cup [write: {"parent"}, id: Supervised]

MemTypeOK ==
    /\ memFile \in [AnyId -> Text \cup {NoText}] /\ memIndex \in [AnyId -> Text \cup {NoText}]
    /\ effects \in Seq(Effect) /\ Len(effects) <= 4
    /\ completed \subseteq Supervised /\ cut \subseteq AnyId /\ forgotten \subseteq Supervised

Exists(id) == memFile[id] # NoText
\* A file is split at three dashes to find its metadata: an id with three dashes ends them too early.
Parses(id) == id \notin Dashed

\* Rows of the index that match, without those whose file is gone; there are no more than the twenty it looks at.
Found(text) == {id \in AnyId : memIndex[id] = text /\ Exists(id)}

\* The file of each is parsed: one that cannot be parsed fails the search, for all the others too.
Search(text) == IF \A id \in Found(text) : Parses(id)
                THEN [answered |-> TRUE, ids |-> Found(text)]
                ELSE [answered |-> FALSE, ids |-> {}]

Write(where, id, text) == [write |-> where, id |-> id, text |-> text]
\* The file is renamed into place, then the row of the index is deleted and a new one inserted.
Put(id, text) == <<Write("file", id, text), Write("row", id, NoText), Write("row", id, text)>>

\* Mutant: the text stays in the index.
Removal_FileOnly(id) == <<Write("file", id, NoText)>>
Removal(id) == <<Write("file", id, NoText), Write("row", id, NoText)>>

MemCall(list) ==
    /\ effects = <<>>
    /\ effects' = list
    /\ UNCHANGED <<memFile, memIndex, completed, cut>>

\* An id that exists is answered with the memory when all is the same and refused otherwise.
CreateMemory(id, text) == ~Exists(id) /\ MemCall(Put(id, text)) /\ UNCHANGED forgotten

UpdateMemory(id, text) == Exists(id) /\ Parses(id) /\ MemCall(Put(id, text)) /\ UNCHANGED forgotten

ForgetMemory(id) == MemCall(Removal(id)) /\ forgotten' = forgotten \cup ({id} \cap Supervised)

\* Mutant: the id of an experience is one that the owner may give.
ExperienceId_Shared(p) == CHOOSE id \in MemoryId : Parses(id)
ExperienceId(p) == p

\* All children of an active parent have completed: the parent is completed, and its experience is put unless a
\* memory has its id already.
CompleteParent(p) ==
    /\ p \notin completed
    /\ LET id == ExperienceId(p)
       IN  MemCall(<<[write |-> "parent", id |-> p]>> \o IF Exists(id) THEN <<>> ELSE Put(id, Experience))
    /\ UNCHANGED forgotten

\* The call writes; with its last write what it changed is whole again.
WriteNext ==
    /\ effects # <<>>
    /\ effects' = Tail(effects)
    /\ LET e == Head(effects)
       IN  /\ memFile' = IF e.write = "file" THEN [memFile EXCEPT ![e.id] = e.text] ELSE memFile
           /\ memIndex' = IF e.write = "row" THEN [memIndex EXCEPT ![e.id] = e.text] ELSE memIndex
           /\ completed' = IF e.write = "parent" THEN completed \cup {e.id} ELSE completed
           /\ cut' = IF Tail(effects) = <<>> THEN cut \ {e.id} ELSE cut
    /\ UNCHANGED forgotten

\* The host dies, or a write fails and the call throws.
CutShort ==
    /\ effects # <<>>
    /\ effects' = <<>>
    /\ cut' = cut \cup {e.id : e \in ToSet(effects)}
    /\ UNCHANGED <<memFile, memIndex, completed, forgotten>>

MemInit ==
    /\ memFile = [id \in AnyId |-> NoText] /\ memIndex = [id \in AnyId |-> NoText]
    /\ effects = <<>> /\ completed = {} /\ cut = {} /\ forgotten = {}

\* What the parsers of the bodies let through.
CreateBody == MemoryId \X MemoryContent
UpdateBody == AnyId \X MemoryContent

MemoryRoute ==
    \/ \E body \in CreateBody : CreateMemory(body[1], body[2])
    \/ \E body \in UpdateBody : UpdateMemory(body[1], body[2])
    \/ \E id \in AnyId : ForgetMemory(id)

MemNext == MemoryRoute \/ (\E p \in Supervised : CompleteParent(p)) \/ WriteNext \/ CutShort

MemSpec == MemInit /\ [][MemNext]_memVars

-----------------------------------------------------------------------------
(***************************************************************************)
(* A search that is answered finds the memories that say the text now, one *)
(* that is not has met a memory that cannot be parsed and was not          *)
(* forgotten, and nothing of a forgotten memory stays in the index; only a *)
(* call cut short leaves file and index apart, for the ids it wrote and    *)
(* until they are written again (memory-store.ts:105, 211, 217). reindex   *)
(* would repair them, and nothing calls it. tasks/todo.md:511 promises     *)
(* more: every memory is searchable.                                       *)
(***************************************************************************)
SearchAgrees ==
    effects = <<>> =>
      /\ \A text \in Text : LET says == {id \in AnyId \ cut : memFile[id] = text} IN
           IF Search(text).answered
           THEN Search(text).ids \ cut = says
           ELSE \E id \in says \cup cut : Exists(id) /\ ~Parses(id)
      /\ \A id \in AnyId \ cut : Exists(id) \/ memIndex[id] = NoText

(***************************************************************************)
(* A completed task has its experience unless the owner forgot it or the   *)
(* host died on the way (server.ts:1979): it is recorded only where the    *)
(* parent is completed, which happens once.                                *)
(***************************************************************************)
ExperienceRecorded == effects = <<>> => \A p \in completed : Exists(p) \/ p \in cut \cup forgotten
=============================================================================
