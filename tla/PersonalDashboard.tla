------------------------- MODULE PersonalDashboard -------------------------
(***************************************************************************)
(* The owner's dashboard: one encrypted file, replaced as a whole, and its *)
(* key in the credential store. Every request loads the file, awaits the   *)
(* key, and saves what it makes of the entries it loaded; nothing keeps    *)
(* two requests apart. A request may fail at every await, be aborted, and  *)
(* die with the host.                                                      *)
(***************************************************************************)
EXTENDS Naturals, FiniteSets, Functions

CONSTANTS DashClient,   \* requests that can be under way at once
          EntryValue,   \* what an entry can say
          MaxEntries,   \* 512 in the code
          MaxEntryIds,  \* bound: entries ever made
          MaxKeys       \* bound: keys ever made

ASSUME DashAssumption == MaxEntries \in Nat /\ MaxEntryIds \in Nat /\ MaxKeys \in Nat

VARIABLES dashFile,     \* personal-dashboard.enc: the key it is encrypted with, and its entries
          dashKey,      \* the key in the credential store, 0 for none
          dashRequest,
          idsMade, keysMade,
          entriesKept,  \* history: the entries as the saves, one by one, should have left them
          overlapped    \* history: whether two requests that change the file ever overlapped

dashVars == <<dashFile, dashKey, dashRequest, idsMade, keysMade, entriesKept, overlapped>>

EntryId == 1..MaxEntryIds
Entries == UNION {[ids -> EntryValue] : ids \in SUBSET EntryId}
NoEntries == <<>>
NoDashFile == [key |-> 0, entries |-> NoEntries]
NoRequest == [kind |-> "none", at |-> "idle", id |-> 0, value |-> "none", file |-> NoDashFile, key |-> 0]

\* A body or a spoken command that is no valid entry is refused before the file is looked at.
DashboardInput == {"create", "update"} \X EntryId \X EntryValue \cup {"list", "delete", "deleteAll"} \X EntryId \X {"none"}

DashTypeOK ==
    /\ dashFile \in [key: 0..MaxKeys, entries: Entries] /\ Cardinality(DOMAIN dashFile.entries) <= MaxEntries
    /\ dashKey \in 0..keysMade /\ keysMade \in 0..MaxKeys /\ idsMade \in 0..MaxEntryIds
    /\ \A c \in DashClient :
         /\ dashRequest[c].kind \in {"none", "list", "create", "update", "delete", "deleteAll"}
         /\ dashRequest[c].at \in {"idle", "read", "decrypt", "key", "replace", "stat", "remove", "forget", "audit"}
    /\ entriesKept \in Entries /\ overlapped \in BOOLEAN

DashAt(c, step) == dashRequest[c].at = step
Goes(c, r) == dashRequest' = [dashRequest EXCEPT ![c] = r]
RequestEnds(c) == Goes(c, NoRequest)

DashRequest(c, input) ==
    /\ DashAt(c, "idle")
    /\ input[2] <= idsMade \/ (input[2] = 1 /\ input[1] \notin {"update", "delete"})
    /\ Goes(c, [NoRequest EXCEPT !.kind = input[1], !.id = input[2], !.value = input[3],
                                 !.at = IF input[1] = "deleteAll" THEN "stat" ELSE "read"])
    /\ UNCHANGED <<dashFile, dashKey, idsMade, keysMade, entriesKept>>

Full(entries) == Cardinality(DOMAIN entries) >= MaxEntries

\* The document is there: list answers, a delete that finds nothing answers, an update that finds nothing is refused,
\* as a new entry is when the document is full. Otherwise the save comes next.
Loaded(c, file) ==
    LET r == [dashRequest[c] EXCEPT !.file = file]
        fresh == r.kind = "create" /\ ~Full(file.entries) /\ idsMade < MaxEntryIds
    IN  IF fresh \/ (r.kind \in {"update", "delete"} /\ r.id \in DOMAIN file.entries)
        THEN /\ idsMade' = IF fresh THEN idsMade + 1 ELSE idsMade
             /\ Goes(c, [r EXCEPT !.at = "key", !.id = IF fresh THEN idsMade + 1 ELSE @])
        ELSE RequestEnds(c) /\ UNCHANGED idsMade

\* The file is read; without one the document is empty and needs no key.
ReadDashboard(c) ==
    /\ DashAt(c, "read")
    /\ IF dashFile = NoDashFile
       THEN Loaded(c, NoDashFile)
       ELSE Goes(c, [dashRequest[c] EXCEPT !.at = "decrypt", !.file = dashFile]) /\ UNCHANGED idsMade
    /\ UNCHANGED <<dashFile, dashKey, keysMade, entriesKept>>

\* The key of the store decrypts what was read, or the request fails.
Decrypt(c) ==
    /\ DashAt(c, "decrypt")
    /\ IF dashKey = dashRequest[c].file.key
       THEN Loaded(c, dashRequest[c].file)
       ELSE RequestEnds(c) /\ UNCHANGED idsMade
    /\ UNCHANGED <<dashFile, dashKey, keysMade, entriesKept>>

\* Mutant: every save makes a key of its own.
SaveKey_Fresh(c) ==
    /\ DashAt(c, "key") /\ keysMade < MaxKeys
    /\ keysMade' = keysMade + 1 /\ dashKey' = keysMade + 1
    /\ Goes(c, [dashRequest[c] EXCEPT !.at = "replace", !.key = keysMade + 1])
    /\ UNCHANGED <<dashFile, idsMade, entriesKept>>

\* The save takes the key of the store when there was a file, and makes and stores one when there was none.
SaveKey(c) ==
    /\ DashAt(c, "key")
    /\ IF dashRequest[c].file # NoDashFile
       THEN dashKey # 0 /\ UNCHANGED <<keysMade, dashKey>>
       ELSE keysMade < MaxKeys /\ keysMade' = keysMade + 1 /\ dashKey' = keysMade + 1
    /\ Goes(c, [dashRequest[c] EXCEPT !.at = "replace", !.key = dashKey'])
    /\ UNCHANGED <<dashFile, idsMade, entriesKept>>

ApplyEntry(r, entries) ==
    IF r.kind = "delete" THEN Restrict(entries, DOMAIN entries \ {r.id})
    ELSE [id \in DOMAIN entries \cup {r.id} |-> IF id = r.id THEN r.value ELSE entries[id]]

\* The temporary file is written and renamed.
ReplaceFile(c) ==
    /\ DashAt(c, "replace")
    /\ LET r == dashRequest[c]
       IN  /\ dashFile' = [key |-> r.key, entries |-> ApplyEntry(r, r.file.entries)]
           /\ entriesKept' = ApplyEntry(r, entriesKept)
    /\ Goes(c, [dashRequest[c] EXCEPT !.at = "audit"])
    /\ UNCHANGED <<dashKey, idsMade, keysMade>>

\* The change is audited and answered.
AuditDashboard(c) == DashAt(c, "audit") /\ RequestEnds(c) /\ UNCHANGED <<dashFile, dashKey, idsMade, keysMade, entriesKept>>

\* deleteAll: no file, nothing to do; the file goes first, its key after it.
DeleteAll(c) ==
    \/ /\ DashAt(c, "stat")
       /\ IF dashFile = NoDashFile THEN RequestEnds(c) ELSE Goes(c, [dashRequest[c] EXCEPT !.at = "remove"])
       /\ UNCHANGED <<dashFile, dashKey, entriesKept>>
    \/ /\ DashAt(c, "remove")
       /\ Goes(c, [dashRequest[c] EXCEPT !.at = "forget"])
       /\ dashFile' = NoDashFile /\ entriesKept' = NoEntries /\ UNCHANGED dashKey
    \/ /\ DashAt(c, "forget")
       /\ RequestEnds(c)
       /\ dashKey' = 0 /\ UNCHANGED <<dashFile, entriesKept>>

\* A file or the credential store fails, the signal of the request is seen to be aborted, or the audit fails.
DashboardFails(c) == ~DashAt(c, "idle") /\ RequestEnds(c) /\ UNCHANGED <<dashFile, dashKey, idsMade, keysMade, entriesKept>>

DashCrash ==
    /\ dashRequest' = [c \in DashClient |-> NoRequest]
    /\ UNCHANGED <<dashFile, dashKey, idsMade, keysMade, entriesKept>>

DashStep(c) ==
    \/ \E input \in DashboardInput : DashRequest(c, input)
    \/ ReadDashboard(c) \/ Decrypt(c) \/ SaveKey(c) \/ ReplaceFile(c) \/ AuditDashboard(c)
    \/ DeleteAll(c) /\ UNCHANGED <<idsMade, keysMade>>
    \/ DashboardFails(c)

\* From the read of the file on, and until it is replaced.
Changing(r) == r.kind # "list" /\ r.at \in {"decrypt", "key", "replace", "forget"}

DashNext ==
    /\ (\E c \in DashClient : DashStep(c)) \/ DashCrash
    /\ overlapped' = (overlapped \/ \E c, d \in DashClient : c # d /\ Changing(dashRequest'[c]) /\ Changing(dashRequest'[d]))

DashInit ==
    /\ dashFile = NoDashFile /\ dashKey = 0 /\ idsMade = 0 /\ keysMade = 0
    /\ dashRequest = [c \in DashClient |-> NoRequest]
    /\ entriesKept = NoEntries /\ overlapped = FALSE

DashSpec == DashInit /\ [][DashNext]_dashVars

-----------------------------------------------------------------------------
(***************************************************************************)
(* As long as no two requests that change the file overlap, whatever fails,*)
(* is aborted or dies halfway: the file can be decrypted with the key of   *)
(* the store and holds what the saves made of it, one after the other      *)
(* (personal-dashboard-store.ts:220). Overlapping saves lose entries, and  *)
(* two first ones can leave a file whose key is no longer stored.          *)
(***************************************************************************)
RecordsKept ==
    ~overlapped => /\ dashFile.entries = entriesKept
                   /\ dashFile # NoDashFile => dashKey = dashFile.key
=============================================================================
