--------------------------- MODULE PluginRegistry ---------------------------
(***************************************************************************)
(* A plugin is discovered, enabled, started and stopped, each by several   *)
(* callers at once. The registry queues the operations on a plugin; the    *)
(* one at the head awaits the plugin's providers one after the other, and  *)
(* each of them may throw.                                                 *)
(***************************************************************************)
EXTENDS Naturals, Sequences

CONSTANTS MaxProviders, \* bound: providers of the plugin
          MaxQueued     \* bound: operations queued on it

ASSUME ProviderBound == MaxProviders \in Nat \ {0} /\ MaxQueued \in Nat

VARIABLES discovering, \* manifests being read
          record,      \* the registry's record of the plugin
          queue,       \* the operations chained on record.operation, the head being the one under way
          nextProvider,\* the provider that the head awaits, or 0 before its first step
          up,          \* the providers that are started
          instances,   \* what getInstance hands out
          broken       \* whether a provider has thrown in the middle of an operation

registryVars == <<discovering, record, queue, nextProvider, up, instances, broken>>

ProviderIndex == 1..MaxProviders
Operation == {"enable", "start", "stop"}

RegistryTypeOK ==
    /\ discovering \in 0..2
    /\ record \in {"none", "discovered", "enabled", "started", "stopped"}
    /\ queue \in Seq(Operation) /\ Len(queue) <= MaxQueued
    /\ nextProvider \in 0..MaxProviders
    /\ up \subseteq ProviderIndex /\ instances \subseteq ProviderIndex
    /\ broken \in BOOLEAN

-----------------------------------------------------------------------------
\* discover reads and checks the manifest, then makes the record unless there is one.
ReadManifest ==
    /\ discovering < 2 /\ discovering' = discovering + 1
    /\ UNCHANGED <<record, queue, nextProvider, up, instances, broken>>

ManifestInvalid ==
    /\ discovering > 0 /\ discovering' = discovering - 1
    /\ UNCHANGED <<record, queue, nextProvider, up, instances, broken>>

\* Mutant: the record is looked for before the manifest is read, and made anew after it.
Discovered_Anew == record' = "discovered"
Discovered == record' = IF record = "none" THEN "discovered" ELSE record

ManifestRead ==
    /\ discovering > 0 /\ discovering' = discovering - 1
    /\ Discovered
    /\ UNCHANGED <<queue, nextProvider, up, instances, broken>>

Enqueue(operation) ==
    /\ record # "none" /\ Len(queue) < MaxQueued
    /\ queue' = Append(queue, operation)
    /\ UNCHANGED <<discovering, record, nextProvider, up, instances, broken>>

-----------------------------------------------------------------------------
HeadIs(operation) == queue # <<>> /\ Head(queue) = operation
\* The head is over, resolved or rejected: the next one begins.
Over == queue' = Tail(queue) /\ nextProvider' = 0

Needed(operation) ==
    CASE operation = "enable" -> record = "discovered"
      [] operation = "start" -> record \in {"enabled", "stopped"}
      [] operation = "stop" -> record = "started"

\* Nothing to do, or a start of what was never enabled.
Refused(operation) ==
    /\ HeadIs(operation) /\ nextProvider = 0 /\ ~Needed(operation)
    /\ Over
    /\ UNCHANGED <<discovering, record, up, instances, broken>>

\* The entry is imported and its providers are checked against the manifest.
Enable ==
    /\ HeadIs("enable") /\ Needed("enable")
    /\ record' \in {"enabled", "discovered"}
    /\ Over
    /\ UNCHANGED <<discovering, up, instances, broken>>

Begin(operation) ==
    /\ operation # "enable"
    /\ HeadIs(operation) /\ nextProvider = 0 /\ Needed(operation)
    /\ nextProvider' = 1
    /\ UNCHANGED <<discovering, record, queue, up, instances, broken>>

StartedAll == record' = "started" /\ instances' = ProviderIndex

\* One provider after the other; the record changes with the last.
StartProvider ==
    /\ HeadIs("start") /\ nextProvider > 0
    /\ up' = up \cup {nextProvider}
    /\ IF nextProvider < MaxProviders
       THEN nextProvider' = nextProvider + 1 /\ UNCHANGED <<record, queue, instances>>
       ELSE StartedAll /\ Over
    /\ UNCHANGED <<discovering, broken>>

StopProvider ==
    /\ HeadIs("stop") /\ nextProvider > 0
    /\ up' = up \ {nextProvider}
    /\ IF nextProvider < MaxProviders
       THEN nextProvider' = nextProvider + 1 /\ UNCHANGED <<record, queue, instances>>
       ELSE record' = "stopped" /\ instances' = {} /\ Over
    /\ UNCHANGED <<discovering, broken>>

\* Neither what was started before it is stopped, nor is the record changed.
ProviderThrows ==
    /\ nextProvider > 0
    /\ broken' = TRUE
    /\ Over
    /\ UNCHANGED <<discovering, record, up, instances>>

RegistryInit ==
    /\ discovering = 0 /\ record = "none" /\ queue = <<>> /\ nextProvider = 0
    /\ up = {} /\ instances = {} /\ broken = FALSE

RegistryNext ==
    \/ ReadManifest \/ ManifestInvalid \/ ManifestRead
    \/ \E operation \in Operation : Enqueue(operation) \/ Refused(operation) \/ Begin(operation)
    \/ Enable \/ StartProvider \/ StopProvider \/ ProviderThrows

RegistrySpec == RegistryInit /\ [][RegistryNext]_registryVars

-----------------------------------------------------------------------------
(***************************************************************************)
(* Between operations, and unless a provider has thrown, the providers of  *)
(* a plugin run and are handed out just when its record says started,      *)
(* whoever discovers, starts and stops it (registry.ts:161, 181, 193).     *)
(***************************************************************************)
RecordTellsProviders ==
    ~broken /\ nextProvider = 0 =>
        /\ up = IF record = "started" THEN ProviderIndex ELSE {}
        /\ instances = up
=============================================================================
