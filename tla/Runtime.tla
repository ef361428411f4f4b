------------------------------ MODULE Runtime ------------------------------
(***************************************************************************)
(* The runtime side of the sidecar: the registry of configurations, their  *)
(* published states and events (state.py, routes/config.py), and the       *)
(* handlers that ask Zigbee2MQTT something over MQTT and keep the answer   *)
(* (routes/commands.py; devices, network map and permit join of            *)
(* routes/bridge.py).                                                      *)
(*                                                                         *)
(* One action runs from one suspension of a handler to the next.  A        *)
(* handler suspends while a worker thread asks Zigbee2MQTT (MqttExchange   *)
(* says how such a call ends), and the runtime kit's sync may suspend      *)
(* between two configurations.  A broker stands for a server and its base  *)
(* topic, and for the text rendered from a configuration that names it;    *)
(* all configurations share one data path.                                 *)
(***************************************************************************)
EXTENDS Naturals, Sequences, FiniteSets

CONSTANTS
    Requests,  \* requests the service receives
    Orders,    \* what they may ask for
    Ids,       \* ids of configurations
    Brokers,
    MaxFaults, \* bound: failed writes, failed MQTT calls and crashes
    None

\* What a configuration says: its broker, and whether it names a serial port.
Configs == [broker: Brokers, serial: BOOLEAN]

\* What is asked over MQTT, and the field of the store that keeps the answer.
Fields == {"devices", "map", "permit"}

OrderType ==
    [op: {"configure"}, id: Ids, config: Configs]
    \cup [op: {"sync"}, configs: UNION {[S -> Configs] : S \in SUBSET Ids}]
    \cup [op: {"deconfigure", "refresh"}, id: Ids]
    \cup [op: Fields, broker: Brokers \cup {None}, dry: BOOLEAN]

\* An answer by its broker; n is the place of a map among the maps kept, 0 for anything else.
Answers == [broker: Brokers, n: Nat]

ASSUME RuntimeAssumption ==
    /\ IsFiniteSet(Requests)
    /\ Orders \subseteq OrderType
    /\ MaxFaults \in Nat
    /\ None \notin Brokers /\ None \notin Answers

VARIABLES
    order,     \* request -> what it asks for
    pc,        \* request -> how far its handler has come
    broker,    \* request -> the broker it asks, resolved before it suspends
    found,     \* call -> the scan Zigbee2MQTT made for it, 0 before
    removing,  \* sync -> registered ids its snapshot does not have
    applying,  \* sync -> ids of the snapshot that are still to be applied
    entries,   \* the registry: id -> configuration
    topology,  \* the registry's states: id -> the network map published
    announced, \* id -> the last event about it
    last,      \* the store's last answers, field by field
    current,   \* the store: broker of the current configuration
    lastError, \* the store: there is a last_error
    file,      \* configuration.yaml
    scans,     \* history: the scans Zigbee2MQTT has made
    began,     \* history: call -> how many maps were kept when it began
    maps,      \* history: the maps kept, in that order: their scan and their call's began
    shown,     \* history: refresh -> the place of its map
    calm,      \* history: syncs that nothing else has disturbed
    faults

handlers == <<order, pc, broker, found, removing, applying>>
registry == <<entries, topology, announced>>
store == <<last, current, lastError>>
calls == <<scans, found, began, maps>>
history == <<scans, began, maps, shown, calm>>
vars == <<handlers, registry, store, file, history, faults>>

Ended == {"done", "failed", "lost"}

TypeOK ==
    /\ order \in [Requests -> Orders]
    /\ pc \in [Requests -> {"idle", "waiting", "syncing"} \cup Ended]
    /\ broker \in [Requests -> Brokers \cup {None}]
    /\ removing \in [Requests -> SUBSET Ids]
    /\ applying \in [Requests -> SUBSET Ids]
    /\ DOMAIN entries \subseteq Ids /\ entries \in [DOMAIN entries -> Configs]
    /\ DOMAIN topology \subseteq Ids
    /\ topology \in [DOMAIN topology -> Answers \cup {None}]
    /\ announced \in [Ids -> {"nothing", "applied", "removed"}]
    /\ last \in [Fields -> Answers \cup {None}]
    /\ current \in Brokers \cup {None}
    /\ lastError \in BOOLEAN
    /\ file \in Brokers \cup {None}
    /\ scans \in Nat
    /\ found \in [Requests -> Nat]
    /\ began \in [Requests -> Nat]
    /\ maps \in Seq([scan: Nat, began: Nat])
    /\ shown \in [Requests -> Nat]
    /\ calm \subseteq Requests
    /\ faults \in 0 .. MaxFaults

Put(f, k, x) == [y \in DOMAIN f \cup {k} |-> IF y = k THEN x ELSE f[y]]
Without(f, k) == [y \in DOMAIN f \ {k} |-> f[y]]
Nowhere == [i \in {} |-> None]

Init ==
    /\ order \in [Requests -> Orders]
    /\ pc = [r \in Requests |-> "idle"]
    /\ broker = [r \in Requests |-> None]
    /\ removing = [r \in Requests |-> {}]
    /\ applying = [r \in Requests |-> {}]
    /\ entries = Nowhere
    /\ topology = Nowhere
    /\ announced = [i \in Ids |-> "nothing"]
    /\ last = [field \in Fields |-> None]
    /\ current = None
    /\ lastError = FALSE
    /\ file = None
    /\ scans = 0
    /\ found = [r \in Requests |-> 0]
    /\ began = [r \in Requests |-> 0]
    /\ maps = <<>>
    /\ shown = [r \in Requests |-> 0]
    /\ calm = {}
    /\ faults = 0

----------------------------------------------------------------------------
(* The registry.                                                           *)

\* What the registry publishes when a configuration is applied: the last map
\* without its server, which the model keeps to tell maps apart.
PublishedServerOnly == IF last["map"] = None THEN None ELSE last["map"].broker
Published == last["map"]

\* apply_config up to the write: entry, state and event.
Registers(id, config) ==
    /\ entries' = Put(entries, id, config)
    /\ topology' = Put(topology, id, Published)
    /\ announced' = [announced EXCEPT ![id] = "applied"]

\* The write and what follows it: the store, or last_error and an exception.
Writes(config, ok) ==
    IF ok THEN /\ file' = IF config.serial THEN config.broker ELSE file
               /\ current' = IF config.serial THEN config.broker ELSE current
               /\ lastError' = (lastError /\ ~config.serial)
               /\ UNCHANGED faults
          ELSE /\ config.serial
               /\ faults < MaxFaults /\ faults' = faults + 1
               /\ lastError' = TRUE
               /\ UNCHANGED <<file, current>>

\* The store updated before the write that may fail.
AppliesStoreFirst(id, config, ok) ==
    /\ Registers(id, config)
    /\ lastError' = IF ok THEN lastError /\ ~config.serial ELSE TRUE
    /\ current' = IF config.serial THEN config.broker ELSE current
    /\ file' = IF ok /\ config.serial THEN config.broker ELSE file
    /\ IF ok THEN UNCHANGED faults
             ELSE config.serial /\ faults < MaxFaults /\ faults' = faults + 1

\* The event sent only once the file is written.
AppliesThenAnnounces(id, config, ok) ==
    /\ entries' = Put(entries, id, config)
    /\ topology' = Put(topology, id, Published)
    /\ announced' = IF ok THEN [announced EXCEPT ![id] = "applied"] ELSE announced
    /\ Writes(config, ok)

Applies(id, config, ok) ==
    /\ Registers(id, config)
    /\ Writes(config, ok)

\* remove_config.  Whether the kit drops the state with the entry is its affair.
Removes(id) ==
    /\ id \in DOMAIN entries
    /\ entries' = Without(entries, id)
    /\ topology' \in {topology, Without(topology, id)}
    /\ announced' = [announced EXCEPT ![id] = "removed"]

----------------------------------------------------------------------------
(* Handlers.                                                               *)

Goto(r, step) == pc' = [pc EXCEPT ![r] = step]

\* The registry changes under every sync but r's.
Disturbs(r) == calm' = calm \cap {r}

Configure(r) ==
    /\ pc[r] = "idle" /\ order[r].op = "configure"
    /\ \E ok \in BOOLEAN :
        /\ Applies(order[r].id, order[r].config, ok)
        /\ Goto(r, IF ok THEN "done" ELSE "failed")
    /\ Disturbs(r)
    /\ UNCHANGED <<order, broker, removing, applying, last, calls, shown>>

Deconfigure(r) ==
    /\ pc[r] = "idle" /\ order[r].op = "deconfigure"
    /\ \/ Removes(order[r].id) /\ Disturbs(r)
       \/ order[r].id \notin DOMAIN entries /\ UNCHANGED <<registry, calm>>
    /\ Goto(r, "done")
    /\ UNCHANGED <<order, broker, removing, applying, store, file, calls, shown, faults>>

\* The sync reads the registered ids and leaves the rest to the runtime kit.
StaleNothing(r) == {}
Stale(r) == DOMAIN entries \ DOMAIN order[r].configs

Sync(r) ==
    /\ pc[r] = "idle" /\ order[r].op = "sync"
    /\ removing' = [removing EXCEPT ![r] = Stale(r)]
    /\ applying' = [applying EXCEPT ![r] = DOMAIN order[r].configs]
    /\ calm' = calm \cup {r}
    /\ Goto(r, "syncing")
    /\ UNCHANGED <<order, broker, registry, store, file, calls, shown, faults>>

SyncRemoves(r) ==
    /\ pc[r] = "syncing"
    /\ \E id \in removing[r] :
        /\ removing' = [removing EXCEPT ![r] = @ \ {id}]
        /\ \/ Removes(id) /\ Disturbs(r)
           \/ id \notin DOMAIN entries /\ UNCHANGED <<registry, calm>>
    /\ UNCHANGED <<order, pc, broker, applying, store, file, calls, shown, faults>>

\* A configuration whose write fails ends the sync or is left out by it.
SyncApplies(r) ==
    /\ pc[r] = "syncing"
    /\ \E id \in applying[r], ok \in BOOLEAN :
        /\ Applies(id, order[r].configs[id], ok)
        /\ applying' = [applying EXCEPT ![r] = @ \ {id}]
        /\ calm' = IF ok THEN calm \cap {r} ELSE {}
        /\ IF ok THEN UNCHANGED pc ELSE pc' \in {pc, [pc EXCEPT ![r] = "failed"]}
    /\ UNCHANGED <<order, broker, removing, last, calls, shown>>

SyncEnds(r) ==
    /\ pc[r] = "syncing" /\ removing[r] = {} /\ applying[r] = {}
    /\ Goto(r, "done")
    /\ UNCHANGED <<order, broker, found, removing, applying, registry, store, file, history,
                   faults>>

Asks(r) == order[r].op \in Fields \cup {"refresh"}
Field(r) == IF order[r].op = "refresh" THEN "map" ELSE order[r].op

\* resolve_mqtt_settings: the request's own server or the current configuration's;
\* a command takes the server of the configuration it is for, when registered.
Named(r) ==
    IF order[r].op # "refresh" THEN order[r].broker
    ELSE IF order[r].id \in DOMAIN entries THEN entries[order[r].id].broker
    ELSE None
Settings(r) == IF Named(r) # None THEN Named(r) ELSE current

Dry(r) == order[r].op # "refresh" /\ order[r].dry

\* Ask: a ValueError without settings, an answer at once to a dry run, a call in
\* a worker thread otherwise.
NoSettings(r) ==
    /\ pc[r] = "idle" /\ Asks(r) /\ Settings(r) = None
    /\ Goto(r, "failed")
    /\ UNCHANGED <<order, broker, found, removing, applying, registry, store, file, history,
                   faults>>

DryRun(r) ==
    /\ pc[r] = "idle" /\ Asks(r) /\ Settings(r) # None /\ Dry(r)
    /\ last' = [last EXCEPT ![Field(r)] = [broker |-> Settings(r), n |-> 0]]
    /\ Goto(r, "done")
    /\ UNCHANGED <<order, broker, found, removing, applying, registry, current, lastError,
                   file, history, faults>>

Ask(r) ==
    /\ pc[r] = "idle" /\ Asks(r) /\ Settings(r) # None /\ ~Dry(r)
    /\ broker' = [broker EXCEPT ![r] = Settings(r)]
    /\ began' = [began EXCEPT ![r] = Len(maps)]
    /\ Goto(r, "waiting")
    /\ UNCHANGED <<order, found, removing, applying, registry, store, file, scans, maps,
                   shown, calm, faults>>

\* Zigbee2MQTT carries out a request for a map: it scans, or finds an error, which is
\* answered and kept like a map.
Scans(r) ==
    /\ pc[r] = "waiting" /\ Field(r) = "map" /\ found[r] = 0
    /\ scans' = scans + 1
    /\ found' = [found EXCEPT ![r] = scans + 1]
    /\ UNCHANGED <<order, pc, broker, removing, applying, registry, store, file, began, maps,
                   shown, calm, faults>>

\* What the resumed handler keeps of an answer: the store's field and, for a
\* command, the state of its configuration, registered or not by now.
KeepsStateOnly(r, answer) ==
    IF order[r].op = "refresh"
    THEN topology' = Put(topology, order[r].id, answer) /\ UNCHANGED last
    ELSE last' = [last EXCEPT ![Field(r)] = answer] /\ UNCHANGED topology
KeepsStoreOnly(r, answer) ==
    last' = [last EXCEPT ![Field(r)] = answer] /\ UNCHANGED topology
Keeps(r, answer) ==
    /\ last' = [last EXCEPT ![Field(r)] = answer]
    /\ topology' = IF order[r].op = "refresh" THEN Put(topology, order[r].id, answer)
                                              ELSE topology

\* The handler resumes with the answer, in whatever order its worker thread ended.
Answered(r) ==
    /\ pc[r] = "waiting"
    /\ Field(r) = "map" => found[r] > 0
    /\ LET n == IF Field(r) = "map" THEN Len(maps) + 1 ELSE 0 IN
        /\ Keeps(r, [broker |-> broker[r], n |-> n])
        /\ maps' = IF Field(r) = "map"
                   THEN Append(maps, [scan |-> found[r], began |-> began[r]]) ELSE maps
        /\ shown' = IF order[r].op = "refresh" THEN [shown EXCEPT ![r] = n] ELSE shown
    /\ Goto(r, "done")
    /\ UNCHANGED <<order, broker, found, removing, applying, entries, announced, current,
                   lastError, file, scans, began, calm, faults>>

\* Zigbee2MqttMqttError, before the request was carried out or after.
AskFails(r) ==
    /\ pc[r] = "waiting"
    /\ faults < MaxFaults /\ faults' = faults + 1
    /\ Goto(r, "failed")
    /\ UNCHANGED <<order, broker, found, removing, applying, registry, store, file, history>>

\* The sidecar dies and is started again: registry and store are empty.
Crash ==
    /\ faults < MaxFaults /\ faults' = faults + 1
    /\ pc' = [r \in Requests |-> IF pc[r] \in {"waiting", "syncing"} THEN "lost" ELSE pc[r]]
    /\ entries' = Nowhere /\ topology' = Nowhere
    /\ announced' = [i \in Ids |-> "nothing"]
    /\ last' = [field \in Fields |-> None]
    /\ current' = None /\ lastError' = FALSE
    /\ shown' = [r \in Requests |-> 0]
    /\ calm' = {}
    /\ UNCHANGED <<order, broker, removing, applying, file, calls>>

Handler(r) ==
    \/ Configure(r) \/ Deconfigure(r)
    \/ Sync(r) \/ SyncRemoves(r) \/ SyncApplies(r) \/ SyncEnds(r)
    \/ NoSettings(r) \/ DryRun(r) \/ Ask(r) \/ Scans(r)
    \/ Answered(r) \/ AskFails(r)

Next == (\E r \in Requests : Handler(r)) \/ Crash

Spec == Init /\ [][Next]_vars

----------------------------------------------------------------------------
(* Properties.                                                             *)

\* The events tell the truth: the last event about a configuration is that it was
\* applied exactly when it is registered, through failing writes, syncs that
\* remove what another request removed, and syncs that break off.
EventsMatchRegistry ==
    \A id \in Ids : announced[id] = "applied" <=> id \in DOMAIN entries

\* A published map gives way to an earlier scan of the mesh only for the late answer of
\* a call: one that was already under way when the published map was kept, and whose
\* handler resumed after it (commands.py:53-63).  Neither applying a configuration
\* again nor a call begun later ever publishes an earlier scan.
EarlierScansAreLateAnswers ==
    [][\A id \in DOMAIN topology \cap DOMAIN topology' :
          /\ topology[id] # None /\ topology[id].n > 0
          /\ topology'[id] # None /\ topology'[id].n > 0
          => LET before == topology[id].n
                 after == topology'[id].n
             IN maps'[after].scan < maps[before].scan =>
                    maps'[after].began < before /\ before < after]_topology

\* A refresh that was answered shows: while its configuration is registered, its
\* state is that map or one kept later, although the configuration may have been
\* removed and applied again since.  Dry runs, which replace the map that is
\* published next, are left out.
RefreshIsShown ==
    \A r \in Requests :
        /\ shown[r] > 0
        /\ order[r].id \in DOMAIN entries
        /\ \A other \in Requests : order[other].op = "map" => ~order[other].dry
        => /\ order[r].id \in DOMAIN topology
           /\ topology[order[r].id] # None
           /\ topology[order[r].id].n >= shown[r]

\* The store describes the file: whatever writes failed, the current configuration
\* is the one in configuration.yaml, which only this service writes here.
CurrentMatchesFile == current # None => current = file

\* A sync that nothing disturbed and whose writes all succeeded leaves exactly the
\* snapshot registered, whatever was registered before.
SyncLeavesSnapshot ==
    \A r \in Requests :
        order[r].op = "sync" /\ pc[r] = "done" /\ r \in calm => entries = order[r].configs
=============================================================================
