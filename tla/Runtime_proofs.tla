--------------------------- MODULE Runtime_proofs ---------------------------
(***************************************************************************)
(* The runtime side, proved for any requests, configurations, brokers and  *)
(* number of failures: events tell what is registered, the store tells     *)
(* what is in the file, only late answers publish an earlier scan, and     *)
(* what a command has scanned is shown.                                    *)
(***************************************************************************)
EXTENDS Runtime, TLAPS

(***************************************************************************)
(* Types.                                                                  *)
(***************************************************************************)

\* What an order holds besides its kind.
LEMMA OrderFields ==
    ASSUME NEW o \in Orders
    PROVE  /\ o.op \in {"configure", "sync", "deconfigure", "refresh"} \cup Fields
           /\ o.op = "configure" => o.id \in Ids /\ o.config \in Configs
           /\ o.op \in {"deconfigure", "refresh"} => o.id \in Ids
           /\ o.op = "sync" => /\ DOMAIN o.configs \subseteq Ids
                               /\ o.configs \in [DOMAIN o.configs -> Configs]
           /\ o.op \in Fields => o.broker \in Brokers \cup {None}
<1>1. o \in OrderType
  BY RuntimeAssumption DEF RuntimeAssumption
<1>2. CASE o \in [op: {"configure"}, id: Ids, config: Configs]
  BY <1>2 DEF Fields
<1>3. CASE o \in [op: {"sync"}, configs: UNION {[S -> Configs] : S \in SUBSET Ids}]
  BY <1>3 DEF Fields
<1>4. CASE o \in [op: {"deconfigure", "refresh"}, id: Ids]
  BY <1>4 DEF Fields
<1>5. CASE o \in [op: Fields, broker: Brokers \cup {None}, dry: BOOLEAN]
  BY <1>5 DEF Fields
<1>6. QED
  BY <1>1, <1>2, <1>3, <1>4, <1>5 DEF OrderType

\* What a state publishes.
Topologies == Answers \cup {None}

\* The registry's, the store's and the handlers' shares of the type invariant.
RegistryTyped ==
    /\ DOMAIN entries \subseteq Ids /\ entries \in [DOMAIN entries -> Configs]
    /\ DOMAIN topology \subseteq Ids /\ topology \in [DOMAIN topology -> Topologies]
    /\ announced \in [Ids -> {"nothing", "applied", "removed"}]

AnswersTyped == last \in [Fields -> Answers \cup {None}]

FileTyped ==
    /\ current \in Brokers \cup {None}
    /\ lastError \in BOOLEAN
    /\ file \in Brokers \cup {None}

HandlersTyped ==
    /\ order \in [Requests -> Orders]
    /\ pc \in [Requests -> {"idle", "waiting", "syncing"} \cup Ended]
    /\ broker \in [Requests -> Brokers \cup {None}]
    /\ removing \in [Requests -> SUBSET Ids]
    /\ applying \in [Requests -> SUBSET Ids]

\* How many maps have been kept.
Kept == Len(maps)

HistoryTyped ==
    /\ Kept \in Nat
    /\ shown \in [Requests -> Nat]
    /\ calm \subseteq Requests

CallsTyped ==
    /\ scans \in Nat
    /\ found \in [Requests -> Nat]
    /\ began \in [Requests -> Nat]
    /\ maps \in Seq([scan: Nat, began: Nat])

FaultsTyped == faults \in 0 .. MaxFaults

\* The parts are the whole.
LEMMA TypeParts ==
    TypeOK <=> /\ RegistryTyped /\ AnswersTyped /\ FileTyped
               /\ HandlersTyped /\ HistoryTyped /\ FaultsTyped /\ CallsTyped
BY DEF TypeOK, RegistryTyped, Topologies, AnswersTyped, FileTyped, HandlersTyped,
       HistoryTyped, FaultsTyped, CallsTyped, Kept

\* One more failure stays within the bound.
LEMMA OneFault ==
    ASSUME FaultsTyped, faults < MaxFaults, faults' = faults + 1
    PROVE  FaultsTyped'
BY RuntimeAssumption DEF RuntimeAssumption, FaultsTyped

\* Applying a configuration keeps registry, store, file and bound typed.
LEMMA AppliesTyped ==
    ASSUME RegistryTyped, AnswersTyped, FileTyped, FaultsTyped,
           NEW id \in Ids, NEW config \in Configs, NEW ok \in BOOLEAN,
           Applies(id, config, ok)
    PROVE  RegistryTyped' /\ FileTyped' /\ FaultsTyped'
<1>1. last["map"] \in Topologies
  BY DEF AnswersTyped, Fields, Topologies
<1>2. RegistryTyped'
  <2>1. /\ entries' = Put(entries, id, config)
        /\ topology' = Put(topology, id, last["map"])
        /\ announced' = [announced EXCEPT ![id] = "applied"]
    BY DEF Applies, Registers, Published
  <2>2. DOMAIN entries' \subseteq Ids /\ entries' \in [DOMAIN entries' -> Configs]
    BY <2>1 DEF RegistryTyped, Put
  <2>3. /\ DOMAIN topology' \subseteq Ids
        /\ topology' \in [DOMAIN topology' -> Topologies]
    BY <1>1, <2>1 DEF RegistryTyped, Put
  <2>4. announced' \in [Ids -> {"nothing", "applied", "removed"}]
    BY <2>1 DEF RegistryTyped
  <2>5. QED
    BY <2>2, <2>3, <2>4 DEF RegistryTyped
<1>3. FileTyped' /\ FaultsTyped'
  <2>1. config.broker \in Brokers /\ config.serial \in BOOLEAN
    BY DEF Configs
  <2>2. CASE ok
    BY <2>1, <2>2 DEF Applies, Writes, FileTyped, FaultsTyped
  <2>3. CASE ~ok
    BY <2>1, <2>3, OneFault DEF Applies, Writes, FileTyped
  <2>4. QED
    BY <2>2, <2>3
<1>4. QED
  BY <1>2, <1>3

\* Removing one keeps the registry typed.
LEMMA RemovesTyped ==
    ASSUME RegistryTyped, NEW id \in Ids, Removes(id)
    PROVE  RegistryTyped'
<1>1. entries' = Without(entries, id)
  BY DEF Removes
<1>2. topology' = topology \/ topology' = Without(topology, id)
  BY DEF Removes
<1>3. announced' \in [Ids -> {"nothing", "applied", "removed"}]
  BY DEF Removes, RegistryTyped
<1>4. DOMAIN entries' \subseteq Ids /\ entries' \in [DOMAIN entries' -> Configs]
  BY <1>1 DEF RegistryTyped, Without
<1>5. /\ DOMAIN topology' \subseteq Ids
      /\ topology' \in [DOMAIN topology' -> Topologies]
  <2>1. CASE topology' = topology
    BY <2>1 DEF RegistryTyped
  <2>2. CASE topology' = Without(topology, id)
    BY <2>2 DEF RegistryTyped, Without
  <2>3. QED
    BY <1>2, <2>1, <2>2
<1>6. QED
  BY <1>3, <1>4, <1>5 DEF RegistryTyped

\* A handler that moves on keeps the handlers typed.
LEMMA GotoTyped ==
    ASSUME HandlersTyped, NEW r \in Requests,
           NEW step \in {"idle", "waiting", "syncing"} \cup Ended, Goto(r, step)
    PROVE  pc' \in [Requests -> {"idle", "waiting", "syncing"} \cup Ended]
BY DEF HandlersTyped, Goto

(***************************************************************************)
(* The inductive invariant.                                                *)
(***************************************************************************)

\* Without dry runs of the map every map was scanned.
OnlyScans == \A r \in Requests : order[r].op = "map" => ~order[r].dry

\* The last map is the last that was kept, or a dry run's; nothing published or
\* shown is beyond it.
LastIsNewest ==
    /\ last["map"] # None => last["map"].n \in {0, Kept}
    /\ OnlyScans /\ last["map"] # None => last["map"].n = Kept
    /\ \A i \in DOMAIN topology : topology[i] # None => topology[i].n <= Kept
    /\ \A r \in Requests : shown[r] > 0 => /\ order[r].op = "refresh"
                                           /\ shown[r] <= Kept
                                           /\ last["map"] # None

\* What an undisturbed sync has done: nothing is registered but what it still has
\* to remove and its snapshot, and what it has applied is registered so.
SyncsOnTheWay ==
    \A r \in calm :
        /\ order[r].op = "sync"
        /\ pc[r] \in {"syncing", "done", "failed"}
        /\ applying[r] \subseteq DOMAIN order[r].configs
        /\ DOMAIN entries \subseteq removing[r] \cup DOMAIN order[r].configs
        /\ removing[r] \cap DOMAIN order[r].configs = {}
        /\ \A i \in DOMAIN order[r].configs \ applying[r] :
               i \in DOMAIN entries /\ entries[i] = order[r].configs[i]
        /\ pc[r] = "done" => removing[r] = {} /\ applying[r] = {}

\* What a sync has still to apply is in its snapshot.
FromSnapshot ==
    \A r \in Requests : applying[r] # {} =>
        order[r].op = "sync" /\ applying[r] \subseteq DOMAIN order[r].configs

\* Who waits for an answer has asked a broker.
Waits == \A r \in Requests : pc[r] = "waiting" => broker[r] \in Brokers /\ Asks(r)

Registry == EventsMatchRegistry /\ CurrentMatchesFile /\ LastIsNewest /\ RefreshIsShown

\* Scans are numbered as they are made.  A call that began after a map was kept is for
\* a later scan, while it is waited for and once its own map is kept.
ScansInOrder ==
    /\ \A r \in Requests :
          /\ pc[r] = "idle" => found[r] = 0
          /\ found[r] <= scans
          /\ began[r] <= Kept
          /\ found[r] > 0 => \A i \in 1 .. began[r] : maps[i].scan < found[r]
    /\ \A i \in 1 .. Kept :
          /\ maps[i].scan <= scans
          /\ maps[i].began < i
          /\ \A k \in 1 .. maps[i].began : maps[k].scan < maps[i].scan

IInv == TypeOK /\ Registry /\ FromSnapshot /\ Waits /\ SyncsOnTheWay /\ ScansInOrder

\* The invariant but for the calls.
Rest ==
    /\ RegistryTyped /\ AnswersTyped /\ FileTyped
    /\ HandlersTyped /\ HistoryTyped /\ FaultsTyped
    /\ Registry /\ FromSnapshot /\ Waits /\ SyncsOnTheWay

\* It holds after a step when its parts do.
LEMMA PartsNext ==
    ASSUME RegistryTyped', AnswersTyped', FileTyped', HandlersTyped', HistoryTyped',
           FaultsTyped', Registry', FromSnapshot', Waits', SyncsOnTheWay'
    PROVE  Rest'
BY DEF Rest

\* What is undisturbed and done has left its snapshot.
LEMMA DoneSyncs == IInv => SyncLeavesSnapshot
<1> SUFFICES ASSUME IInv, NEW r \in Requests, order[r].op = "sync", pc[r] = "done", r \in calm
             PROVE  entries = order[r].configs
  BY DEF SyncLeavesSnapshot
<1>1. /\ DOMAIN entries \subseteq DOMAIN order[r].configs
      /\ \A i \in DOMAIN order[r].configs :
             i \in DOMAIN entries /\ entries[i] = order[r].configs[i]
  BY DEF IInv, SyncsOnTheWay
<1>2. entries \in [DOMAIN entries -> Configs]
  BY TypeParts DEF IInv, RegistryTyped
<1>3. order[r].configs \in [DOMAIN order[r].configs -> Configs]
  BY OrderFields, TypeParts DEF IInv, HandlersTyped
<1>4. DOMAIN entries = DOMAIN order[r].configs
  BY <1>1
<1>5. QED
  BY <1>1, <1>2, <1>3, <1>4

\* The invariant holds of a sidecar that has just been started.
LEMMA InitIInv == Init => IInv
<1> SUFFICES ASSUME Init PROVE IInv
  OBVIOUS
<1>1. DOMAIN entries = {} /\ DOMAIN topology = {}
  BY DEF Init, Nowhere
<1>2. TypeOK
  <2>1. RegistryTyped
    BY <1>1 DEF Init, Nowhere, RegistryTyped
  <2>2. AnswersTyped /\ FileTyped /\ HistoryTyped
    BY DEF Init, AnswersTyped, FileTyped, HistoryTyped, Kept
  <2>3. HandlersTyped
    BY DEF Init, HandlersTyped
  <2>4. FaultsTyped
    BY RuntimeAssumption DEF RuntimeAssumption, Init, FaultsTyped
  <2>5. CallsTyped
    BY DEF Init, CallsTyped
  <2>6. QED
    BY <2>1, <2>2, <2>3, <2>4, <2>5, TypeParts
<1>3. last["map"] = None
  BY DEF Init, Fields
<1>4. Registry
  BY <1>1, <1>3 DEF Init, Registry, EventsMatchRegistry, CurrentMatchesFile, LastIsNewest,
                    RefreshIsShown
<1>5. FromSnapshot /\ Waits /\ SyncsOnTheWay
  BY DEF Init, FromSnapshot, Waits, SyncsOnTheWay
<1>6. ScansInOrder
  BY DEF Init, ScansInOrder, Kept
<1>7. QED
  BY <1>2, <1>4, <1>5, <1>6 DEF IInv

(***************************************************************************)
(* What is true of the registry, the store and the file stays so.          *)
(***************************************************************************)

\* Applying a configuration, whether its write fails or not.
LEMMA AppliesKeeps ==
    ASSUME TypeOK, Registry, NEW id \in Ids, NEW config \in Configs, NEW ok \in BOOLEAN,
           Applies(id, config, ok), UNCHANGED <<order, last, Kept, shown>>
    PROVE  Registry'
<1>0. /\ entries' = Put(entries, id, config)
      /\ topology' = Put(topology, id, last["map"])
      /\ announced' = [announced EXCEPT ![id] = "applied"]
  BY DEF Applies, Registers, Published
<1>1. DOMAIN entries' = DOMAIN entries \cup {id}
  BY <1>0 DEF Put
<1>2. /\ DOMAIN topology' = DOMAIN topology \cup {id}
      /\ topology'[id] = last["map"]
      /\ \A i \in DOMAIN topology : i # id => topology'[i] = topology[i]
  BY <1>0 DEF Put
<1>3. EventsMatchRegistry'
  BY <1>0, <1>1, TypeParts DEF Registry, EventsMatchRegistry, RegistryTyped
<1>4. CurrentMatchesFile'
  <2>1. CASE ok
    BY <2>1 DEF Applies, Writes, Registry, CurrentMatchesFile
  <2>2. CASE ~ok
    BY <2>2 DEF Applies, Writes, Registry, CurrentMatchesFile
  <2>3. QED
    BY <2>1, <2>2
<1>5. Kept \in Nat
  BY TypeParts DEF HistoryTyped
<1>6. LastIsNewest'
  <2>1. last["map"] # None => last["map"].n <= Kept
    BY <1>5 DEF Registry, LastIsNewest
  <2>2. \A i \in DOMAIN topology' : topology'[i] # None => topology'[i].n <= Kept
    BY <1>2, <2>1 DEF Registry, LastIsNewest
  <2>3. QED
    BY <2>2 DEF Registry, LastIsNewest, OnlyScans
<1>7. RefreshIsShown'
  <2> SUFFICES ASSUME NEW r \in Requests, shown[r] > 0, order[r].id \in DOMAIN entries',
                      OnlyScans
               PROVE  /\ order[r].id \in DOMAIN topology'
                      /\ topology'[order[r].id] # None
                      /\ topology'[order[r].id].n >= shown[r]
    BY DEF RefreshIsShown, OnlyScans
  <2>1. CASE order[r].id = id
    <3>1. last["map"] # None /\ last["map"].n = Kept /\ shown[r] <= Kept
      BY DEF Registry, LastIsNewest
    <3>2. shown[r] \in Nat
      BY TypeParts DEF HistoryTyped
    <3>3. QED
      BY <1>2, <1>5, <2>1, <3>1, <3>2
  <2>2. CASE order[r].id # id
    <3>1. order[r].id \in DOMAIN entries
      BY <1>1, <2>2
    <3>2. QED
      BY <1>2, <2>2, <3>1 DEF Registry, RefreshIsShown, OnlyScans
  <2>3. QED
    BY <2>1, <2>2
<1>8. QED
  BY <1>3, <1>4, <1>6, <1>7 DEF Registry

\* Removing one.
LEMMA RemovesKeeps ==
    ASSUME TypeOK, Registry, NEW id \in Ids, Removes(id),
           UNCHANGED <<order, store, file, Kept, shown>>
    PROVE  Registry'
<1>1. /\ DOMAIN entries' = DOMAIN entries \ {id}
      /\ announced' = [announced EXCEPT ![id] = "removed"]
  BY DEF Removes, Without
<1>2. /\ DOMAIN topology' \subseteq DOMAIN topology
      /\ \A i \in DOMAIN topology : i # id => i \in DOMAIN topology'
      /\ \A i \in DOMAIN topology' : topology'[i] = topology[i]
  <2>1. topology' = topology \/ topology' = Without(topology, id)
    BY DEF Removes
  <2>2. QED
    BY <2>1 DEF Without
<1>3. EventsMatchRegistry'
  BY <1>1, TypeParts DEF Registry, EventsMatchRegistry, RegistryTyped
<1>4. CurrentMatchesFile'
  BY DEF store, Registry, CurrentMatchesFile
<1>5. LastIsNewest'
  BY <1>2 DEF store, Registry, LastIsNewest, OnlyScans
<1>6. RefreshIsShown'
  BY <1>1, <1>2 DEF Registry, RefreshIsShown
<1>7. QED
  BY <1>3, <1>4, <1>5, <1>6 DEF Registry

\* Whatever touches none of it.
LEMMA NothingKeeps ==
    ASSUME Registry, UNCHANGED <<order, registry, last["map"], current, file, Kept, shown>>
    PROVE  Registry'
BY DEF registry, Registry, EventsMatchRegistry, CurrentMatchesFile, LastIsNewest, OnlyScans,
       RefreshIsShown

(***************************************************************************)
(* Undisturbed syncs.                                                      *)
(***************************************************************************)

\* A request that is not a sync on its way is not among the undisturbed ones.
LEMMA NotCalm ==
    ASSUME SyncsOnTheWay, NEW r \in Requests, pc[r] \in {"idle", "waiting"}
    PROVE  r \notin calm
BY DEF SyncsOnTheWay

\* Nobody is undisturbed when the registry was changed by another.
LEMMA NobodyCalm ==
    ASSUME calm' = {}
    PROVE  SyncsOnTheWay'
BY DEF SyncsOnTheWay

\* Syncs go on as they were when others leave the registry alone.
LEMMA OthersStay ==
    ASSUME HandlersTyped, SyncsOnTheWay, NEW r \in Requests, NEW step,
           pc[r] \in {"idle", "waiting"}, Goto(r, step),
           UNCHANGED <<order, removing, applying, entries, calm>>
    PROVE  SyncsOnTheWay'
<1>1. r \notin calm
  BY NotCalm
<1>2. \A s \in calm : pc'[s] = pc[s]
  BY <1>1 DEF Goto, HandlersTyped
<1>3. QED
  BY <1>2 DEF SyncsOnTheWay

\* Who waits goes on waiting while others move.
LEMMA WaitsStay ==
    ASSUME HandlersTyped, Waits, NEW r \in Requests,
           NEW step \in {"idle", "syncing"} \cup Ended, Goto(r, step),
           UNCHANGED <<order, broker>>
    PROVE  Waits'
<1>1. \A s \in Requests : pc'[s] = "waiting" => pc[s] = "waiting"
  BY DEF HandlersTyped, Goto, Ended
<1>2. QED
  BY <1>1 DEF Waits, Asks

(***************************************************************************)
(* Every handler's step keeps what the invariant says but for the calls.   *)
(***************************************************************************)

\* A configuration that is applied.
LEMMA ConfigureRest ==
    ASSUME IInv, NEW r \in Requests, Configure(r) PROVE Rest'
<1>1. PICK ok \in BOOLEAN : /\ Applies(order[r].id, order[r].config, ok)
                            /\ Goto(r, IF ok THEN "done" ELSE "failed")
  BY DEF Configure
<1>2. /\ UNCHANGED <<order, broker, removing, applying, last, Kept, shown>>
      /\ calm' = calm \cap {r} /\ pc[r] = "idle" /\ order[r].op = "configure"
  BY DEF Configure, Disturbs, calls, Kept
<1>3. /\ RegistryTyped /\ AnswersTyped /\ FileTyped
      /\ HandlersTyped /\ HistoryTyped /\ FaultsTyped
  BY TypeParts DEF IInv
<1>4. order[r].id \in Ids /\ order[r].config \in Configs
  BY <1>2, <1>3, OrderFields DEF HandlersTyped
<1>5. RegistryTyped' /\ FileTyped' /\ FaultsTyped'
  BY <1>1, <1>3, <1>4, AppliesTyped
<1>6. HandlersTyped' /\ HistoryTyped' /\ AnswersTyped'
  <2>1. pc' \in [Requests -> {"idle", "waiting", "syncing"} \cup Ended]
    BY <1>1, <1>3, GotoTyped DEF Ended
  <2>2. QED
    BY <1>2, <1>3, <2>1 DEF HandlersTyped, HistoryTyped, AnswersTyped
<1>7. Registry'
  BY <1>1, <1>2, <1>4, AppliesKeeps DEF IInv
<1>8. SyncsOnTheWay'
  <2>1. calm' = {}
    BY <1>2, NotCalm DEF IInv
  <2>2. QED
    BY <2>1, NobodyCalm
<1>9. FromSnapshot'
  BY <1>2 DEF IInv, FromSnapshot
<1>10. Waits'
  BY <1>1, <1>2, <1>3, WaitsStay DEF IInv, Ended
<1>11. QED
  BY <1>5, <1>6, <1>7, <1>8, <1>9, <1>10, PartsNext

\* One that is removed, or not there.
LEMMA DeconfigureRest ==
    ASSUME IInv, NEW r \in Requests, Deconfigure(r) PROVE Rest'
<1>1. \/ Removes(order[r].id) /\ calm' = calm \cap {r}
      \/ UNCHANGED <<registry, calm>>
  BY DEF Deconfigure, Disturbs
<1>2. /\ UNCHANGED <<order, broker, removing, applying, store, file, Kept, shown, faults>>
      /\ Goto(r, "done") /\ pc[r] = "idle" /\ order[r].op = "deconfigure"
  BY DEF Deconfigure, calls, Kept
<1>3. /\ RegistryTyped /\ AnswersTyped /\ FileTyped
      /\ HandlersTyped /\ HistoryTyped /\ FaultsTyped
  BY TypeParts DEF IInv
<1>4. order[r].id \in Ids
  BY <1>2, <1>3, OrderFields DEF HandlersTyped
<1>5. RegistryTyped'
  <2>1. CASE Removes(order[r].id)
    BY <1>3, <1>4, <2>1, RemovesTyped
  <2>2. CASE UNCHANGED registry
    BY <1>3, <2>2 DEF registry, RegistryTyped
  <2>3. QED
    BY <1>1, <2>1, <2>2
<1>6. /\ HandlersTyped' /\ HistoryTyped' /\ AnswersTyped' /\ FileTyped' /\ FaultsTyped'
  <2>1. pc' \in [Requests -> {"idle", "waiting", "syncing"} \cup Ended]
    BY <1>2, <1>3, GotoTyped DEF Ended
  <2>2. QED
    BY <1>1, <1>2, <1>3, <2>1 DEF HandlersTyped, HistoryTyped, AnswersTyped, FileTyped,
                                  FaultsTyped, store
<1>7. Registry'
  <2>1. CASE Removes(order[r].id)
    BY <1>2, <1>4, <2>1, RemovesKeeps DEF IInv
  <2>2. CASE UNCHANGED registry
    BY <1>2, <2>2, NothingKeeps DEF IInv, store
  <2>3. QED
    BY <1>1, <2>1, <2>2
<1>8. SyncsOnTheWay'
  <2>1. CASE calm' = calm \cap {r}
    <3>1. calm' = {}
      BY <1>2, <2>1, NotCalm DEF IInv
    <3>2. QED
      BY <3>1, NobodyCalm
  <2>2. CASE UNCHANGED <<registry, calm>>
    BY <1>2, <1>3, <2>2, OthersStay DEF IInv, registry
  <2>3. QED
    BY <1>1, <2>1, <2>2
<1>9. FromSnapshot'
  BY <1>2 DEF IInv, FromSnapshot
<1>10. Waits'
  BY <1>2, <1>3, WaitsStay DEF IInv, Ended
<1>11. QED
  BY <1>5, <1>6, <1>7, <1>8, <1>9, <1>10, PartsNext

\* A sync begins.
LEMMA SyncRest ==
    ASSUME IInv, NEW r \in Requests, Sync(r) PROVE Rest'
<1>1. /\ pc[r] = "idle" /\ order[r].op = "sync"
      /\ removing' = [removing EXCEPT ![r] = DOMAIN entries \ DOMAIN order[r].configs]
      /\ applying' = [applying EXCEPT ![r] = DOMAIN order[r].configs]
      /\ calm' = calm \cup {r}
      /\ Goto(r, "syncing")
      /\ UNCHANGED <<order, broker, registry, store, file, Kept, shown, faults>>
  BY DEF Sync, Stale, calls, Kept
<1>2. /\ RegistryTyped /\ AnswersTyped /\ FileTyped
      /\ HandlersTyped /\ HistoryTyped /\ FaultsTyped
  BY TypeParts DEF IInv
<1>3. DOMAIN order[r].configs \subseteq Ids /\ DOMAIN entries \subseteq Ids
  BY <1>1, <1>2, OrderFields DEF HandlersTyped, RegistryTyped
<1>4. HandlersTyped'
  <2>1. pc' \in [Requests -> {"idle", "waiting", "syncing"} \cup Ended]
    BY <1>1, <1>2, GotoTyped
  <2>2. QED
    BY <1>1, <1>2, <1>3, <2>1 DEF HandlersTyped
<1>5. RegistryTyped' /\ AnswersTyped' /\ FileTyped' /\ HistoryTyped' /\ FaultsTyped'
  BY <1>1, <1>2 DEF RegistryTyped, AnswersTyped, FileTyped, HistoryTyped, FaultsTyped,
                    registry, store
<1>6. Registry'
  BY <1>1, NothingKeeps DEF IInv, store
<1>7. SyncsOnTheWay'
  <2>1. r \notin calm
    BY <1>1, NotCalm DEF IInv
  <2>2. \A s \in calm : /\ pc'[s] = pc[s]
                        /\ removing'[s] = removing[s]
                        /\ applying'[s] = applying[s]
    BY <1>1, <1>2, <2>1 DEF Goto, HandlersTyped
  <2>3. /\ pc'[r] = "syncing"
        /\ removing'[r] = DOMAIN entries \ DOMAIN order[r].configs
        /\ applying'[r] = DOMAIN order[r].configs
    BY <1>1, <1>2 DEF Goto, HandlersTyped
  <2>4. entries' = entries /\ order' = order
    BY <1>1 DEF registry
  <2>5. QED
    BY <1>1, <2>2, <2>3, <2>4 DEF IInv, SyncsOnTheWay
<1>8. FromSnapshot'
  BY <1>1, <1>2 DEF IInv, FromSnapshot, HandlersTyped
<1>9. Waits'
  BY <1>1, <1>2, WaitsStay DEF IInv, Ended
<1>10. QED
  BY <1>4, <1>5, <1>6, <1>7, <1>8, <1>9, PartsNext

\* It removes a configuration that is not in its snapshot.
LEMMA SyncRemovesRest ==
    ASSUME IInv, NEW r \in Requests, SyncRemoves(r) PROVE Rest'
<1>1. PICK id \in removing[r] :
        /\ removing' = [removing EXCEPT ![r] = @ \ {id}]
        /\ \/ Removes(id) /\ calm' = calm \cap {r}
           \/ id \notin DOMAIN entries /\ UNCHANGED <<registry, calm>>
  BY DEF SyncRemoves, Disturbs
<1>2. /\ UNCHANGED <<order, pc, broker, applying, store, file, Kept, shown, faults>>
      /\ pc[r] = "syncing"
  BY DEF SyncRemoves, calls, Kept
<1>3. /\ RegistryTyped /\ AnswersTyped /\ FileTyped
      /\ HandlersTyped /\ HistoryTyped /\ FaultsTyped
  BY TypeParts DEF IInv
<1>4. id \in Ids
  BY <1>3 DEF HandlersTyped
<1>5. RegistryTyped'
  <2>1. CASE Removes(id)
    BY <1>3, <1>4, <2>1, RemovesTyped
  <2>2. CASE UNCHANGED registry
    BY <1>3, <2>2 DEF registry, RegistryTyped
  <2>3. QED
    BY <1>1, <2>1, <2>2
<1>6. /\ HandlersTyped' /\ HistoryTyped' /\ AnswersTyped' /\ FileTyped' /\ FaultsTyped'
  BY <1>1, <1>2, <1>3 DEF HandlersTyped, HistoryTyped, AnswersTyped, FileTyped, FaultsTyped,
                          store
<1>7. Registry'
  <2>1. CASE Removes(id)
    BY <1>2, <1>4, <2>1, RemovesKeeps DEF IInv
  <2>2. CASE UNCHANGED registry
    BY <1>2, <2>2, NothingKeeps DEF IInv, store
  <2>3. QED
    BY <1>1, <2>1, <2>2
<1>8. SyncsOnTheWay'
  <2> SUFFICES ASSUME NEW s \in calm'
               PROVE  /\ order[s].op = "sync"
                      /\ pc[s] \in {"syncing", "done", "failed"}
                      /\ applying[s] \subseteq DOMAIN order[s].configs
                      /\ DOMAIN entries' \subseteq removing'[s] \cup DOMAIN order[s].configs
                      /\ removing'[s] \cap DOMAIN order[s].configs = {}
                      /\ \A i \in DOMAIN order[s].configs \ applying[s] :
                             i \in DOMAIN entries' /\ entries'[i] = order[s].configs[i]
                      /\ pc[s] = "done" => removing'[s] = {} /\ applying[s] = {}
    BY <1>2 DEF SyncsOnTheWay
  <2>1. s \in calm /\ s \in Requests
    BY <1>1, <1>3 DEF HistoryTyped
  <2>2. /\ DOMAIN entries' \subseteq DOMAIN entries
        /\ \A i \in DOMAIN entries' : entries'[i] = entries[i]
        /\ \A i \in DOMAIN entries : i # id => i \in DOMAIN entries'
    <3>1. entries' = Without(entries, id) \/ entries' = entries
      BY <1>1 DEF Removes, registry
    <3>2. QED
      BY <3>1 DEF Without
  <2>3. CASE s = r
    <3>1. removing'[s] = removing[s] \ {id} /\ id \notin DOMAIN entries'
      <4>1. CASE Removes(id)
        BY <1>1, <1>3, <2>3, <4>1 DEF Removes, Without, HandlersTyped
      <4>2. CASE id \notin DOMAIN entries /\ UNCHANGED <<registry, calm>>
        BY <1>1, <1>3, <2>3, <4>2 DEF registry, HandlersTyped
      <4>3. QED
        BY <1>1, <4>1, <4>2
    <3>2. id \notin DOMAIN order[s].configs
      BY <2>1, <2>3 DEF IInv, SyncsOnTheWay
    <3>3. QED
      BY <1>2, <2>1, <2>2, <2>3, <3>1, <3>2 DEF IInv, SyncsOnTheWay
  <2>4. CASE s # r
    <3>1. entries' = entries
      BY <1>1, <2>4 DEF registry
    <3>2. removing'[s] = removing[s]
      BY <1>1, <1>3, <2>1, <2>4 DEF HandlersTyped
    <3>3. QED
      BY <2>1, <3>1, <3>2 DEF IInv, SyncsOnTheWay
  <2>5. QED
    BY <2>3, <2>4
<1>9. FromSnapshot'
  BY <1>2 DEF IInv, FromSnapshot
<1>10. Waits'
  BY <1>2 DEF IInv, Waits, Asks
<1>11. QED
  BY <1>5, <1>6, <1>7, <1>8, <1>9, <1>10, PartsNext

\* It applies one that is.
LEMMA SyncAppliesRest ==
    ASSUME IInv, NEW r \in Requests, SyncApplies(r) PROVE Rest'
<1>1. PICK id \in applying[r], ok \in BOOLEAN :
        /\ Applies(id, order[r].configs[id], ok)
        /\ applying' = [applying EXCEPT ![r] = @ \ {id}]
        /\ calm' = IF ok THEN calm \cap {r} ELSE {}
        /\ IF ok THEN UNCHANGED pc ELSE pc' \in {pc, [pc EXCEPT ![r] = "failed"]}
  BY DEF SyncApplies, Disturbs
<1>2. /\ UNCHANGED <<order, broker, removing, last, Kept, shown>>
      /\ pc[r] = "syncing"
  BY DEF SyncApplies, calls, Kept
<1>3. /\ RegistryTyped /\ AnswersTyped /\ FileTyped
      /\ HandlersTyped /\ HistoryTyped /\ FaultsTyped
  BY TypeParts DEF IInv
<1>4. /\ order[r].op = "sync" /\ id \in DOMAIN order[r].configs
      /\ id \in Ids /\ order[r].configs[id] \in Configs
  <2>1. order[r].op = "sync" /\ id \in DOMAIN order[r].configs
    BY <1>1 DEF IInv, FromSnapshot
  <2>2. order[r] \in Orders
    BY <1>3 DEF HandlersTyped
  <2>3. DOMAIN order[r].configs \subseteq Ids
        /\ order[r].configs \in [DOMAIN order[r].configs -> Configs]
    BY <2>1, <2>2, OrderFields
  <2>4. QED
    BY <2>1, <2>3
<1>5. RegistryTyped' /\ FileTyped' /\ FaultsTyped'
  BY <1>1, <1>3, <1>4, AppliesTyped
<1>6. HandlersTyped' /\ HistoryTyped' /\ AnswersTyped'
  <2>1. pc' \in [Requests -> {"idle", "waiting", "syncing"} \cup Ended]
    BY <1>1, <1>3 DEF HandlersTyped, Ended
  <2>2. applying' \in [Requests -> SUBSET Ids] /\ calm' \subseteq Requests
    BY <1>1, <1>3 DEF HandlersTyped, HistoryTyped
  <2>3. QED
    BY <1>2, <1>3, <2>1, <2>2 DEF HandlersTyped, HistoryTyped, AnswersTyped
<1>7. Registry'
  BY <1>1, <1>2, <1>4, AppliesKeeps DEF IInv
<1>8. SyncsOnTheWay'
  <2>1. CASE r \notin calm \/ ~ok
    BY <1>1, <2>1, NobodyCalm
  <2>2. CASE r \in calm /\ ok
    <3>1. /\ calm' = {r} /\ pc' = pc /\ order' = order /\ removing' = removing
          /\ applying'[r] = applying[r] \ {id}
      BY <1>1, <1>2, <1>3, <2>2 DEF HandlersTyped
    <3>2. /\ DOMAIN entries' = DOMAIN entries \cup {id}
          /\ entries'[id] = order[r].configs[id]
          /\ \A i \in DOMAIN entries : i # id => entries'[i] = entries[i]
      BY <1>1 DEF Applies, Registers, Put
    <3>3. QED
      BY <1>2, <1>4, <2>2, <3>1, <3>2 DEF IInv, SyncsOnTheWay
  <2>3. QED
    BY <2>1, <2>2
<1>9. FromSnapshot'
  BY <1>1, <1>2, <1>3 DEF IInv, FromSnapshot, HandlersTyped
<1>10. Waits'
  BY <1>1, <1>2, <1>3 DEF IInv, Waits, Asks, HandlersTyped
<1>11. QED
  BY <1>5, <1>6, <1>7, <1>8, <1>9, <1>10, PartsNext

\* A step that leaves registry, store and file alone.
LEMMA MovesOn ==
    ASSUME IInv, NEW r \in Requests, NEW step \in {"waiting"} \cup Ended, Goto(r, step),
           pc[r] \in {"idle", "waiting"},
           broker' \in [Requests -> Brokers \cup {None}], FaultsTyped',
           \A s \in Requests : s # r => broker'[s] = broker[s],
           step = "waiting" => broker'[r] \in Brokers /\ Asks(r),
           UNCHANGED <<order, removing, applying, registry, store, file, Kept, shown, calm>>
    PROVE  Rest'
<1>1. /\ RegistryTyped /\ AnswersTyped /\ FileTyped
      /\ HandlersTyped /\ HistoryTyped
  BY TypeParts DEF IInv
<1>2. RegistryTyped' /\ AnswersTyped' /\ FileTyped' /\ HistoryTyped'
  BY <1>1 DEF RegistryTyped, AnswersTyped, FileTyped, HistoryTyped, registry, store
<1>3. HandlersTyped'
  <2>1. pc' \in [Requests -> {"idle", "waiting", "syncing"} \cup Ended]
    BY <1>1, GotoTyped
  <2>2. QED
    BY <1>1, <2>1 DEF HandlersTyped
<1>4. Registry'
  BY NothingKeeps DEF IInv, store
<1>5. SyncsOnTheWay'
  BY <1>1, OthersStay DEF IInv, registry
<1>6. FromSnapshot'
  BY DEF IInv, FromSnapshot
<1>7. Waits'
  <2>1. \A s \in Requests : s # r => pc'[s] = pc[s] /\ broker'[s] = broker[s]
    BY <1>1 DEF Goto, HandlersTyped
  <2>2. pc'[r] = step
    BY <1>1 DEF Goto, HandlersTyped
  <2>3. QED
    BY <2>1, <2>2 DEF IInv, Waits, Asks
<1>8. QED
  BY <1>2, <1>3, <1>4, <1>5, <1>6, <1>7, PartsNext

\* A sync has nothing left to do.
LEMMA SyncEndsRest ==
    ASSUME IInv, NEW r \in Requests, SyncEnds(r) PROVE Rest'
<1>1. /\ pc[r] = "syncing" /\ removing[r] = {} /\ applying[r] = {}
      /\ Goto(r, "done")
      /\ UNCHANGED <<order, broker, removing, applying, registry, store, file, Kept, shown, calm, faults>>
  BY DEF SyncEnds, history, Kept
<1>2. /\ RegistryTyped /\ AnswersTyped /\ FileTyped
      /\ HandlersTyped /\ HistoryTyped /\ FaultsTyped
  BY TypeParts DEF IInv
<1>3. RegistryTyped' /\ AnswersTyped' /\ FileTyped' /\ HistoryTyped' /\ FaultsTyped'
  BY <1>1, <1>2 DEF RegistryTyped, AnswersTyped, FileTyped, HistoryTyped, FaultsTyped,
                    registry, store
<1>4. HandlersTyped'
  <2>1. pc' \in [Requests -> {"idle", "waiting", "syncing"} \cup Ended]
    BY <1>1, <1>2, GotoTyped DEF Ended
  <2>2. QED
    BY <1>1, <1>2, <2>1 DEF HandlersTyped
<1>5. Registry'
  BY <1>1, NothingKeeps DEF IInv, store
<1>6. SyncsOnTheWay'
  <2>1. \A s \in Requests : s # r => pc'[s] = pc[s]
    BY <1>1, <1>2 DEF Goto, HandlersTyped
  <2>2. pc'[r] = "done"
    BY <1>1, <1>2 DEF Goto, HandlersTyped
  <2>3. calm' = calm /\ calm \subseteq Requests /\ entries' = entries
    BY <1>1, <1>2 DEF history, registry, HistoryTyped
  <2>4. QED
    BY <1>1, <2>1, <2>2, <2>3 DEF IInv, SyncsOnTheWay
<1>7. FromSnapshot'
  BY <1>1 DEF IInv, FromSnapshot
<1>8. Waits'
  BY <1>1, <1>2, WaitsStay DEF IInv, Ended
<1>9. QED
  BY <1>3, <1>4, <1>5, <1>6, <1>7, <1>8, PartsNext

\* A request that finds no settings, one that suspends, and one whose call fails.
LEMMA SuspensionRest ==
    ASSUME IInv, NEW r \in Requests, NoSettings(r) \/ Ask(r) \/ AskFails(r) PROVE Rest'
<1>1. HandlersTyped /\ AnswersTyped /\ FileTyped /\ RegistryTyped /\ FaultsTyped
  BY TypeParts DEF IInv
<1>2. CASE NoSettings(r)
  <2>1. /\ pc[r] = "idle" /\ Goto(r, "failed")
        /\ UNCHANGED <<order, broker, removing, applying, registry, store, file, Kept, shown, calm, faults>>
    BY <1>2 DEF NoSettings, history, Kept
  <2>2. broker' \in [Requests -> Brokers \cup {None}] /\ FaultsTyped'
    BY <1>1, <2>1 DEF HandlersTyped, FaultsTyped
  <2>3. QED
    BY <2>1, <2>2, MovesOn DEF Ended
<1>3. CASE Ask(r)
  <2>1. /\ pc[r] = "idle" /\ Goto(r, "waiting") /\ Asks(r)
        /\ broker' = [broker EXCEPT ![r] = Settings(r)] /\ Settings(r) # None
        /\ UNCHANGED <<order, removing, applying, registry, store, file, Kept, shown, calm, faults>>
    BY <1>3 DEF Ask, Kept
  <2>2. Settings(r) \in Brokers \cup {None}
    <3>1. order[r] \in Orders
      BY <1>1 DEF HandlersTyped
    <3>2. CASE order[r].op # "refresh"
      <4>1. order[r].broker \in Brokers \cup {None}
        BY <2>1, <3>1, <3>2, OrderFields DEF Asks
      <4>2. QED
        BY <1>1, <3>2, <4>1 DEF Settings, Named, FileTyped
    <3>3. CASE order[r].op = "refresh"
      BY <1>1, <3>3 DEF Settings, Named, FileTyped, RegistryTyped, Configs
    <3>4. QED
      BY <3>2, <3>3
  <2>3. /\ broker' \in [Requests -> Brokers \cup {None}] /\ FaultsTyped'
        /\ broker'[r] \in Brokers /\ \A s \in Requests : s # r => broker'[s] = broker[s]
    BY <1>1, <2>1, <2>2 DEF HandlersTyped, FaultsTyped
  <2>4. QED
    BY <2>1, <2>3, MovesOn
<1>4. CASE AskFails(r)
  <2>1. /\ pc[r] = "waiting" /\ Goto(r, "failed")
        /\ faults < MaxFaults /\ faults' = faults + 1
        /\ UNCHANGED <<order, broker, removing, applying, registry, store, file, Kept, shown, calm>>
    BY <1>4 DEF AskFails, history, Kept
  <2>2. broker' \in [Requests -> Brokers \cup {None}] /\ FaultsTyped'
    BY <1>1, <2>1, OneFault DEF HandlersTyped
  <2>3. QED
    BY <2>1, <2>2, MovesOn DEF Ended
<1>5. QED
  BY <1>2, <1>3, <1>4

\* A dry run is answered at once.
LEMMA DryRunRest ==
    ASSUME IInv, NEW r \in Requests, DryRun(r) PROVE Rest'
<1> DEFINE answer == [broker |-> Settings(r), n |-> 0]
<1>1. /\ pc[r] = "idle" /\ Asks(r) /\ Dry(r) /\ Settings(r) # None
      /\ last' = [last EXCEPT ![Field(r)] = answer]
      /\ Goto(r, "done")
      /\ UNCHANGED <<order, broker, removing, applying, registry, current, lastError, file,
                     Kept, shown, calm, faults>>
  BY DEF DryRun, history, Kept
<1>2. /\ RegistryTyped /\ AnswersTyped /\ FileTyped
      /\ HandlersTyped /\ HistoryTyped /\ FaultsTyped
  BY TypeParts DEF IInv
<1>3. order[r].op \in Fields /\ Field(r) = order[r].op /\ order[r].dry
  BY <1>1 DEF Dry, Asks, Field
<1>0. answer \in Answers
  <2>1. order[r].broker \in Brokers \cup {None}
    BY <1>2, <1>3, OrderFields DEF HandlersTyped
  <2>2. Settings(r) \in Brokers
    BY <1>1, <1>2, <1>3, <2>1 DEF Settings, Named, FileTyped, Fields
  <2>3. QED
    BY <2>2 DEF Answers
<1>4. AnswersTyped'
  BY <1>0, <1>1, <1>2, <1>3 DEF AnswersTyped
<1>5. RegistryTyped' /\ FileTyped' /\ HistoryTyped' /\ FaultsTyped'
  BY <1>1, <1>2 DEF RegistryTyped, FileTyped, HistoryTyped, FaultsTyped, registry
<1>6. HandlersTyped'
  <2>1. pc' \in [Requests -> {"idle", "waiting", "syncing"} \cup Ended]
    BY <1>1, <1>2, GotoTyped DEF Ended
  <2>2. QED
    BY <1>1, <1>2, <2>1 DEF HandlersTyped
<1>7. Registry'
  <2>1. CASE order[r].op # "map"
    <3>1. last'["map"] = last["map"]
      BY <1>1, <1>2, <1>3, <2>1 DEF AnswersTyped, Fields
    <3>2. QED
      BY <1>1, <3>1, NothingKeeps DEF IInv
  <2>2. CASE order[r].op = "map"
    <3>1. last'["map"] = answer /\ ~OnlyScans
      BY <1>1, <1>2, <1>3, <2>2 DEF AnswersTyped, Fields, OnlyScans
    <3>2. answer # None
      BY <1>0, RuntimeAssumption DEF RuntimeAssumption
    <3>3. EventsMatchRegistry' /\ CurrentMatchesFile'
      BY <1>1 DEF IInv, Registry, EventsMatchRegistry, CurrentMatchesFile, registry
    <3>4. LastIsNewest'
      BY <1>1, <3>1, <3>2 DEF IInv, Registry, LastIsNewest, OnlyScans, registry
    <3>5. RefreshIsShown'
      BY <1>1 DEF IInv, Registry, RefreshIsShown, registry
    <3>6. QED
      BY <3>3, <3>4, <3>5 DEF Registry
  <2>3. QED
    BY <2>1, <2>2
<1>8. SyncsOnTheWay'
  BY <1>1, <1>2, OthersStay DEF IInv, registry
<1>9. FromSnapshot'
  BY <1>1 DEF IInv, FromSnapshot
<1>10. Waits'
  BY <1>1, <1>2, WaitsStay DEF IInv, Ended
<1>11. QED
  BY <1>4, <1>5, <1>6, <1>7, <1>8, <1>9, <1>10, PartsNext

\* A call that is answered.
LEMMA AnsweredRest ==
    ASSUME IInv, NEW r \in Requests, Answered(r) PROVE Rest'
<1> DEFINE n == IF Field(r) = "map" THEN Kept + 1 ELSE 0
           answer == [broker |-> broker[r], n |-> n]
<1>1. /\ pc[r] = "waiting" /\ Goto(r, "done")
      /\ last' = [last EXCEPT ![Field(r)] = answer]
      /\ topology' = IF order[r].op = "refresh" THEN Put(topology, order[r].id, answer)
                                                ELSE topology
      /\ maps' = IF Field(r) = "map"
                 THEN Append(maps, [scan |-> found[r], began |-> began[r]]) ELSE maps
      /\ shown' = IF order[r].op = "refresh" THEN [shown EXCEPT ![r] = n] ELSE shown
      /\ UNCHANGED <<order, broker, removing, applying, entries, announced, current,
                     lastError, file, calm, faults>>
  BY DEF Answered, Keeps, Kept
<1>2. /\ RegistryTyped /\ AnswersTyped /\ FileTyped
      /\ HandlersTyped /\ HistoryTyped /\ FaultsTyped
  BY TypeParts DEF IInv
<1>0. Kept' = IF Field(r) = "map" THEN n ELSE Kept
  <2>1. CallsTyped
    BY TypeParts DEF IInv
  <2>2. maps \in Seq([scan: Nat, began: Nat])
        /\ [scan |-> found[r], began |-> began[r]] \in [scan: Nat, began: Nat]
    BY <2>1 DEF CallsTyped
  <2>3. QED
    BY <1>1, <2>2 DEF Kept
<1>3. broker[r] \in Brokers /\ order[r].op \in Fields \cup {"refresh"}
  BY <1>1 DEF IInv, Waits, Asks
<1>4. Kept \in Nat /\ n \in Nat /\ Kept' \in Nat /\ Kept <= Kept'
  BY <1>0, <1>2 DEF HistoryTyped
<1>5. answer \in Answers /\ answer \in Topologies /\ answer # None
  <2>1. answer \in Answers
    BY <1>3, <1>4 DEF Answers
  <2>2. QED
    BY <2>1, RuntimeAssumption DEF RuntimeAssumption, Topologies
<1>6. order[r].op = "refresh" => order[r].id \in Ids /\ n = Kept + 1
  BY <1>2, OrderFields DEF HandlersTyped, Field
<1>7. Field(r) \in Fields
  BY <1>3 DEF Field, Fields
<1>8. AnswersTyped' /\ FileTyped' /\ FaultsTyped' /\ HistoryTyped' /\ HandlersTyped'
  <2>1. pc' \in [Requests -> {"idle", "waiting", "syncing"} \cup Ended]
    BY <1>1, <1>2, GotoTyped DEF Ended
  <2>2. AnswersTyped'
    BY <1>1, <1>2, <1>5, <1>7 DEF AnswersTyped
  <2>3. HistoryTyped'
    BY <1>1, <1>2, <1>4 DEF HistoryTyped
  <2>4. QED
    BY <1>1, <1>2, <2>1, <2>2, <2>3 DEF FileTyped, FaultsTyped, HandlersTyped
<1>9. /\ order[r].op = "refresh" => /\ DOMAIN topology' = DOMAIN topology \cup {order[r].id}
                                    /\ topology'[order[r].id] = answer
      /\ \A i \in DOMAIN topology : \/ topology'[i] = topology[i]
                                    \/ order[r].op = "refresh" /\ i = order[r].id
      /\ order[r].op # "refresh" => topology' = topology
  BY <1>1 DEF Put
<1>10. RegistryTyped'
  <2>1. CASE order[r].op = "refresh"
    BY <1>1, <1>2, <1>5, <1>6, <2>1 DEF RegistryTyped, Put
  <2>2. CASE order[r].op # "refresh"
    BY <1>1, <1>2, <2>2 DEF RegistryTyped
  <2>3. QED
    BY <2>1, <2>2
<1>11. last'["map"] = IF Field(r) = "map" THEN answer ELSE last["map"]
  BY <1>1, <1>2, <1>7 DEF AnswersTyped, Fields
<1>12. LastIsNewest'
  <2>1. last'["map"] # None => last'["map"].n \in {0, Kept'}
    BY <1>0, <1>1, <1>11 DEF IInv, Registry, LastIsNewest
  <2>2. OnlyScans' /\ last'["map"] # None => last'["map"].n = Kept'
    BY <1>0, <1>1, <1>11 DEF IInv, Registry, LastIsNewest, OnlyScans
  <2>3. \A i \in DOMAIN topology' : topology'[i] # None => topology'[i].n <= Kept'
    <3> SUFFICES ASSUME NEW i \in DOMAIN topology', topology'[i] # None
                 PROVE  topology'[i].n <= Kept'
      OBVIOUS
    <3>1. CASE order[r].op = "refresh" /\ i = order[r].id
      BY <1>0, <1>1, <1>4, <1>9, <3>1 DEF Field
    <3>2. CASE ~(order[r].op = "refresh" /\ i = order[r].id)
      <4>1. i \in DOMAIN topology /\ topology'[i] = topology[i]
        BY <1>9, <3>2
      <4>2. topology[i].n \in Nat /\ topology[i].n <= Kept
        BY <1>2, <4>1 DEF IInv, Registry, LastIsNewest, RegistryTyped, Topologies, Answers
      <4>3. QED
        BY <1>4, <4>1, <4>2
    <3>3. QED
      BY <3>1, <3>2
  <2>4. \A s \in Requests : shown'[s] > 0 => /\ order'[s].op = "refresh"
                                             /\ shown'[s] <= Kept'
                                             /\ last'["map"] # None
    <3> SUFFICES ASSUME NEW s \in Requests, shown'[s] > 0
                 PROVE  order[s].op = "refresh" /\ shown'[s] <= Kept' /\ last'["map"] # None
      BY <1>1
    <3>1. CASE s = r /\ order[r].op = "refresh"
      <4>1. shown'[s] = n /\ Field(r) = "map"
        BY <1>1, <1>2, <3>1 DEF HistoryTyped, Field
      <4>2. QED
        BY <1>0, <1>1, <1>4, <1>5, <1>11, <3>1, <4>1
    <3>2. CASE ~(s = r /\ order[r].op = "refresh")
      <4>1. shown'[s] = shown[s] /\ shown[s] \in Nat
        BY <1>1, <1>2, <3>2 DEF HistoryTyped
      <4>2. order[s].op = "refresh" /\ shown[s] <= Kept /\ last["map"] # None
        BY <4>1 DEF IInv, Registry, LastIsNewest
      <4>3. QED
        BY <1>4, <1>5, <1>11, <4>1, <4>2
    <3>3. QED
      BY <3>1, <3>2
  <2>5. QED
    BY <2>1, <2>2, <2>3, <2>4 DEF LastIsNewest
<1>13. RefreshIsShown'
  <2> SUFFICES ASSUME NEW s \in Requests, shown'[s] > 0, order[s].id \in DOMAIN entries,
                      OnlyScans
               PROVE  /\ order[s].id \in DOMAIN topology'
                      /\ topology'[order[s].id] # None
                      /\ topology'[order[s].id].n >= shown'[s]
    BY <1>1 DEF RefreshIsShown, OnlyScans
  <2>1. CASE order[r].op = "refresh" /\ order[s].id = order[r].id
    <3>1. shown'[s] \in Nat /\ shown'[s] <= Kept'
      BY <1>8, <1>12 DEF LastIsNewest, HistoryTyped
    <3>2. Kept' = n
      BY <1>0, <1>1, <2>1 DEF Field
    <3>3. QED
      BY <1>4, <1>5, <1>9, <2>1, <3>1, <3>2
  <2>2. CASE ~(order[r].op = "refresh" /\ order[s].id = order[r].id)
    <3>1. shown'[s] = shown[s]
      BY <1>1, <1>2, <2>2 DEF HistoryTyped
    <3>2. /\ order[s].id \in DOMAIN topology
          /\ topology[order[s].id] # None
          /\ topology[order[s].id].n >= shown[s]
      BY <3>1 DEF IInv, Registry, RefreshIsShown, OnlyScans
    <3>3. topology'[order[s].id] = topology[order[s].id] /\ order[s].id \in DOMAIN topology'
      BY <1>9, <2>2, <3>2
    <3>4. QED
      BY <3>1, <3>2, <3>3
  <2>3. QED
    BY <2>1, <2>2
<1>14. EventsMatchRegistry' /\ CurrentMatchesFile'
  BY <1>1 DEF IInv, Registry, EventsMatchRegistry, CurrentMatchesFile
<1>15. SyncsOnTheWay'
  BY <1>1, <1>2, OthersStay DEF IInv
<1>16. FromSnapshot'
  BY <1>1 DEF IInv, FromSnapshot
<1>17. Waits'
  BY <1>1, <1>2, WaitsStay DEF IInv, Ended
<1>18. QED
  BY <1>8, <1>10, <1>12, <1>13, <1>14, <1>15, <1>16, <1>17, PartsNext DEF Registry

\* The sidecar dies and is started again.
LEMMA CrashRest == ASSUME IInv, Crash PROVE Rest'
<1>1. /\ faults < MaxFaults /\ faults' = faults + 1
      /\ pc' = [r \in Requests |-> IF pc[r] \in {"waiting", "syncing"} THEN "lost" ELSE pc[r]]
      /\ entries' = Nowhere /\ topology' = Nowhere
      /\ announced' = [i \in Ids |-> "nothing"]
      /\ last' = [field \in Fields |-> None]
      /\ current' = None /\ lastError' = FALSE
      /\ shown' = [r \in Requests |-> 0]
      /\ calm' = {}
      /\ UNCHANGED <<order, broker, removing, applying, file, Kept>>
  BY DEF Crash, calls, Kept
<1>2. /\ RegistryTyped /\ AnswersTyped /\ FileTyped
      /\ HandlersTyped /\ HistoryTyped /\ FaultsTyped
  BY TypeParts DEF IInv
<1>3. DOMAIN entries' = {} /\ DOMAIN topology' = {} /\ last'["map"] = None
  BY <1>1 DEF Nowhere, Fields
<1>4. RegistryTyped' /\ AnswersTyped' /\ FileTyped' /\ HistoryTyped'
  BY <1>1, <1>2, <1>3 DEF RegistryTyped, AnswersTyped, FileTyped, HistoryTyped, Nowhere
<1>5. HandlersTyped'
  BY <1>1, <1>2 DEF HandlersTyped, Ended
<1>6. FaultsTyped'
  BY <1>1, <1>2, OneFault
<1>7. Registry'
  BY <1>1, <1>3 DEF Registry, EventsMatchRegistry, CurrentMatchesFile, LastIsNewest,
                    RefreshIsShown
<1>8. FromSnapshot' /\ Waits'
  BY <1>1 DEF IInv, FromSnapshot, Waits
<1>9. SyncsOnTheWay'
  BY <1>1, NobodyCalm
<1>10. QED
  BY <1>4, <1>5, <1>6, <1>7, <1>8, <1>9, PartsNext

\* Where nothing of it changes, the rest of the invariant stays.
LEMMA RestStays ==
    ASSUME IInv, UNCHANGED <<order, pc, broker, removing, applying, entries, topology,
                             announced, last, current, lastError, file, Kept, shown, calm,
                             faults>>
    PROVE  Rest'
<1>1. /\ RegistryTyped' /\ AnswersTyped' /\ FileTyped'
      /\ HandlersTyped' /\ HistoryTyped' /\ FaultsTyped'
  BY TypeParts DEF IInv, RegistryTyped, AnswersTyped, FileTyped, HandlersTyped, HistoryTyped,
                   FaultsTyped
<1>2. Registry'
  BY NothingKeeps DEF IInv, registry
<1>3. FromSnapshot' /\ Waits' /\ SyncsOnTheWay'
  BY DEF IInv, FromSnapshot, Waits, Asks, SyncsOnTheWay
<1>4. QED
  BY <1>1, <1>2, <1>3, PartsNext

(***************************************************************************)
(* Scans and the calls they are made for.                                  *)
(***************************************************************************)

\* An entry of a sequence is of its type.
LEMMA EntryTyped ==
    ASSUME NEW S, NEW s \in Seq(S), NEW i \in 1 .. Len(s)
    PROVE  s[i] \in S
OBVIOUS

\* What a kept map's history says is typed.
LEMMA MapsTyped ==
    ASSUME CallsTyped
    PROVE  \A i \in 1 .. Kept : maps[i].scan \in Nat /\ maps[i].began \in Nat
<1>1. maps \in Seq([scan: Nat, began: Nat])
  BY DEF CallsTyped
<1>2. \A i \in 1 .. Len(maps) : maps[i] \in [scan: Nat, began: Nat]
  BY <1>1, EntryTyped, Zenon
<1>3. QED
  BY <1>2 DEF Kept

\* Who is idle has been idle.
LEMMA GotoIdle ==
    ASSUME HandlersTyped, NEW r \in Requests, NEW step, step # "idle", Goto(r, step)
    PROVE  \A q \in Requests : pc'[q] = "idle" => pc[q] = "idle"
BY DEF HandlersTyped, Goto

\* Steps that are no call's.
LEMMA CallsStay ==
    ASSUME IInv, UNCHANGED calls, \A q \in Requests : pc'[q] = "idle" => pc[q] = "idle"
    PROVE  CallsTyped' /\ ScansInOrder'
<1>1. UNCHANGED <<scans, found, began, maps, Kept>>
  BY DEF calls, Kept
<1>2. CallsTyped'
  BY <1>1, TypeParts DEF IInv, CallsTyped
<1>3. ScansInOrder'
  BY <1>1 DEF IInv, ScansInOrder
<1>4. QED
  BY <1>2, <1>3

\* A call begins after the maps kept so far.
LEMMA AskCalls ==
    ASSUME IInv, NEW r \in Requests, Ask(r)
    PROVE  CallsTyped' /\ ScansInOrder'
<1>1. /\ pc[r] = "idle" /\ Goto(r, "waiting")
      /\ began' = [began EXCEPT ![r] = Kept]
      /\ UNCHANGED <<scans, found, maps, Kept>>
  BY DEF Ask, Kept
<1>2. HandlersTyped /\ HistoryTyped /\ CallsTyped
  BY TypeParts DEF IInv
<1>3. \A q \in Requests : pc'[q] = "idle" => pc[q] = "idle"
  BY <1>1, <1>2, GotoIdle
<1>4. found[r] = 0
  BY <1>1 DEF IInv, ScansInOrder
<1>5. CallsTyped'
  BY <1>1, <1>2 DEF CallsTyped, HistoryTyped
<1>6. began'[r] = Kept /\ \A q \in Requests : q # r => began'[q] = began[q]
  BY <1>1, <1>2 DEF CallsTyped
<1>7. ScansInOrder'
  BY <1>1, <1>2, <1>3, <1>4, <1>6 DEF IInv, ScansInOrder, HistoryTyped
<1>8. QED
  BY <1>5, <1>7

\* Zigbee2MQTT's scan is the latest.
LEMMA ScansCalls ==
    ASSUME IInv, NEW r \in Requests, Scans(r)
    PROVE  CallsTyped' /\ ScansInOrder'
<1>1. /\ pc[r] = "waiting"
      /\ scans' = scans + 1
      /\ found' = [found EXCEPT ![r] = scans + 1]
      /\ UNCHANGED <<pc, began, maps, Kept>>
  BY DEF Scans, Kept
<1>2. HistoryTyped /\ CallsTyped
  BY TypeParts DEF IInv
<1>3. CallsTyped'
  BY <1>1, <1>2 DEF CallsTyped
<1>4. found'[r] = scans + 1 /\ \A q \in Requests : q # r => found'[q] = found[q]
  BY <1>1, <1>2 DEF CallsTyped
<1>5. \A i \in 1 .. Kept : maps[i].scan \in Nat /\ maps[i].scan <= scans
  BY <1>2, MapsTyped DEF IInv, ScansInOrder
<1>6. \A q \in Requests :
          /\ found[q] \in Nat /\ found[q] <= scans
          /\ began[q] \in Nat /\ began[q] <= Kept
  BY <1>2 DEF IInv, ScansInOrder, CallsTyped
<1>7. scans \in Nat /\ Kept \in Nat
  BY <1>2 DEF CallsTyped, HistoryTyped
<1>8. \A i \in 1 .. began[r] : maps[i].scan < found'[r]
  BY <1>4, <1>5, <1>6, <1>7
<1>9. \A q \in Requests : found'[q] <= scans'
  BY <1>1, <1>4, <1>6, <1>7
<1>10. \A i \in 1 .. Kept : maps[i].scan <= scans'
  BY <1>1, <1>5, <1>7
<1>11. QED
  BY <1>1, <1>3, <1>4, <1>8, <1>9, <1>10 DEF IInv, ScansInOrder

\* The map of an answered call joins those that were kept.
LEMMA AnsweredCalls ==
    ASSUME IInv, NEW r \in Requests, Answered(r)
    PROVE  CallsTyped' /\ ScansInOrder'
<1> DEFINE map == [scan |-> found[r], began |-> began[r]]
<1>1. /\ Goto(r, "done") /\ Field(r) = "map" => found[r] > 0
      /\ maps' = IF Field(r) = "map" THEN Append(maps, map) ELSE maps
      /\ UNCHANGED <<scans, found, began>>
  BY DEF Answered
<1>2. HandlersTyped /\ HistoryTyped /\ CallsTyped
  BY TypeParts DEF IInv
<1>3. \A q \in Requests : pc'[q] = "idle" => pc[q] = "idle"
  <2>1. Goto(r, "done")
    BY DEF Answered
  <2>2. QED
    BY <1>2, <2>1, GotoIdle
<1>4. CASE Field(r) # "map"
  <2>1. UNCHANGED calls
    BY <1>4 DEF Answered, calls
  <2>2. QED
    BY <1>3, <2>1, CallsStay
<1>5. CASE Field(r) = "map"
  <2>1. maps' = Append(maps, map) /\ found[r] > 0 /\ UNCHANGED <<scans, found, began>>
    BY <1>5 DEF Answered
  <2>2. map \in [scan: Nat, began: Nat]
    BY <1>2 DEF CallsTyped
  <2> HIDE DEF map
  <2>3. /\ maps' \in Seq([scan: Nat, began: Nat]) /\ Kept \in Nat /\ Kept' = Kept + 1
        /\ maps'[Kept + 1] = map
        /\ \A i \in 1 .. Kept : maps'[i] = maps[i]
    BY <1>2, <2>1, <2>2 DEF CallsTyped, Kept
  <2>4. CallsTyped'
    BY <1>2, <2>1, <2>3 DEF CallsTyped
  <2>5. /\ map.scan = found[r] /\ map.began = began[r]
        /\ found[r] <= scans /\ began[r] \in Nat /\ began[r] <= Kept
        /\ \A i \in 1 .. began[r] : maps[i].scan < found[r]
    BY <1>2, <2>1 DEF IInv, ScansInOrder, CallsTyped, map
  <2>6. ASSUME NEW q \in Requests
        PROVE  /\ pc'[q] = "idle" => found[q] = 0
               /\ found[q] <= scans
               /\ began[q] <= Kept + 1
               /\ found[q] > 0 => \A i \in 1 .. began[q] : maps'[i].scan < found[q]
    <3>1. /\ began[q] \in Nat /\ began[q] <= Kept /\ found[q] <= scans
          /\ pc[q] = "idle" => found[q] = 0
          /\ found[q] > 0 => \A i \in 1 .. began[q] : maps[i].scan < found[q]
      BY <1>2 DEF IInv, ScansInOrder, CallsTyped
    <3>2. \A i \in 1 .. began[q] : i \in 1 .. Kept /\ maps'[i] = maps[i]
      BY <2>3, <3>1
    <3>3. pc'[q] = "idle" => found[q] = 0
      BY <1>3, <3>1
    <3>4. began[q] <= Kept + 1
      <4>1. Kept \in Nat
        BY <2>3
      <4>2. QED
        BY <3>1, <4>1
    <3>5. ASSUME found[q] > 0, NEW i \in 1 .. began[q]
          PROVE  maps'[i].scan < found[q]
      <4>1. maps[i].scan < found[q]
        BY <3>1, <3>5
      <4>2. maps'[i] = maps[i]
        BY <3>2
      <4>3. QED
        BY <4>1, <4>2
    <3>6. QED
      BY <3>1, <3>3, <3>4, <3>5
  <2>7. ASSUME NEW i \in 1 .. Kept + 1
        PROVE  /\ maps'[i].scan <= scans
               /\ maps'[i].began < i
               /\ \A k \in 1 .. maps'[i].began : maps'[k].scan < maps'[i].scan
    <3>1. CASE i = Kept + 1
      <4>1. maps'[i].scan = found[r] /\ maps'[i].began = began[r]
        BY <2>3, <2>5, <3>1
      <4>2. began[r] \in Nat /\ began[r] <= Kept /\ Kept \in Nat /\ found[r] <= scans
        BY <2>3, <2>5
      <4>3. ASSUME NEW k \in 1 .. began[r]
            PROVE  maps'[k].scan < found[r]
        <5>1. k \in 1 .. Kept
          BY <4>2
        <5>2. maps'[k] = maps[k]
          BY <2>3, <5>1
        <5>3. maps[k].scan < found[r]
          BY <2>5
        <5>4. QED
          BY <5>2, <5>3
      <4>4. QED
        BY <3>1, <4>1, <4>2, <4>3
    <3>2. CASE i \in 1 .. Kept
      <4>1. /\ maps[i].scan <= scans /\ maps[i].began < i /\ maps[i].began \in Nat
            /\ \A k \in 1 .. maps[i].began : maps[k].scan < maps[i].scan
        BY <1>2, <3>2, MapsTyped DEF IInv, ScansInOrder
      <4>2. maps'[i] = maps[i]
        BY <2>3, <3>2
      <4>3. \A k \in 1 .. maps[i].began : k \in 1 .. Kept /\ maps'[k] = maps[k]
        BY <2>3, <3>2, <4>1
      <4>4. QED
        BY <4>1, <4>2, <4>3
    <3>3. QED
      BY <2>3, <3>1, <3>2
  <2>8. ScansInOrder'
    BY <2>1, <2>3, <2>6, <2>7 DEF ScansInOrder
  <2>9. QED
    BY <2>4, <2>8
<1>6. QED
  BY <1>4, <1>5

\* A scan leaves the rest of the sidecar alone.
LEMMA ScansRest ==
    ASSUME IInv, NEW r \in Requests, Scans(r)
    PROVE  Rest'
<1>1. UNCHANGED <<order, pc, broker, removing, applying, entries, topology, announced, last,
                  current, lastError, file, Kept, shown, calm, faults>>
  BY DEF Scans, registry, store, Kept
<1>2. QED
  BY <1>1, RestStays

\* Every step keeps the calls in order.
LEMMA StepCalls ==
    ASSUME IInv, [Next]_vars
    PROVE  CallsTyped' /\ ScansInOrder'
<1>0. HandlersTyped
  BY TypeParts DEF IInv
<1>1. CASE UNCHANGED vars
  BY <1>1, CallsStay DEF vars, handlers, history, calls
<1>2. CASE Crash
  <2>1. \A q \in Requests : pc'[q] = "idle" => pc[q] = "idle"
    BY <1>2 DEF Crash
  <2>2. UNCHANGED calls
    BY <1>2 DEF Crash
  <2>3. QED
    BY <2>1, <2>2, CallsStay
<1>3. CASE \E r \in Requests : Handler(r)
  <2> SUFFICES ASSUME NEW r \in Requests, Handler(r) PROVE CallsTyped' /\ ScansInOrder'
    BY <1>3
  <2>1. CASE Ask(r) \/ Scans(r) \/ Answered(r)
    BY <2>1, AskCalls, ScansCalls, AnsweredCalls
  <2>2. CASE Configure(r) \/ Deconfigure(r) \/ Sync(r) \/ SyncRemoves(r) \/ SyncApplies(r)
    <3>1. UNCHANGED calls
      BY <2>2 DEF Configure, Deconfigure, Sync, SyncRemoves, SyncApplies
    <3>2. \A q \in Requests : pc'[q] = "idle" => pc[q] = "idle"
      <4>1. CASE Configure(r)
        BY <1>0, <4>1, GotoIdle DEF Configure
      <4>2. CASE Deconfigure(r) \/ Sync(r)
        BY <1>0, <4>2, GotoIdle DEF Deconfigure, Sync
      <4>3. CASE SyncRemoves(r)
        BY <4>3 DEF SyncRemoves
      <4>4. CASE SyncApplies(r)
        <5>1. pc' = pc \/ pc' = [pc EXCEPT ![r] = "failed"]
          BY <4>4 DEF SyncApplies
        <5>2. QED
          BY <1>0, <5>1 DEF HandlersTyped
      <4>5. QED
        BY <2>2, <4>1, <4>2, <4>3, <4>4
    <3>3. QED
      BY <3>1, <3>2, CallsStay
  <2>3. CASE SyncEnds(r) \/ NoSettings(r) \/ DryRun(r) \/ AskFails(r)
    <3>1. UNCHANGED calls
      BY <2>3 DEF SyncEnds, NoSettings, DryRun, AskFails, history, calls
    <3>2. Goto(r, "done") \/ Goto(r, "failed")
      BY <2>3 DEF SyncEnds, NoSettings, DryRun, AskFails
    <3>3. \A q \in Requests : pc'[q] = "idle" => pc[q] = "idle"
      BY <1>0, <3>2, GotoIdle
    <3>4. QED
      BY <3>1, <3>3, CallsStay
  <2>4. QED
    BY <2>1, <2>2, <2>3 DEF Handler
<1>4. QED
  BY <1>1, <1>2, <1>3 DEF Next

\* Every step keeps the rest.
LEMMA StepRest == ASSUME IInv, [Next]_vars PROVE Rest'
<1>1. CASE UNCHANGED vars
  <2>1. UNCHANGED <<order, pc, broker, removing, applying, entries, topology, announced,
                    last, current, lastError, file, Kept, shown, calm, faults>>
    BY <1>1 DEF vars, handlers, registry, store, history, Kept
  <2>2. QED
    BY <2>1, RestStays
<1>2. CASE \E r \in Requests : Handler(r)
  <2> SUFFICES ASSUME NEW r \in Requests, Handler(r) PROVE Rest'
    BY <1>2
  <2>1. CASE Configure(r) \/ Deconfigure(r)
    BY <2>1, ConfigureRest, DeconfigureRest
  <2>2. CASE Sync(r) \/ SyncRemoves(r) \/ SyncApplies(r) \/ SyncEnds(r)
    BY <2>2, SyncRest, SyncRemovesRest, SyncAppliesRest, SyncEndsRest
  <2>3. CASE NoSettings(r) \/ Ask(r) \/ AskFails(r)
    BY <2>3, SuspensionRest
  <2>4. CASE Scans(r)
    BY <2>4, ScansRest
  <2>5. CASE DryRun(r) \/ Answered(r)
    BY <2>5, DryRunRest, AnsweredRest
  <2>6. QED
    BY <2>1, <2>2, <2>3, <2>4, <2>5 DEF Handler
<1>3. CASE Crash
  BY <1>3, CrashRest
<1>4. QED
  BY <1>1, <1>2, <1>3 DEF Next

\* Every step keeps the invariant.
LEMMA StepIInv == IInv /\ [Next]_vars => IInv'
<1> SUFFICES ASSUME IInv, [Next]_vars PROVE IInv'
  OBVIOUS
<1>1. Rest' /\ CallsTyped' /\ ScansInOrder'
  BY StepRest, StepCalls
<1>2. TypeOK'
  BY <1>1 DEF Rest, TypeOK, RegistryTyped, Topologies, AnswersTyped, FileTyped,
              HandlersTyped, HistoryTyped, FaultsTyped, CallsTyped
<1>3. QED
  BY <1>1, <1>2 DEF Rest, IInv

(***************************************************************************)
(* Which maps are published in whose place.                                *)
(***************************************************************************)

\* What a step puts in the place of a kept map is that map or one kept later.
Advances ==
    \A id \in DOMAIN topology \cap DOMAIN topology' :
        /\ topology[id] # None /\ topology[id].n > 0
        /\ topology'[id] # None /\ topology'[id].n > 0
        => topology'[id].n >= topology[id].n

\* Applying a configuration publishes the last map: a dry run's, or the last one kept.
LEMMA AppliesAdvances ==
    ASSUME IInv, NEW i, NEW config, NEW ok, Applies(i, config, ok)
    PROVE  Advances
<1>1. /\ topology'[i] = last["map"]
      /\ \A id \in DOMAIN topology : id # i => topology'[id] = topology[id]
  BY DEF Applies, Registers, Published, Put
<1>2. /\ last["map"] # None => last["map"].n \in {0, Kept}
      /\ \A id \in DOMAIN topology : topology[id] # None => topology[id].n <= Kept
  BY DEF IInv, Registry, LastIsNewest
<1>3. \A id \in DOMAIN topology : topology[id] # None => topology[id].n \in Nat
  BY TypeParts DEF IInv, RegistryTyped, Topologies, Answers
<1>4. Kept \in Nat
  BY TypeParts DEF IInv, HistoryTyped
<1>5. SUFFICES ASSUME NEW id \in DOMAIN topology, topology[id] # None,
                      topology'[id] # None, topology'[id].n > 0
               PROVE  topology'[id].n >= topology[id].n
  BY DEF Advances
<1>6. CASE id = i
  <2>1. topology'[id].n = Kept
    BY <1>1, <1>2, <1>5, <1>6
  <2>2. QED
    BY <1>2, <1>3, <1>4, <1>5, <2>1
<1>7. CASE id # i
  BY <1>1, <1>3, <1>5, <1>7
<1>8. QED
  BY <1>6, <1>7

\* A step that leaves what it keeps as it is.
LEMMA SameAdvances ==
    ASSUME IInv, \A id \in DOMAIN topology \cap DOMAIN topology' : topology'[id] = topology[id]
    PROVE  Advances
<1>1. \A id \in DOMAIN topology : topology[id] # None => topology[id].n \in Nat
  BY TypeParts DEF IInv, RegistryTyped, Topologies, Answers
<1>2. QED
  BY <1>1 DEF Advances

\* An answered map is kept last.
LEMMA AnsweredAdvances ==
    ASSUME IInv, NEW r \in Requests, Answered(r)
    PROVE  Advances
<1>1. CASE order[r].op = "refresh"
  <2>1. topology' = Put(topology, order[r].id, [broker |-> broker[r], n |-> Kept + 1])
    BY <1>1 DEF Answered, Keeps, Field, Kept
  <2>2. /\ topology'[order[r].id].n = Kept + 1
        /\ \A id \in DOMAIN topology : id # order[r].id => topology'[id] = topology[id]
    BY <2>1 DEF Put
  <2>3. \A id \in DOMAIN topology : topology[id] # None =>
            topology[id].n \in Nat /\ topology[id].n <= Kept
    BY TypeParts DEF IInv, Registry, LastIsNewest, RegistryTyped, Topologies, Answers
  <2>4. Kept \in Nat
    BY TypeParts DEF IInv, HistoryTyped
  <2>5. \A id \in DOMAIN topology : topology[id] # None =>
            topology'[id] = topology[id] \/ topology'[id].n >= topology[id].n
    BY <2>2, <2>3, <2>4
  <2>6. QED
    BY <2>3, <2>5 DEF Advances
<1>2. CASE order[r].op # "refresh"
  <2>1. topology' = topology
    BY <1>2 DEF Answered, Keeps
  <2>2. QED
    BY <2>1, SameAdvances
<1>3. QED
  BY <1>1, <1>2

\* Removing drops a state or leaves it.
LEMMA RemovesAdvances ==
    ASSUME IInv, NEW i, Removes(i)
    PROVE  Advances
<1>1. topology' = topology \/ topology' = Without(topology, i)
  BY DEF Removes
<1>2. \A id \in DOMAIN topology \cap DOMAIN topology' : topology'[id] = topology[id]
  BY <1>1 DEF Without
<1>3. QED
  BY <1>2, SameAdvances

\* So every step of the sidecar advances.
LEMMA StepAdvances == IInv /\ [Next]_vars => Advances
<1> SUFFICES ASSUME IInv, [Next]_vars PROVE Advances
  OBVIOUS
<1>1. CASE UNCHANGED vars
  BY <1>1, SameAdvances DEF vars, registry
<1>2. CASE Crash
  <2>1. DOMAIN topology' = {}
    BY <1>2 DEF Crash, Nowhere
  <2>2. QED
    BY <2>1 DEF Advances
<1>3. CASE \E r \in Requests : Handler(r)
  <2> SUFFICES ASSUME NEW r \in Requests, Handler(r) PROVE Advances
    BY <1>3
  <2>1. CASE Configure(r) \/ SyncApplies(r)
    BY <2>1, AppliesAdvances DEF Configure, SyncApplies
  <2>2. CASE Deconfigure(r) \/ SyncRemoves(r)
    <3>1. UNCHANGED registry \/ \E i \in Ids \cup removing[r] \cup {order[r].id} : Removes(i)
      BY <2>2 DEF Deconfigure, SyncRemoves
    <3>2. QED
      BY <3>1, RemovesAdvances, SameAdvances DEF registry
  <2>3. CASE Answered(r)
    BY <2>3, AnsweredAdvances
  <2>4. CASE Sync(r) \/ SyncEnds(r) \/ NoSettings(r) \/ DryRun(r) \/ Ask(r) \/ Scans(r)
           \/ AskFails(r)
    <3>1. topology' = topology
      BY <2>4 DEF Sync, SyncEnds, NoSettings, DryRun, Ask, Scans, AskFails, registry
    <3>2. QED
      BY <3>1, SameAdvances
  <2>5. QED
    BY <2>1, <2>2, <2>3, <2>4 DEF Handler
<1>4. QED
  BY <1>1, <1>2, <1>3 DEF Next

\* Maps that are kept stay as they were kept.
LEMMA MapsGrow ==
    ASSUME IInv, [Next]_vars
    PROVE  \A i \in 1 .. Kept : maps'[i] = maps[i]
<1> DEFINE Maps == [scan: Nat, began: Nat]
<1>1. maps \in Seq(Maps)
  BY TypeParts DEF IInv, CallsTyped
<1>2. maps' = maps \/ \E map : maps' = Append(maps, map)
  BY DEF Next, Handler, vars, handlers, history, calls, Configure, Deconfigure, Sync,
         SyncRemoves, SyncApplies, SyncEnds, NoSettings, DryRun, Ask, Scans, Answered,
         AskFails, Crash
<1>3. CASE \E map : maps' = Append(maps, map)
  <2>1. PICK map : maps' = Append(maps, map)
    BY <1>3
  <2>2. \A i \in 1 .. Len(maps) : Append(maps, map)[i] = maps[i]
    BY <1>1
  <2>3. QED
    BY <2>1, <2>2 DEF Kept
<1>4. QED
  BY <1>2, <1>3

\* What EarlierScansAreLateAnswers says of a step.
GoesBackLate ==
    \A id \in DOMAIN topology \cap DOMAIN topology' :
        /\ topology[id] # None /\ topology[id].n > 0
        /\ topology'[id] # None /\ topology'[id].n > 0
        => LET before == topology[id].n
               after == topology'[id].n
           IN maps'[after].scan < maps[before].scan =>
                  maps'[after].began < before /\ before < after

\* Had the later map's call begun after the earlier map was kept, its scan would be later.
LEMMA StepGoesBackLate == IInv /\ [Next]_vars => GoesBackLate
<1> SUFFICES ASSUME IInv, [Next]_vars, NEW id \in DOMAIN topology \cap DOMAIN topology',
                    topology[id] # None, topology[id].n > 0,
                    topology'[id] # None, topology'[id].n > 0,
                    maps'[topology'[id].n].scan < maps[topology[id].n].scan
             PROVE  /\ maps'[topology'[id].n].began < topology[id].n
                    /\ topology[id].n < topology'[id].n
  BY DEF GoesBackLate
<1> DEFINE before == topology[id].n
           after == topology'[id].n
<1>1. IInv'
  BY StepIInv
<1>2. /\ before \in Nat /\ before > 0 /\ before <= Kept /\ Kept \in Nat
      /\ after \in Nat /\ after > 0 /\ after <= Kept' /\ Kept' \in Nat
  <2>1. topology[id] \in Answers /\ before <= Kept /\ Kept \in Nat
    BY TypeParts DEF IInv, RegistryTyped, Topologies, HistoryTyped, Registry, LastIsNewest
  <2>2. topology'[id] \in Answers /\ after <= Kept' /\ Kept' \in Nat
    BY <1>1 DEF IInv, TypeOK, Registry, LastIsNewest, Kept
  <2>3. QED
    BY <2>1, <2>2 DEF Answers
<1>3. before <= after
  BY StepAdvances DEF Advances
<1>4. maps'[before] = maps[before]
  BY <1>2, MapsGrow
<1>5. /\ maps[before].scan \in Nat
      /\ maps'[after].scan \in Nat /\ maps'[after].began \in Nat
  <2>1. \A i \in 1 .. Kept : maps[i].scan \in Nat /\ maps[i].began \in Nat
    BY MapsTyped, TypeParts DEF IInv
  <2>2. CallsTyped'
    BY <1>1 DEF IInv, TypeOK, CallsTyped
  <2>3. \A i \in 1 .. Kept' : maps'[i].scan \in Nat /\ maps'[i].began \in Nat
    <3>1. \A i \in 1 .. Len(maps') : maps'[i] \in [scan: Nat, began: Nat]
      BY <2>2, EntryTyped, Zenon DEF CallsTyped
    <3>2. QED
      BY <3>1 DEF Kept
  <2>4. QED
    BY <1>2, <2>1, <2>3
<1> HIDE DEF before, after
<1>6. before # after
  BY <1>4, <1>5 DEF before, after
<1>7. \A k \in 1 .. maps'[after].began : maps'[k].scan < maps'[after].scan
  BY <1>1, <1>2 DEF IInv, ScansInOrder
<1>8. maps'[after].began < before
  <2> SUFFICES ASSUME maps'[after].began >= before PROVE FALSE
    BY <1>2, <1>5
  <2>1. before \in 1 .. maps'[after].began
    BY <1>2, <1>5
  <2>2. maps'[before].scan < maps'[after].scan
    BY <1>7, <2>1
  <2>3. QED
    BY <1>4, <1>5, <2>2 DEF before, after
<1>9. QED
  BY <1>2, <1>3, <1>6, <1>8 DEF before, after

(***************************************************************************)
(* Theorems.                                                               *)
(***************************************************************************)

\* Every behaviour of the sidecar keeps the inductive invariant.
THEOREM Invariance == Spec => []IInv
BY InitIInv, StepIInv, PTL DEF Spec

\* Every variable keeps its type.
THEOREM TypeCorrect == Spec => []TypeOK
<1>1. IInv => TypeOK
  BY DEF IInv
<1>2. QED
  BY <1>1, Invariance, PTL

\* The last event about a configuration says whether it is registered (state.py:86
\* and 118), through failing writes and whatever overlaps.
THEOREM EventsAreTrue == Spec => []EventsMatchRegistry
<1>1. IInv => EventsMatchRegistry
  BY DEF IInv, Registry
<1>2. QED
  BY <1>1, Invariance, PTL

\* The store's configuration is the one in configuration.yaml (state.py:99-111).
THEOREM StoreDescribesFile == Spec => []CurrentMatchesFile
<1>1. IInv => CurrentMatchesFile
  BY DEF IInv, Registry
<1>2. QED
  BY <1>1, Invariance, PTL

\* What a command has scanned stays published while its configuration is
\* registered, or one kept later does (commands.py:57-63, state.py:71-85).
THEOREM RefreshesAreShown == Spec => []RefreshIsShown
<1>1. IInv => RefreshIsShown
  BY DEF IInv, Registry
<1>2. QED
  BY <1>1, Invariance, PTL

\* An undisturbed sync leaves its snapshot registered (config.py:42-52).
THEOREM SyncsLeaveSnapshots == Spec => []SyncLeavesSnapshot
BY DoneSyncs, Invariance, PTL

\* A published map gives way to an earlier scan only for a call that was under way when
\* that map was kept and was answered after it (commands.py:53-63, state.py:71-85), in
\* any number of requests, syncs, failures and crashes.
THEOREM OnlyLateAnswersGoBack == Spec => EarlierScansAreLateAnswers
<1>1. IInv /\ [Next]_vars => [GoesBackLate]_topology
  BY StepGoesBackLate
<1>2. QED
  BY <1>1, Invariance, PTL DEF Spec, EarlierScansAreLateAnswers, GoesBackLate
=============================================================================
