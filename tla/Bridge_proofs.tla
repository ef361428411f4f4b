---------------------------- MODULE Bridge_proofs ---------------------------
(***************************************************************************)
(* The bridge, proved for every set of requests, orders, configurations    *)
(* and paths, both supervisors and any number of failures: the variables   *)
(* keep their types, a confirmed restart came after the write it was for,  *)
(* the running Zigbee2MQTT shows the file the last confirmed apply wrote,  *)
(* no command breaks the restart policy, and what nothing overlapped or    *)
(* failed is shown as it is.  Every resumption brings a handler nearer to  *)
(* its end, and all steps together implement BridgeService.                *)
(***************************************************************************)
EXTENDS Bridge, TLAPS

(***************************************************************************)
(* Type correctness, from lemmas about the pieces of the handlers.         *)
(***************************************************************************)

OrdersTyped == order \in [Requests -> Orders]

\* What a request may ask for, field by field.
LEMMA OrderFields ==
    ASSUME OrdersTyped, NEW r \in Requests
    PROVE  /\ order[r] \in Orders
           /\ order[r].op \in Ops
           /\ order[r].config \in Configs
           /\ order[r].path \in Paths \cup {NoPath}
           /\ order[r].policy \in Policies
           /\ order[r].op \in Writers => order[r].path \in Paths
BY BridgeAssumption DEF BridgeAssumption, OrdersTyped, OrderType

\* The store of a fresh process has its type.
LEMMA EmptyStoreType == EmptyStore \in Stores
BY DEF EmptyStore, Stores, Report, Reports, Statuses, Probes

\* Recording a configuration keeps the store's type.
LEMMA RecordedType ==
    ASSUME OrdersTyped, NEW r \in Requests, NEW s \in Stores
    PROVE  Recorded(r, s) \in Stores
BY OrderFields DEF Recorded, Stores

\* supervise() is called with an action it knows.
LEMMA ActionType ==
    ASSUME OrdersTyped, NEW r \in Requests
    PROVE  Action(r) \in Ops
BY OrderFields DEF Action, Ops

\* A report made without running a command has its type.
LEMMA ImmediateReportType ==
    ASSUME OrdersTyped, NEW r \in Requests
    PROVE  ImmediateReport(r) \in Reports
BY ActionType DEF ImmediateReport, Report, Reports, Statuses

\* So has the report of a command that ran.
LEMMA ActReportType ==
    ASSUME OrdersTyped, NEW r \in Requests, NEW ok \in BOOLEAN
    PROVE  ActReport(r, ok) \in Reports
BY ActionType DEF ActReport, Report, Reports, Statuses, Up

\* A stored report leaves the store well typed ...
LEMMA ReportStored ==
    ASSUME NEW s \in Stores, NEW report \in Reports
    PROVE  [s EXCEPT !.supervisor = report] \in Stores
BY DEF Stores

\* ... and so does a stored probe of the broker.
LEMMA ProbeStored ==
    ASSUME NEW s \in Stores, NEW status \in Probes
    PROVE  [s EXCEPT !.check = status] \in Stores
BY DEF Stores

PcType == pc \in [Requests -> {"idle"} \cup Suspended \cup Ended]
ReplyType == reply \in [Requests -> BOOLEAN]
CliType == cli \in [Requests -> Commands \cup {"none", "zero", "nonzero"}]

\* What the handlers' tails leave behind.
HandlersTyped == PcType /\ ReplyType /\ CliType /\ store \in Stores

\* A handler that moves on to a known step keeps pc and reply typed.
LEMMA GotoType ==
    ASSUME PcType, ReplyType, NEW r \in Requests, NEW ok \in BOOLEAN,
           NEW step \in {"idle"} \cup Suspended \cup Ended, Goto(r, step, ok)
    PROVE  PcType' /\ ReplyType'
BY DEF PcType, ReplyType, Goto

\* The tail of apply_bridge keeps the handlers' types.
LEMMA ProbeType ==
    ASSUME OrdersTyped, HandlersTyped, NEW r \in Requests, NEW s \in Stores,
           NEW ok \in BOOLEAN, Probe(r, s, ok)
    PROVE  PcType' /\ ReplyType' /\ store' \in Stores
<1>1. CASE store' = s /\ Goto(r, "probe", ok)
  BY <1>1, GotoType DEF HandlersTyped, Suspended
<1>2. CASE store' = s /\ Goto(r, "failed", FALSE)
  BY <1>2, GotoType DEF HandlersTyped, Ended
<1>3. CASE store' = Recorded(r, s) /\ Goto(r, "done", ok)
  BY <1>3, GotoType, RecordedType DEF HandlersTyped, Ended
<1>4. CASE store' = Recorded(r, [s EXCEPT !.check = "planned"]) /\ Goto(r, "done", ok)
  <2>1. [s EXCEPT !.check = "planned"] \in Stores
    BY ProbeStored DEF Probes
  <2>2. QED
    BY <1>4, <2>1, GotoType, RecordedType DEF HandlersTyped, Ended
<1>5. QED
  BY <1>1, <1>2, <1>3, <1>4 DEF Probe

\* So does taking the supervisor's answer.
LEMMA SupervisedType ==
    ASSUME OrdersTyped, HandlersTyped, NEW r \in Requests, NEW report \in Reports,
           Supervised(r, report)
    PROVE  PcType' /\ ReplyType' /\ store' \in Stores
<1> DEFINE s == [store EXCEPT !.supervisor = report]
<1>1. s \in Stores
  BY ReportStored DEF HandlersTyped
<1>2. report.ok \in BOOLEAN
  BY DEF Reports
<1>3. CASE order[r].op = "apply"
  <2>1. Probe(r, s, report.ok)
    BY <1>3 DEF Supervised
  <2>2. QED
    BY <1>1, <1>2, <2>1, ProbeType
<1>4. CASE order[r].op # "apply"
  <2>1. store' = s /\ Goto(r, "done", report.ok)
    BY <1>4 DEF Supervised
  <2>2. QED
    BY <1>1, <1>2, <2>1, GotoType DEF HandlersTyped, Ended
<1>5. QED
  BY <1>3, <1>4

\* The requests that run command lines.
SupervisedOps == {"apply", "start", "stop", "restart", "status", "logs"}

\* So does calling the supervisor.
LEMMA SuperviseType ==
    ASSUME OrdersTyped, HandlersTyped, NEW r \in Requests,
           order[r].op \in SupervisedOps,
           Supervise(r)
    PROVE  HandlersTyped'
<1>1. CASE Supervised(r, ImmediateReport(r)) /\ UNCHANGED cli
  BY <1>1, ImmediateReportType, SupervisedType DEF HandlersTyped, CliType
<1>2. CASE Goto(r, "inspect", FALSE) /\ UNCHANGED <<store, cli>>
  BY <1>2, GotoType DEF HandlersTyped, CliType, Suspended
<1>3. CASE /\ Action(r) # "status"
           /\ Goto(r, "act", FALSE)
           /\ cli' = [cli EXCEPT ![r] = Pm2Command(Action(r))]
           /\ UNCHANGED store
  <2>1. Pm2Command(Action(r)) \in Commands
    BY <1>3 DEF Pm2Command, Action, Commands, SupervisedOps
  <2>2. QED
    BY <1>3, <2>1, GotoType DEF HandlersTyped, CliType, Suspended
<1>4. QED
  BY <1>1, <1>2, <1>3 DEF Supervise

\* So does going on from what inspect said.
LEMMA InspectedType ==
    ASSUME OrdersTyped, HandlersTyped, NEW r \in Requests, NEW status \in Statuses,
           order[r].op \in SupervisedOps,
           Inspected(r, status)
    PROVE  HandlersTyped'
<1>1. CASE Action(r) = "status"
  <2>1. Report("status", status # "missing", status) \in Reports
    BY DEF Report, Reports, Ops
  <2>2. Supervised(r, Report("status", status # "missing", status)) /\ UNCHANGED cli
    BY <1>1 DEF Inspected
  <2>3. QED
    BY <2>1, <2>2, SupervisedType DEF HandlersTyped, CliType
<1>2. CASE Action(r) # "status"
  <2>1. /\ Goto(r, "act", FALSE)
        /\ cli' = [cli EXCEPT ![r] = CommandFor(Action(r), status = "missing")]
        /\ UNCHANGED store
    BY <1>2 DEF Inspected
  <2>2. CommandFor(Action(r), status = "missing") \in Commands
    BY <1>2 DEF CommandFor, Action, Commands, SupervisedOps
  <2>3. QED
    BY <2>1, <2>2, GotoType DEF HandlersTyped, CliType, Suspended
<1>3. QED
  BY <1>1, <1>2

\* A write keeps files and their history typed.
LEMMA WriteFileType ==
    ASSUME OrdersTyped, NEW r \in Requests, order[r].op \in Writers, WriteFile(r),
           file \in [Paths -> Configs \cup {NoConfig}],
           changer \in [Paths -> Requests \cup {NoRequest}],
           effective \in SUBSET Requests, armed \in SUBSET Requests
    PROVE  /\ file' \in [Paths -> Configs \cup {NoConfig}]
           /\ changer' \in [Paths -> Requests \cup {NoRequest}]
           /\ effective' \in SUBSET Requests /\ armed' \in SUBSET Requests
<1>1. order[r].path \in Paths /\ order[r].config \in Configs
  BY OrderFields
<1>2. QED
  BY <1>1 DEF WriteFile

\* A failure stays within the bound.
LEMMA FaultType ==
    ASSUME faults \in 0 .. MaxFaults, Fault
    PROVE  faults' \in 0 .. MaxFaults /\ calm' \in BOOLEAN
<1>1. faults < MaxFaults /\ faults' = faults + 1 /\ calm' = FALSE
  BY DEF Fault
<1>2. MaxFaults \in Nat /\ faults \in Nat
  BY BridgeAssumption DEF BridgeAssumption
<1>3. faults' \in 0 .. MaxFaults
  BY <1>1, <1>2
<1>4. QED
  BY <1>1, <1>3

\* A crash of the sidecar leaves typed handlers and an empty store.
LEMMA LoseAllType ==
    ASSUME PcType, NEW also \in SUBSET Requests, LoseAll(also)
    PROVE  PcType' /\ store' \in Stores
BY EmptyStoreType DEF LoseAll, PcType, Ended

\* The handlers that await a command belong to requests that run commands.
HandlerOps ==
    \A r \in Requests : pc[r] \in {"inspect", "act"} => order[r].op \in SupervisedOps

\* The initial states are typed.
LEMMA InitType == Init => TypeOK /\ HandlerOps
<1> SUFFICES ASSUME Init PROVE TypeOK /\ HandlerOps
  OBVIOUS
<1>1. store \in Stores
  BY EmptyStoreType DEF Init
<1>2. faults \in 0 .. MaxFaults
  BY BridgeAssumption DEF BridgeAssumption, Init
<1>3. process \in Processes
  BY DEF Init, Processes
<1>4. QED
  BY <1>1, <1>2, <1>3 DEF Init, TypeOK, HandlerOps, Commands

\* Every step keeps every variable's type.
LEMMA StepType == TypeOK /\ HandlerOps /\ [Next]_vars => TypeOK'
<1> SUFFICES ASSUME TypeOK, HandlerOps, [Next]_vars PROVE TypeOK'
  OBVIOUS
<1>a. OrdersTyped /\ HandlersTyped
  BY DEF TypeOK, OrdersTyped, HandlersTyped, PcType, ReplyType, CliType
<1>b. ASSUME HandlersTyped', faults' \in 0 .. MaxFaults, calm' \in BOOLEAN,
             UNCHANGED <<file, changer, effective, armed, order, required, process, fresh>>
      PROVE  TypeOK'
  BY <1>b DEF TypeOK, HandlersTyped, PcType, ReplyType, CliType
<1>1. ASSUME NEW r \in Requests, RenderConfig(r) PROVE TypeOK'
  <2>1. store' \in Stores
    BY <1>a, <1>1, RecordedType DEF RenderConfig, HandlersTyped
  <2>2. PcType' /\ ReplyType'
    BY <1>a, <1>1, GotoType DEF RenderConfig, HandlersTyped, Ended
  <2>3. QED
    BY <1>1, <1>b, <2>1, <2>2 DEF RenderConfig, Arrives, files, machine, TypeOK, HandlersTyped, CliType
<1>2. ASSUME NEW r \in Requests, WriteConfig(r) PROVE TypeOK'
  <2>1. store' \in Stores
    BY <1>a, <1>2, RecordedType DEF WriteConfig, HandlersTyped
  <2>2. PcType' /\ ReplyType'
    BY <1>a, <1>2, GotoType DEF WriteConfig, HandlersTyped, Ended
  <2>3. /\ file' \in [Paths -> Configs \cup {NoConfig}]
        /\ changer' \in [Paths -> Requests \cup {NoRequest}]
        /\ effective' \in SUBSET Requests /\ armed' \in SUBSET Requests
    BY <1>a, <1>2, WriteFileType DEF WriteConfig, Arrives, Writers, TypeOK
  <2>4. QED
    BY <1>2, <2>1, <2>2, <2>3 DEF WriteConfig, Arrives, machine, TypeOK, PcType, ReplyType
<1>3. ASSUME NEW r \in Requests, ApplyBridge(r) PROVE TypeOK'
  <2> DEFINE needed == RestartRequired(order[r].policy, file[order[r].path] # order[r].config)
  <2>1. needed \in BOOLEAN
    BY DEF RestartRequired
  <2>2. /\ file' \in [Paths -> Configs \cup {NoConfig}]
        /\ changer' \in [Paths -> Requests \cup {NoRequest}]
        /\ effective' \in SUBSET Requests /\ armed' \in SUBSET Requests
    BY <1>a, <1>3, WriteFileType DEF ApplyBridge, Arrives, Writers, TypeOK
  <2>3. HandlersTyped'
    <3>1. CASE Supervise(r)
      BY <1>a, <1>3, <3>1, SuperviseType DEF ApplyBridge, Arrives, SupervisedOps
    <3>2. CASE Probe(r, store, TRUE) /\ UNCHANGED cli
      BY <1>a, <3>2, ProbeType DEF HandlersTyped, CliType
    <3>3. QED
      BY <1>3, <3>1, <3>2 DEF ApplyBridge
  <2>4. required' = [required EXCEPT ![r] = needed] /\ UNCHANGED <<order, machine, faults>> /\ calm' \in BOOLEAN
    BY <1>3 DEF ApplyBridge, Arrives, TypeOK
  <2>5. QED
    BY <2>1, <2>2, <2>3, <2>4 DEF machine, TypeOK, HandlersTyped, PcType, ReplyType, CliType
<1>4. ASSUME NEW r \in Requests, WriteFails(r) PROVE TypeOK'
  <2>1. store' \in Stores
    BY <1>4 DEF WriteFails, TypeOK, Stores
  <2>2. PcType' /\ ReplyType'
    BY <1>a, <1>4, GotoType DEF WriteFails, HandlersTyped, Ended
  <2>3. QED
    BY <1>4, <1>b, <2>1, <2>2, FaultType DEF WriteFails, files, machine, TypeOK, HandlersTyped, CliType
<1>5. ASSUME NEW r \in Requests, SupervisorRoute(r) PROVE TypeOK'
  <2>1. HandlersTyped'
    BY <1>a, <1>5, SuperviseType DEF SupervisorRoute, Arrives, SupervisedOps
  <2>2. QED
    BY <1>5, <2>1 DEF SupervisorRoute, Arrives, files, machine, TypeOK, HandlersTyped, PcType, ReplyType, CliType
<1>6. ASSUME NEW r \in Requests, MqttCheck(r) PROVE TypeOK'
  <2>1. store' \in Stores
    BY <1>a, <1>6, ProbeStored DEF MqttCheck, HandlersTyped, Probes
  <2>2. PcType' /\ ReplyType'
    <3>1. CASE Goto(r, "probe", TRUE)
      BY <1>a, <3>1, GotoType DEF HandlersTyped, Suspended
    <3>2. CASE Goto(r, "failed", FALSE)
      BY <1>a, <3>2, GotoType DEF HandlersTyped, Ended
    <3>3. CASE Goto(r, "done", TRUE)
      BY <1>a, <3>3, GotoType DEF HandlersTyped, Ended
    <3>4. QED
      BY <1>6, <3>1, <3>2, <3>3 DEF MqttCheck
  <2>3. QED
    BY <1>6, <1>b, <2>1, <2>2 DEF MqttCheck, Arrives, files, machine, TypeOK, HandlersTyped, CliType
<1>7. ASSUME NEW r \in Requests, InspectAnswers(r) PROVE TypeOK'
  <2>1. PICK status \in Observed : Inspected(r, status)
    BY <1>7 DEF InspectAnswers
  <2>2. status \in Statuses
    BY DEF Observed, Statuses, TypeOK, Processes
  <2>3. HandlersTyped'
    BY <1>a, <1>7, <2>1, <2>2, InspectedType DEF InspectAnswers, HandlerOps
  <2>4. QED
    BY <1>7, <1>b, <2>3 DEF InspectAnswers, files, machine, TypeOK
<1>8. ASSUME NEW r \in Requests, InspectFails(r) PROVE TypeOK'
  <2>1. HandlersTyped'
    BY <1>a, <1>8, InspectedType DEF InspectFails, HandlerOps, Statuses
  <2>2. QED
    BY <1>8, <1>b, <2>1 DEF InspectFails, files, machine, TypeOK
<1>9. ASSUME NEW r \in Requests, ActReturns(r) PROVE TypeOK'
  <2>1. PcType' /\ ReplyType' /\ store' \in Stores
    BY <1>a, <1>9, ActReportType, SupervisedType DEF ActReturns
  <2>2. QED
    BY <1>9, <1>b, <2>1 DEF ActReturns, files, machine, TypeOK, HandlersTyped, CliType
<1>10. ASSUME NEW r \in Requests, ActTimesOut(r) PROVE TypeOK'
  <2>1. PcType' /\ ReplyType' /\ store' \in Stores
    BY <1>a, <1>10, ActReportType, SupervisedType DEF ActTimesOut
  <2>2. QED
    BY <1>10, <1>b, <2>1 DEF ActTimesOut, files, machine, TypeOK, HandlersTyped, CliType
<1>11. ASSUME NEW r \in Requests, SpawnFails(r) PROVE TypeOK'
  <2>1. PcType' /\ ReplyType'
    BY <1>a, <1>11, GotoType DEF SpawnFails, HandlersTyped, Ended
  <2>2. QED
    BY <1>11, <1>b, <2>1, FaultType DEF SpawnFails, files, machine, TypeOK, HandlersTyped, CliType
<1>12. ASSUME NEW r \in Requests, ProbeReturns(r) PROVE TypeOK'
  <2>1. PICK reachable \in BOOLEAN :
          LET s == [store EXCEPT !.check = IF reachable THEN "reachable" ELSE "unreachable"] IN
          /\ store' = IF order[r].op = "apply" THEN Recorded(r, s) ELSE s
          /\ Goto(r, "done", reply[r] /\ reachable)
    BY <1>12 DEF ProbeReturns
  <2>2. [store EXCEPT !.check = IF reachable THEN "reachable" ELSE "unreachable"] \in Stores
    BY <1>a, ProbeStored DEF HandlersTyped, Probes
  <2>3. store' \in Stores
    BY <1>a, <2>1, <2>2, RecordedType
  <2>4. PcType' /\ ReplyType'
    BY <1>a, <2>1, GotoType DEF HandlersTyped, ReplyType, Ended
  <2>5. QED
    BY <1>12, <1>b, <2>3, <2>4 DEF ProbeReturns, files, machine, TypeOK, HandlersTyped, CliType
<1>13. ASSUME NEW r \in Requests, DaemonPerforms(r) PROVE TypeOK'
  <2>1. cli' \in [Requests -> Commands \cup {"none", "zero", "nonzero"}]
    BY <1>13 DEF DaemonPerforms, Returns, TypeOK, Commands
  <2>2. process' \in Processes /\ fresh' \in SUBSET Requests
    BY <1>13 DEF DaemonPerforms, Starts, Stops, machine, TypeOK, Processes
  <2>3. QED
    BY <1>13, <2>1, <2>2 DEF DaemonPerforms, files, TypeOK
<1>14. ASSUME NEW r \in Requests, CommandFails(r) PROVE TypeOK'
  BY <1>14, FaultType DEF CommandFails, Returns, files, machine, TypeOK
<1>15. ASSUME NEW r \in Requests, CommandDropped(r) PROVE TypeOK'
  BY <1>15 DEF CommandDropped, Returns, files, machine, TypeOK
<1>16. CASE Boots
  <2>1. file[Mounted] \in Configs \cup {NoConfig}
    BY BridgeAssumption DEF BridgeAssumption, TypeOK
  <2>2. process' \in Processes
    BY <1>16, <2>1 DEF Boots, TypeOK, Processes
  <2>3. QED
    BY <1>16, <2>2 DEF Boots, files, TypeOK
<1>17. CASE ProcessDies
  BY <1>17, FaultType DEF ProcessDies, Stops, files, TypeOK, Processes
<1>18. CASE ProcessRestarts
  BY <1>18 DEF ProcessRestarts, Starts, files, TypeOK, Processes
<1>19. CASE Crash
  <2>1. PcType' /\ store' \in Stores
    BY <1>a, <1>19, LoseAllType DEF Crash, HandlersTyped
  <2>2. QED
    BY <1>19, <1>b, <2>1, FaultType DEF Crash, files, machine, TypeOK, HandlersTyped, ReplyType, CliType
<1>20. ASSUME NEW r \in Requests, CrashInWrite(r) PROVE TypeOK'
  <2>1. PcType' /\ store' \in Stores
    BY <1>a, <1>20, LoseAllType DEF CrashInWrite, HandlersTyped
  <2>2. /\ file' \in [Paths -> Configs \cup {NoConfig}]
        /\ changer' \in [Paths -> Requests \cup {NoRequest}]
        /\ effective' \in SUBSET Requests /\ armed' \in SUBSET Requests
    BY <1>a, <1>20, WriteFileType DEF CrashInWrite, TypeOK
  <2>3. QED
    BY <1>20, <2>1, <2>2, FaultType DEF CrashInWrite, machine, TypeOK, PcType
<1>21. CASE UNCHANGED vars
  BY <1>21 DEF vars, TypeOK
<1>22. QED
  BY <1>1, <1>2, <1>3, <1>4, <1>5, <1>6, <1>7, <1>8, <1>9, <1>10, <1>11, <1>12,
     <1>13, <1>14, <1>15, <1>16, <1>17, <1>18, <1>19, <1>20, <1>21
     DEF Next, Arrival, Resume, Failure

(***************************************************************************)
(* The strengthening.  fresh only ever grows to armed, and a request is    *)
(* armed by its write; so a command line that reports success for a restart*)
(* has to have stopped or created the process itself, or found that someone*)
(* started it after that stop.                                             *)
(***************************************************************************)

Restarting(r) == order[r].op \in {"apply", "restart"}

\* A restart r has to see confirmed.
Asked(r) == order[r].sup = "live" /\ (order[r].op = "apply" => required[r])

Tracked(r) ==
    /\ pc[r] = "idle" => r \notin armed /\ cli[r] = "none"
    /\ pc[r] \in {"inspect", "act"} => order[r].op \in SupervisedOps
    /\ Restarting(r) =>
        /\ (cli[r] # "none" \/ pc[r] \in Suspended \cup {"done"}) => r \in armed
        /\ cli[r] \in {"none", "run", "restart", "starting", "zero", "nonzero"}
        /\ (cli[r] = "starting" /\ process.state = "running") => r \in fresh
        /\ cli[r] = "zero" => r \in fresh
        /\ (Asked(r) /\ pc[r] \in {"probe", "done"} /\ reply[r]) => r \in fresh

FreshArmed == fresh \subseteq armed

\* A process that booted after the last change of its file runs on that file.
BootedCurrent ==
    (process.state = "running" /\ process.loaded # Unread
        /\ changer[Mounted] \in fresh \cup {NoRequest})
    => process.loaded = file[Mounted]

IInv ==
    /\ TypeOK
    /\ \A r \in Requests : Tracked(r)
    /\ FreshArmed
    /\ BootedCurrent

\* The invariant holds initially: nobody has written or restarted anything.
LEMMA InitIInv == Init => IInv
<1> SUFFICES ASSUME Init PROVE IInv
  OBVIOUS
<1>1. TypeOK
  BY InitType
<1>2. ASSUME NEW r \in Requests PROVE Tracked(r)
  BY DEF Init, Tracked, Suspended
<1>3. FreshArmed /\ BootedCurrent
  BY DEF Init, FreshArmed, BootedCurrent
<1>4. QED
  BY <1>1, <1>2, <1>3 DEF IInv

\* The invariant says which requests await commands.
LEMMA TrackedOps == (\A r \in Requests : Tracked(r)) => HandlerOps
BY DEF Tracked, HandlerOps

\* A process that starts runs and has read nothing yet; one that stops does not run
\* (the daemon's steps in Bridge).
LEMMA ProcessMoves ==
    ASSUME TypeOK
    PROVE  /\ Starts => process'.state = "running" /\ process'.loaded = Unread /\ fresh' = armed
           /\ \A state \in {"exited", "crashed", "missing"} :
                Stops(state) => process'.state = state /\ fresh' = fresh
BY DEF Starts, Stops, TypeOK, Processes

\* What a step does to a request it is not a step of.
LEMMA OthersTracked ==
    ASSUME NEW q, Tracked(q),
           pc'[q] = pc[q], reply'[q] = reply[q], cli'[q] = cli[q],
           required'[q] = required[q], order' = order,
           fresh \subseteq fresh', armed \subseteq armed',
           q \in armed' => q \in armed,
           process'.state = "running" /\ process.state # "running" => fresh' = armed
    PROVE  Tracked(q)'
BY DEF Tracked, Restarting, Asked, Suspended

\* Where a handler goes once its supervisor has answered.
LEMMA ProbeGoes ==
    ASSUME NEW r, NEW s, NEW verdict \in BOOLEAN, Probe(r, s, verdict)
    PROVE  \E step \in {"probe", "done", "failed"}, ok \in BOOLEAN :
              Goto(r, step, ok) /\ (ok => verdict)
BY DEF Probe

\* The same, for every route that asks the supervisor.
LEMMA SupervisedGoes ==
    ASSUME NEW r, NEW report \in Reports, Supervised(r, report)
    PROVE  \E step \in {"probe", "done", "failed"}, ok \in BOOLEAN :
              Goto(r, step, ok) /\ (ok => report.ok)
<1>1. report.ok \in BOOLEAN
  BY DEF Reports
<1>2. CASE order[r].op = "apply"
  <2>1. Probe(r, [store EXCEPT !.supervisor = report], report.ok)
    BY <1>2 DEF Supervised
  <2>2. QED
    BY <1>1, <2>1, ProbeGoes
<1>3. CASE order[r].op # "apply"
  BY <1>1, <1>3 DEF Supervised
<1>4. QED
  BY <1>2, <1>3

\* Where the call of supervise() leads: only a dry run or missing settings answer
\* at once, and a restart is never carried out by a start.
LEMMA SuperviseGoes ==
    ASSUME TypeOK, NEW r \in Requests, Supervise(r)
    PROVE  \/ /\ order[r].sup # "live" /\ UNCHANGED cli
              /\ \E step \in {"probe", "done", "failed"}, ok \in BOOLEAN : Goto(r, step, ok)
           \/ /\ Goto(r, "inspect", FALSE) /\ UNCHANGED cli
           \/ /\ Goto(r, "act", FALSE)
              /\ \E command : /\ cli' = [cli EXCEPT ![r] = command]
                              /\ Restarting(r) => command = "restart"
<1>1. CASE /\ order[r].sup \in {"invalid", "dry"}
           /\ Supervised(r, ImmediateReport(r))
           /\ UNCHANGED cli
  <2>1. ImmediateReport(r) \in Reports
    BY ImmediateReportType DEF TypeOK, OrdersTyped
  <2>2. QED
    BY <1>1, <2>1, SupervisedGoes
<1>2. CASE Goto(r, "inspect", FALSE) /\ UNCHANGED <<store, cli>>
  BY <1>2
<1>3. CASE /\ Goto(r, "act", FALSE)
           /\ cli' = [cli EXCEPT ![r] = Pm2Command(Action(r))]
  <2>1. Restarting(r) => Pm2Command(Action(r)) = "restart"
    BY DEF Restarting, Action, Pm2Command
  <2>2. QED
    BY <1>3, <2>1
<1>4. QED
  BY <1>1, <1>2, <1>3 DEF Supervise

\* A write arms the request and leaves the others as armed as they were.
LEMMA WriteArms ==
    ASSUME NEW r, WriteFile(r)
    PROVE  armed' = armed \cup {r}
BY DEF WriteFile

\* Every step keeps track of every request: how far its restart has got, and
\* whether the last process start came after it was armed.
LEMMA StepTracked ==
    ASSUME IInv, [Next]_vars
    PROVE  \A q \in Requests : Tracked(q)'
<1>a. TypeOK /\ (\A q \in Requests : Tracked(q)) /\ FreshArmed
  BY DEF IInv
<1> USE <1>a
<1> DEFINE Others(r) == \A q \in Requests : q # r => Tracked(q)'
<1>1. ASSUME NEW r \in Requests, RenderConfig(r) \/ WriteConfig(r)
      PROVE  \A q \in Requests : Tracked(q)'
  <2>1. Others(r)
    BY <1>1, OthersTracked, WriteArms DEF RenderConfig, WriteConfig, machine, Goto, TypeOK
  <2>2. Tracked(r)'
    BY <1>1 DEF RenderConfig, WriteConfig, Arrives, machine, Goto, TypeOK, Tracked, Restarting
  <2>3. QED
    BY <2>1, <2>2
<1>2. ASSUME NEW r \in Requests, ApplyBridge(r)
      PROVE  \A q \in Requests : Tracked(q)'
  <2> DEFINE needed == RestartRequired(order[r].policy, file[order[r].path] # order[r].config)
  <2>1. /\ pc[r] = "idle" /\ order[r].op = "apply" /\ armed' = armed \cup {r}
        /\ required' = [required EXCEPT ![r] = needed]
        /\ UNCHANGED <<order, process, fresh>>
    BY <1>2, WriteArms DEF ApplyBridge, Arrives, machine
  <2>2. cli[r] = "none" /\ r \notin armed /\ r \notin fresh
    BY <2>1 DEF Tracked, FreshArmed
  <2>3. CASE order[r].sup # "live" /\ UNCHANGED cli
             /\ \E step \in {"probe", "done", "failed"}, ok \in BOOLEAN : Goto(r, step, ok)
    <3>1. Others(r)
      BY <2>1, <2>3, OthersTracked DEF Goto, TypeOK
    <3>2. Tracked(r)'
      BY <2>1, <2>2, <2>3 DEF Goto, TypeOK, Tracked, Restarting, Asked
    <3>3. QED
      BY <3>1, <3>2
  <2>4. CASE Goto(r, "inspect", FALSE) /\ UNCHANGED cli
    <3>1. Others(r)
      BY <2>1, <2>4, OthersTracked DEF Goto, TypeOK
    <3>2. Tracked(r)'
      BY <2>1, <2>2, <2>4 DEF Goto, TypeOK, Tracked, Restarting, SupervisedOps
    <3>3. QED
      BY <3>1, <3>2
  <2>5. CASE Goto(r, "act", FALSE)
             /\ \E command : /\ cli' = [cli EXCEPT ![r] = command]
                             /\ Restarting(r) => command = "restart"
    <3>1. cli' = [cli EXCEPT ![r] = "restart"]
      BY <2>1, <2>5 DEF Restarting
    <3>2. Others(r)
      BY <2>1, <2>5, <3>1, OthersTracked DEF Goto, TypeOK
    <3>3. Tracked(r)'
      BY <2>1, <2>5, <3>1 DEF Goto, TypeOK, Tracked, Restarting, SupervisedOps
    <3>4. QED
      BY <3>2, <3>3
  <2>6. CASE ~needed /\ Probe(r, store, TRUE) /\ UNCHANGED cli
    <3>1. \E step \in {"probe", "done", "failed"}, ok \in BOOLEAN : Goto(r, step, ok)
      BY <2>6, ProbeGoes
    <3>2. Others(r)
      BY <2>1, <2>6, <3>1, OthersTracked DEF Goto, TypeOK
    <3>3. Tracked(r)'
      BY <2>1, <2>2, <2>6, <3>1 DEF Goto, TypeOK, Tracked, Restarting, Asked
    <3>4. QED
      BY <3>2, <3>3
  <2>7. CASE order[r].sup = "none" /\ Probe(r, store, TRUE) /\ UNCHANGED cli
    <3>1. \E step \in {"probe", "done", "failed"}, ok \in BOOLEAN : Goto(r, step, ok)
      BY <2>7, ProbeGoes
    <3>2. QED
      BY <2>3, <2>7, <3>1
  <2>8. QED
    BY <1>2, <2>3, <2>4, <2>5, <2>6, <2>7, SuperviseGoes DEF ApplyBridge
<1>3. ASSUME NEW r \in Requests, WriteFails(r)
      PROVE  \A q \in Requests : Tracked(q)'
  <2>1. Others(r)
    BY <1>3, OthersTracked DEF WriteFails, machine, Goto, TypeOK
  <2>2. Tracked(r)'
    BY <1>3 DEF WriteFails, machine, Goto, TypeOK, Tracked, Suspended
  <2>3. QED
    BY <2>1, <2>2
<1>4. ASSUME NEW r \in Requests, SupervisorRoute(r)
      PROVE  \A q \in Requests : Tracked(q)'
  <2>1. /\ pc[r] = "idle" /\ order[r].op \in {"start", "stop", "restart", "status", "logs"}
        /\ armed' = IF order[r].op = "restart" THEN armed \cup {r} ELSE armed
        /\ UNCHANGED <<order, required, process, fresh>>
    BY <1>4 DEF SupervisorRoute, Arrives, machine
  <2>2. cli[r] = "none" /\ r \notin armed
    BY <2>1 DEF Tracked
  <2>3. CASE order[r].sup # "live" /\ UNCHANGED cli
             /\ \E step \in {"probe", "done", "failed"}, ok \in BOOLEAN : Goto(r, step, ok)
    <3>1. Others(r)
      BY <2>1, <2>3, OthersTracked DEF Goto, TypeOK
    <3>2. Tracked(r)'
      BY <2>1, <2>2, <2>3 DEF Goto, TypeOK, Tracked, Restarting, Asked
    <3>3. QED
      BY <3>1, <3>2
  <2>4. CASE Goto(r, "inspect", FALSE) /\ UNCHANGED cli
    <3>1. Others(r)
      BY <2>1, <2>4, OthersTracked DEF Goto, TypeOK
    <3>2. Tracked(r)'
      BY <2>1, <2>2, <2>4 DEF Goto, TypeOK, Tracked, Restarting, SupervisedOps
    <3>3. QED
      BY <3>1, <3>2
  <2>5. CASE Goto(r, "act", FALSE)
             /\ \E command : /\ cli' = [cli EXCEPT ![r] = command]
                             /\ Restarting(r) => command = "restart"
    <3>1. PICK command : /\ cli' = [cli EXCEPT ![r] = command]
                         /\ Restarting(r) => command = "restart"
      BY <2>5
    <3>2. Others(r)
      BY <2>1, <2>5, <3>1, OthersTracked DEF Goto, TypeOK
    <3>3. Tracked(r)'
      BY <2>1, <2>5, <3>1 DEF Goto, TypeOK, Tracked, Restarting, SupervisedOps
    <3>4. QED
      BY <3>2, <3>3
  <2>6. QED
    BY <1>4, <2>3, <2>4, <2>5, SuperviseGoes DEF SupervisorRoute
<1>5. ASSUME NEW r \in Requests, MqttCheck(r)
      PROVE  \A q \in Requests : Tracked(q)'
  <2>1. Others(r)
    BY <1>5, OthersTracked DEF MqttCheck, files, machine, Goto, TypeOK
  <2>2. Tracked(r)'
    BY <1>5 DEF MqttCheck, Arrives, files, machine, Goto, TypeOK, Tracked, Restarting
  <2>3. QED
    BY <2>1, <2>2
<1>6. ASSUME NEW r \in Requests, InspectAnswers(r) \/ InspectFails(r)
      PROVE  \A q \in Requests : Tracked(q)'
  <2>1. /\ pc[r] = "inspect" /\ \E status : Inspected(r, status)
        /\ UNCHANGED <<order, required, process, fresh, armed>>
    BY <1>6 DEF InspectAnswers, InspectFails, machine
  <2>2. PICK status : Inspected(r, status)
    BY <2>1
  <2>3. CASE order[r].op = "status"
    <3>1. /\ Goto(r, "done", status # "missing")
          /\ UNCHANGED cli
      BY <2>2, <2>3 DEF Inspected, Action, Supervised, Report
    <3>2. Others(r)
      BY <2>1, <3>1, OthersTracked DEF Goto, TypeOK
    <3>3. Tracked(r)'
      BY <2>1, <2>3, <3>1 DEF Goto, TypeOK, Tracked, Restarting
    <3>4. QED
      BY <3>2, <3>3
  <2>4. CASE order[r].op # "status"
    <3>1. /\ Goto(r, "act", FALSE)
          /\ cli' = [cli EXCEPT ![r] = CommandFor(Action(r), status = "missing")]
      BY <2>2, <2>4 DEF Inspected, Action
    <3>2. Restarting(r) => CommandFor(Action(r), status = "missing") \in {"run", "restart"}
      BY DEF Restarting, Action, CommandFor
    <3>3. Others(r)
      BY <2>1, <3>1, OthersTracked DEF Goto, TypeOK
    <3>4. Tracked(r)'
      BY <2>1, <3>1, <3>2 DEF Goto, TypeOK, Tracked, Restarting, Suspended
    <3>5. QED
      BY <3>3, <3>4
  <2>5. QED
    BY <2>3, <2>4
<1>7. ASSUME NEW r \in Requests, ActReturns(r) \/ ActTimesOut(r)
      PROVE  \A q \in Requests : Tracked(q)'
  <2>1. PICK verdict \in BOOLEAN : /\ Supervised(r, ActReport(r, verdict))
                                   /\ verdict => cli[r] = "zero"
    BY <1>7 DEF ActReturns, ActTimesOut
  <2>2. ActReport(r, verdict) \in Reports /\ ActReport(r, verdict).ok = verdict
    BY ActReportType DEF TypeOK, OrdersTyped, ActReport, Report
  <2>3. PICK step \in {"probe", "done", "failed"}, ok \in BOOLEAN :
              Goto(r, step, ok) /\ (ok => verdict)
    BY <2>1, <2>2, SupervisedGoes
  <2>4. /\ pc[r] = "act" /\ cli' \in {cli, [cli EXCEPT ![r] = "none"]}
        /\ UNCHANGED <<order, required, process, fresh, armed>>
    BY <1>7 DEF ActReturns, ActTimesOut, machine
  <2>5. Others(r)
    BY <2>3, <2>4, OthersTracked DEF Goto, TypeOK
  <2>6. Tracked(r)'
    BY <2>1, <2>3, <2>4 DEF Goto, TypeOK, Tracked, Restarting, Asked, Suspended
  <2>7. QED
    BY <2>5, <2>6
<1>8. ASSUME NEW r \in Requests, SpawnFails(r)
      PROVE  \A q \in Requests : Tracked(q)'
  <2>1. Others(r)
    BY <1>8, OthersTracked DEF SpawnFails, files, machine, Goto, TypeOK
  <2>2. Tracked(r)'
    BY <1>8 DEF SpawnFails, files, machine, Goto, TypeOK, Tracked, Suspended
  <2>3. QED
    BY <2>1, <2>2
<1>9. ASSUME NEW r \in Requests, ProbeReturns(r)
      PROVE  \A q \in Requests : Tracked(q)'
  <2>1. PICK reachable \in BOOLEAN : Goto(r, "done", reply[r] /\ reachable)
    BY <1>9 DEF ProbeReturns
  <2>2. pc[r] = "probe" /\ UNCHANGED <<order, required, process, fresh, armed, cli>>
    BY <1>9 DEF ProbeReturns, machine
  <2>3. Others(r)
    BY <2>1, <2>2, OthersTracked DEF Goto, TypeOK
  <2>4. Tracked(r)'
    <3>1. pc'[r] = "done" /\ (reply'[r] => reply[r])
      BY <2>1 DEF Goto, TypeOK
    <3>2. QED
      BY <2>2, <3>1 DEF Tracked, Restarting, Asked, Suspended
  <2>5. QED
    BY <2>3, <2>4
<1>10. ASSUME NEW r \in Requests, DaemonPerforms(r)
       PROVE  \A q \in Requests : Tracked(q)'
  <2>1. PICK code \in {"zero", "nonzero", "starting"} :
          /\ cli' = [cli EXCEPT ![r] = code]
          /\ \/ /\ process'.state = "running" /\ fresh' = armed
                /\ code = "zero"
             \/ /\ process'.state = "exited" /\ fresh' = fresh
                /\ (code = "zero" => cli[r] = "stop")
                /\ (code = "starting" => cli[r] = "restart")
             \/ /\ UNCHANGED machine
                /\ code # "starting"
                /\ code = "zero" => \/ cli[r] \in {"logs", "start"}
                                    \/ cli[r] = "starting" /\ process.state = "running"
    BY <1>10, ProcessMoves DEF DaemonPerforms, Returns, machine
  <2>2. cli[r] \in Commands /\ UNCHANGED <<order, required, armed, pc, reply>>
    BY <1>10 DEF DaemonPerforms, Commands
  <2>3. fresh \subseteq fresh'
    BY <2>1 DEF FreshArmed, machine
  <2>4. Others(r)
    BY <2>1, <2>2, <2>3, OthersTracked DEF machine, TypeOK
  <2>5. cli'[r] = code /\ pc'[r] # "idle"
    BY <2>1, <2>2 DEF TypeOK, Tracked, Commands
  <2>6. Restarting(r) => r \in armed /\ cli[r] \in {"run", "restart", "starting"}
    BY <2>2 DEF Tracked, Commands
  <2>7. Restarting(r) /\ code = "zero" => r \in fresh'
    BY <2>1, <2>2, <2>6 DEF Tracked, machine
  <2>8. Restarting(r) /\ code = "starting" => process'.state # "running"
    BY <2>1
  <2>9. Tracked(r)'
    BY <2>2, <2>3, <2>5, <2>6, <2>7, <2>8 DEF Tracked, Restarting, Asked
  <2>10. QED
    BY <2>4, <2>9
<1>11. ASSUME NEW r \in Requests, CommandFails(r) \/ CommandDropped(r)
       PROVE  \A q \in Requests : Tracked(q)'
  <2>1. /\ cli[r] \in Commands
        /\ cli' = [cli EXCEPT ![r] = "none"] \/ cli' = [cli EXCEPT ![r] = "nonzero"]
        /\ UNCHANGED <<order, required, armed, pc, reply, process, fresh>>
    BY <1>11 DEF CommandFails, CommandDropped, Returns, machine
  <2>2. Others(r)
    BY <2>1, OthersTracked DEF TypeOK
  <2>3. Tracked(r)'
    BY <2>1 DEF Tracked, Restarting, Asked, Commands, TypeOK
  <2>4. QED
    BY <2>2, <2>3
<1>12. ASSUME Boots \/ ProcessDies \/ ProcessRestarts
       PROVE  \A q \in Requests : Tracked(q)'
  <2>1. /\ UNCHANGED <<order, required, armed, pc, reply, cli>>
        /\ fresh \subseteq fresh'
        /\ process'.state = "running" /\ process.state # "running" => fresh' = armed
    BY <1>12 DEF Boots, ProcessDies, ProcessRestarts, Starts, Stops, FreshArmed, files,
       TypeOK, Processes
  <2>2. QED
    BY <2>1, OthersTracked
<1>13. ASSUME Crash PROVE \A q \in Requests : Tracked(q)'
  <2>1. /\ pc' = [q \in Requests |-> IF pc[q] \in Suspended THEN "lost" ELSE pc[q]]
        /\ UNCHANGED <<order, required, armed, reply, cli, process, fresh>>
    BY <1>13 DEF Crash, LoseAll, machine
  <2>2. QED
    BY <2>1 DEF Tracked, Restarting, Asked, Suspended
<1>14. ASSUME NEW r \in Requests, CrashInWrite(r)
       PROVE  \A q \in Requests : Tracked(q)'
  <2>1. /\ pc' = [q \in Requests |-> IF q = r \/ pc[q] \in Suspended THEN "lost" ELSE pc[q]]
        /\ armed' = armed \cup {r} /\ pc[r] = "idle"
        /\ UNCHANGED <<order, required, reply, cli, process, fresh>>
    BY <1>14, WriteArms DEF CrashInWrite, LoseAll, machine
  <2>2. QED
    BY <2>1 DEF Tracked, Restarting, Asked, Suspended
<1>15. CASE UNCHANGED vars
  BY <1>15 DEF vars, Tracked, Restarting, Asked
<1>16. QED
  BY <1>1, <1>2, <1>3, <1>4, <1>5, <1>6, <1>7, <1>8, <1>9, <1>10, <1>11, <1>12,
     <1>13, <1>14, <1>15 DEF Next, Arrival, Resume, Failure

(***************************************************************************)
(* What the process has loaded.                                            *)
(***************************************************************************)

\* A write that changes the file is by a request no process start has shown yet.
LEMMA WriteBooted ==
    ASSUME IInv, NEW r \in Requests, pc[r] = "idle", order[r].op \in Writers,
           WriteFile(r), UNCHANGED <<process, fresh>>
    PROVE  BootedCurrent'
<1>1. r \notin fresh /\ r # NoRequest
  BY BridgeAssumption DEF BridgeAssumption, IInv, Tracked, FreshArmed
<1>2. order[r].path \in Paths
  BY OrderFields DEF IInv, TypeOK, OrdersTyped
<1>3. CASE changer'[Mounted] = r
  BY <1>1, <1>3 DEF BootedCurrent
<1>4. CASE changer'[Mounted] # r
  <2>1. changer'[Mounted] = changer[Mounted] /\ file'[Mounted] = file[Mounted]
    BY <1>2, <1>4, BridgeAssumption DEF BridgeAssumption, WriteFile, IInv, TypeOK
  <2>2. QED
    BY <2>1 DEF IInv, BootedCurrent
<1>5. QED
  BY <1>3, <1>4

\* Every step keeps what a booted process has loaded in line with the last writer.
LEMMA StepBooted ==
    ASSUME IInv, [Next]_vars
    PROVE  FreshArmed' /\ BootedCurrent'
<1>a. FreshArmed /\ BootedCurrent /\ TypeOK
  BY DEF IInv
<1>1. ASSUME UNCHANGED <<files, machine>>, armed \subseteq armed'
      PROVE  FreshArmed' /\ BootedCurrent'
  BY <1>a, <1>1 DEF files, machine, FreshArmed, BootedCurrent
<1>2. ASSUME NEW r \in Requests, RenderConfig(r) \/ MqttCheck(r) \/ SupervisorRoute(r)
                                 \/ WriteFails(r) \/ SpawnFails(r)
      PROVE  FreshArmed' /\ BootedCurrent'
  BY <1>1, <1>2 DEF RenderConfig, MqttCheck, SupervisorRoute, WriteFails, SpawnFails, files
<1>3. ASSUME NEW r \in Requests, WriteConfig(r) \/ ApplyBridge(r) \/ CrashInWrite(r)
      PROVE  FreshArmed' /\ BootedCurrent'
  <2>1. /\ pc[r] = "idle" /\ order[r].op \in Writers
        /\ WriteFile(r) /\ UNCHANGED <<process, fresh>>
    BY <1>3 DEF WriteConfig, ApplyBridge, CrashInWrite, Arrives, Writers, machine
  <2>2. FreshArmed'
    BY <1>a, <2>1, WriteArms DEF FreshArmed
  <2>3. QED
    BY <2>1, <2>2, WriteBooted
<1>4. ASSUME NEW r \in Requests, Resume(r) PROVE FreshArmed' /\ BootedCurrent'
  BY <1>1, <1>4 DEF Resume, InspectAnswers, InspectFails, ActReturns, ActTimesOut, ProbeReturns
<1>5. ASSUME NEW r \in Requests, CommandFails(r) \/ CommandDropped(r)
      PROVE  FreshArmed' /\ BootedCurrent'
  BY <1>1, <1>5 DEF CommandFails, CommandDropped
\* A process that starts has read nothing yet, and one that stops is not running.
<1>6. ASSUME UNCHANGED <<files, armed>>,
             \/ fresh' = armed /\ process'.loaded = Unread
             \/ fresh' = fresh /\ process'.state # "running"
      PROVE  FreshArmed' /\ BootedCurrent'
  BY <1>a, <1>6 DEF FreshArmed, BootedCurrent
<1>7. ASSUME NEW r \in Requests, DaemonPerforms(r) PROVE FreshArmed' /\ BootedCurrent'
  <2>1. CASE UNCHANGED machine
    BY <1>1, <1>7, <2>1 DEF DaemonPerforms
  <2>2. CASE Starts
    BY <1>a, <1>6, <1>7, <2>2, ProcessMoves DEF DaemonPerforms
  <2>3. CASE Stops("exited")
    BY <1>a, <1>6, <1>7, <2>3, ProcessMoves DEF DaemonPerforms
  <2>4. QED
    BY <1>7, <2>1, <2>2, <2>3 DEF DaemonPerforms
<1>8. CASE Boots
  BY <1>a, <1>8 DEF Boots, files, FreshArmed, BootedCurrent, TypeOK, Processes
<1>9. CASE ProcessDies
  BY <1>a, <1>6, <1>9, ProcessMoves DEF ProcessDies
<1>10. CASE ProcessRestarts
  BY <1>a, <1>6, <1>10, ProcessMoves DEF ProcessRestarts
<1>11. CASE Crash
  BY <1>1, <1>11 DEF Crash
<1>12. CASE UNCHANGED vars
  BY <1>1, <1>12 DEF vars, files, machine
<1>13. QED
  BY <1>2, <1>3, <1>4, <1>5, <1>7, <1>8, <1>9, <1>10, <1>11, <1>12
     DEF Next, Arrival, Failure

\* The invariant is inductive.
LEMMA StepIInv == IInv /\ [Next]_vars => IInv'
<1> SUFFICES ASSUME IInv, [Next]_vars PROVE IInv'
  OBVIOUS
<1>1. TypeOK'
  BY StepType, TrackedOps DEF IInv
<1>2. QED
  BY <1>1, StepTracked, StepBooted DEF IInv

\* The invariant holds in every state of every behaviour, for any number of
\* requests, configurations, paths and failures.
THEOREM Invariance == Spec => []IInv
<1>1. Init => IInv
  BY InitIInv
<1>2. IInv /\ [Next]_vars => IInv'
  BY StepIInv
<1>3. QED
  BY <1>1, <1>2, PTL DEF Spec

\* Every variable keeps its type.
THEOREM TypeCorrect == Spec => []TypeOK
<1>1. IInv => TypeOK
  BY DEF IInv
<1>2. QED
  BY <1>1, Invariance, PTL

\* A restart that was confirmed to the client came after the write it was for.
LEMMA IInvRestart == IInv => RestartAfterWrite
<1> SUFFICES ASSUME IInv, NEW r \in Requests, RestartConfirmed(r) PROVE r \in fresh
  BY DEF RestartAfterWrite
<1>1. Restarting(r) /\ Asked(r) /\ pc[r] = "done" /\ reply[r]
  BY DEF RestartConfirmed, Restarting, Asked
<1>2. QED
  BY <1>1 DEF IInv, Tracked

\* A restart that was confirmed to the client came after the write it was for
\* (bridge.py:152-176, supervisor.py:131-159).
THEOREM ConfirmedRestart == Spec => []RestartAfterWrite
<1>1. IInv => RestartAfterWrite
  BY IInvRestart
<1>2. QED
  BY <1>1, Invariance, PTL

\* When the last request to change the mounted file was told its restart happened,
\* the Zigbee2MQTT that has booted runs on that file.
THEOREM AppliedRuns == Spec => []OkApplyTakesEffect
<1>1. IInv => OkApplyTakesEffect
  BY IInvRestart DEF OkApplyTakesEffect, RestartAfterWrite, IInv, BootedCurrent
<1>2. QED
  BY <1>1, Invariance, PTL

(***************************************************************************)
(* The restart policy: what a handler found out about its own write stays  *)
(* so, and a command line of an apply goes back to the moment its handler  *)
(* found a restart required.                                               *)
(***************************************************************************)

PolicedApply(q) ==
    /\ pc[q] = "idle" => q \notin effective
    /\ pc[q] \in Suspended \cup {"done"} => (required[q] <=> Due(q))
    /\ (cli[q] # "none" \/ pc[q] \in {"inspect", "act"}) => Due(q)

Policed(q) == order[q].op = "apply" => PolicedApply(q)

\* A step that neither writes for q nor issues its first command keeps to its policy.
LEMMA KeepsPolicy ==
    ASSUME NEW q, Policed(q), order' = order, required'[q] = required[q],
           q \in effective' <=> q \in effective,
           cli'[q] # "none" => cli[q] # "none" \/ pc[q] \in {"inspect", "act"},
           \/ pc'[q] = pc[q]
           \/ pc'[q] \in {"probe", "done"} /\ pc[q] \in Suspended
           \/ pc'[q] = "act" /\ pc[q] = "inspect"
           \/ pc'[q] \in {"failed", "lost"}
    PROVE  Policed(q)'
<1>1. Due(q)' <=> Due(q)
  BY DEF Due
<1>2. QED
  BY <1>1 DEF Policed, PolicedApply, Suspended

\* An apply that starts finds out whether it is due a restart.
LEMMA ApplyPoliced ==
    ASSUME TypeOK, \A q \in Requests : Tracked(q) /\ Policed(q),
           NEW r \in Requests, ApplyBridge(r)
    PROVE  \A q \in Requests : Policed(q)'
<1>1. /\ order' = order /\ pc[r] = "idle" /\ cli[r] = "none" /\ order[r].op = "apply"
      /\ order[r].policy \in Policies /\ r \notin effective
      /\ \A q \in Requests : q # r => required'[q] = required[q]
  BY OrderFields DEF ApplyBridge, Arrives, TypeOK, OrdersTyped, Tracked, Policed, PolicedApply
<1>2. required'[r] = RestartRequired(order[r].policy, file[order[r].path] # order[r].config)
  BY DEF ApplyBridge, TypeOK
<1>3. effective' = IF file[order[r].path] = order[r].config THEN effective
                   ELSE effective \cup {r}
  BY DEF ApplyBridge, WriteFile
<1>4. required'[r] <=> Due(r)'
  BY <1>1, <1>2, <1>3 DEF RestartRequired, Due
<1>5. \A q \in Requests : q # r => (q \in effective' <=> q \in effective)
  BY <1>3
<1>6. CASE required'[r] /\ Supervise(r)
  <2>1. /\ \A q \in Requests : q # r => pc'[q] = pc[q] /\ cli'[q] = cli[q]
        /\ pc'[r] # "idle"
    BY <1>6, SuperviseGoes DEF Goto, TypeOK
  <2>2. Policed(r)'
    BY <1>4, <1>6, <2>1 DEF Policed, PolicedApply
  <2>3. \A q \in Requests : q # r => Policed(q)'
    BY <1>1, <1>5, <2>1, KeepsPolicy
  <2>4. QED
    BY <2>2, <2>3
<1>7. CASE Probe(r, store, TRUE) /\ UNCHANGED cli
  <2>1. /\ \A q \in Requests : q # r => pc'[q] = pc[q]
        /\ pc'[r] \in {"probe", "done", "failed"}
    BY <1>7 DEF Probe, Goto, TypeOK
  <2>2. Policed(r)'
    BY <1>1, <1>4, <1>7, <2>1 DEF Policed, PolicedApply
  <2>3. \A q \in Requests : q # r => Policed(q)'
    BY <1>1, <1>5, <1>7, <2>1, KeepsPolicy
  <2>4. QED
    BY <2>2, <2>3
<1>8. QED
  BY <1>2, <1>6, <1>7 DEF ApplyBridge

\* Every step keeps to the policy of every request: only an apply that was due a
\* restart gets to its supervisor (bridge.py:154-158).
LEMMA StepPolicy ==
    ASSUME IInv, \A q \in Requests : Policed(q), [Next]_vars
    PROVE  \A q \in Requests : Policed(q)'
<1>a. TypeOK /\ HandlerOps /\ \A q \in Requests : Tracked(q) /\ Policed(q)
  BY TrackedOps DEF IInv
<1> USE <1>a
<1>1. ASSUME NEW r \in Requests, ApplyBridge(r) PROVE \A q \in Requests : Policed(q)'
  BY <1>1, ApplyPoliced
<1>2. ASSUME NEW r \in Requests, RenderConfig(r) \/ WriteConfig(r) \/ MqttCheck(r)
                                   \/ WriteFails(r) \/ CrashInWrite(r)
      PROVE  \A q \in Requests : Policed(q)'
  <2>1. /\ UNCHANGED <<order, required, cli>> /\ pc[r] = "idle" /\ cli[r] = "none"
        /\ \A q \in Requests : q # r => pc'[q] = pc[q] \/ pc'[q] = "lost"
        /\ \A q \in Requests : q # r => (q \in effective' <=> q \in effective)
        /\ order[r].op # "apply" \/ pc'[r] \in {"failed", "lost"}
    BY <1>2 DEF RenderConfig, WriteConfig, MqttCheck, WriteFails, CrashInWrite, LoseAll,
       WriteFile, Arrives, Goto, files, Tracked, TypeOK
  <2>2. Policed(r)'
    BY <2>1 DEF Policed, PolicedApply, Suspended
  <2>3. QED
    BY <2>1, <2>2, KeepsPolicy
<1>3. ASSUME NEW r \in Requests, SupervisorRoute(r) PROVE \A q \in Requests : Policed(q)'
  <2>1. UNCHANGED <<order, required, effective>> /\ order[r].op # "apply"
    BY <1>3 DEF SupervisorRoute, Arrives, files
  <2>2. \A q \in Requests : q # r => pc'[q] = pc[q] /\ cli'[q] = cli[q]
    BY <1>3, SuperviseGoes DEF SupervisorRoute, Goto, TypeOK
  <2>3. Policed(r)'
    BY <2>1 DEF Policed
  <2>4. QED
    BY <2>1, <2>2, <2>3, KeepsPolicy
<1>4. ASSUME NEW r \in Requests, Resume(r) PROVE \A q \in Requests : Policed(q)'
  <2>1. UNCHANGED <<order, required, effective>> /\ pc[r] \in Suspended
    BY <1>4 DEF Resume, InspectAnswers, InspectFails, ActReturns, ActTimesOut, ProbeReturns,
       Suspended, files
  <2>2. /\ \A q \in Requests : q # r => pc'[q] = pc[q] /\ cli'[q] = cli[q]
        /\ \/ pc'[r] \in {"probe", "done", "failed"}
           \/ pc'[r] = "act" /\ pc[r] = "inspect"
        /\ cli'[r] # "none" => pc[r] \in {"inspect", "act"} \/ cli[r] # "none"
    <3>1. ASSUME NEW report, Supervised(r, report)
          PROVE  /\ \A q \in Requests : q # r => pc'[q] = pc[q]
                 /\ pc'[r] \in {"probe", "done", "failed"}
      BY <3>1 DEF Supervised, Probe, Goto, TypeOK
    <3>2. ASSUME NEW status, pc[r] = "inspect", Inspected(r, status)
          PROVE  /\ \A q \in Requests : q # r => pc'[q] = pc[q] /\ cli'[q] = cli[q]
                 /\ pc'[r] \in {"probe", "done", "failed", "act"}
      BY <3>1, <3>2 DEF Inspected, Goto, TypeOK
    <3>3. CASE InspectAnswers(r) \/ InspectFails(r)
      BY <3>2, <3>3 DEF InspectAnswers, InspectFails
    <3>4. CASE ActReturns(r) \/ ActTimesOut(r)
      BY <3>1, <3>4 DEF ActReturns, ActTimesOut, TypeOK
    <3>5. CASE ProbeReturns(r)
      BY <3>5 DEF ProbeReturns, Goto, TypeOK
    <3>6. QED
      BY <1>4, <3>3, <3>4, <3>5 DEF Resume
  <2>3. QED
    BY <2>1, <2>2, KeepsPolicy
<1>5. ASSUME NEW r \in Requests, SpawnFails(r) \/ CommandFails(r)
                                   \/ DaemonPerforms(r) \/ CommandDropped(r)
      PROVE  \A q \in Requests : Policed(q)'
  <2>1. /\ UNCHANGED <<order, required, effective>>
        /\ \A q \in Requests : pc'[q] = pc[q] \/ pc'[q] = "failed"
        /\ \A q \in Requests : q # r => cli'[q] = cli[q]
        /\ cli'[r] # "none" => cli[r] # "none"
    BY <1>5 DEF SpawnFails, CommandFails, DaemonPerforms, CommandDropped, Returns, Goto,
       Commands, TypeOK, files
  <2>2. QED
    BY <2>1, KeepsPolicy
<1>6. CASE Boots \/ ProcessDies \/ ProcessRestarts \/ Crash \/ UNCHANGED vars
  <2>1. /\ UNCHANGED <<order, required, cli, effective>>
        /\ \A q \in Requests : pc'[q] = pc[q] \/ pc'[q] = "lost"
    BY <1>6 DEF Boots, ProcessDies, ProcessRestarts, Crash, LoseAll, TypeOK, vars, files
  <2>2. QED
    BY <2>1, KeepsPolicy
<1>7. QED
  BY <1>1, <1>2, <1>3, <1>4, <1>5, <1>6 DEF Next, Arrival, Failure

\* An apply runs no command unless its policy is always, or changed and its own
\* write changed the file; and one that was due a restart and is answered ok has
\* had it after its write, whatever fails, times out or overlaps (README, "Restart
\* policies"; bridge.py:149-163).
THEOREM PolicyKept == Spec => []PolicyRespected
<1>1. Init => \A q \in Requests : Policed(q)
  BY DEF Init, Policed, PolicedApply, Suspended
<1>2. IInv /\ (\A q \in Requests : Policed(q)) /\ [Next]_vars
      => (\A q \in Requests : Policed(q))'
  BY StepPolicy
<1>3. ASSUME IInv, \A q \in Requests : Policed(q) PROVE PolicyRespected
  <2> SUFFICES ASSUME NEW r \in Requests, order[r].op = "apply", order[r].sup = "live"
               PROVE  /\ cli[r] # "none" => Due(r)
                      /\ pc[r] = "done" /\ reply[r] /\ Due(r) => r \in fresh
    BY DEF PolicyRespected
  <2>1. PolicedApply(r) /\ Tracked(r)
    BY <1>3 DEF Policed, IInv
  <2>2. ASSUME pc[r] = "done", reply[r], Due(r) PROVE r \in fresh
    <3>1. Restarting(r) /\ Asked(r)
      BY <2>1, <2>2 DEF PolicedApply, Restarting, Asked
    <3>2. QED
      BY <2>1, <2>2, <3>1 DEF Tracked
  <2>3. QED
    BY <2>1, <2>2 DEF PolicedApply
<1>4. QED
  BY <1>1, <1>2, <1>3, Invariance, PTL DEF Spec

(***************************************************************************)
(* The snapshot of a service that nothing overlapped or failed: while one  *)
(* handler at a time is under way, what it has still to record and to      *)
(* report is known.                                                        *)
(***************************************************************************)

Solo == \A q, r \in Requests : pc[q] \in Suspended /\ pc[r] \in Suspended => q = r

\* No command outlives the handler that waits for it.
Waited == \A q \in Requests : cli[q] # "none" => pc[q] = "act"

\* A command is the one its handler's action calls for, and a zero says that the
\* process has come to be what the action asks.
Commanded(q) ==
    /\ pc[q] = "act" => Action(q) \in {"start", "stop", "restart", "logs"}
    /\ cli[q] \in {"run", "start", "restart", "starting"} => Action(q) \in {"start", "restart"}
    /\ cli[q] = "stop" => Action(q) = "stop"
    /\ cli[q] = "logs" => Action(q) = "logs"
    /\ cli[q] = "zero" =>
        /\ Action(q) \in {"start", "restart"} => process.state = "running"
        /\ Action(q) = "stop" => process.state # "running"

Applying(q) == pc[q] \in Suspended /\ order[q].op = "apply"
Unraised == ~\E r \in armed : pc[r] = "failed"

\* Store and file differ only while an apply is under way, whose file is in place.
Recording ==
    Unraised =>
        /\ \A q \in Requests : Applying(q) => file[order[q].path] = order[q].config
        /\ (\A q \in Requests : ~Applying(q)) => SnapshotMatchesFile

Reporting == (\A q \in Requests : pc[q] # "act") => ReportMatchesProcess

Orderly ==
    /\ Solo /\ Waited /\ process.state # "crashed"
    /\ \A q \in Requests : Commanded(q)
    /\ Recording /\ Reporting

CalmInv == calm => Orderly

Lone(r) == \A q \in Requests : q # r => pc[q] \notin Suspended /\ cli[q] = "none"

\* What a report must say of the process (ReportMatchesProcess).
Tells(report) ==
    (process.mode = "docker" \/ report.action # "status") =>
        /\ report.status = Up => process.state = "running"
        /\ (report.status = "stopped" /\ report.ok) => process.state # "running"

\* How an apply goes on once its supervisor has answered: to the probe, to an
\* exception, or to its end, with everything recorded.
Settles(r, report) ==
    /\ store'.supervisor = report
    /\ \E step \in {"probe", "failed", "done"} :
        /\ pc' = [pc EXCEPT ![r] = step]
        /\ step = "done" => store'.path = order[r].path /\ store'.hash = order[r].config

LEMMA ProbeSettles ==
    ASSUME NEW r \in Requests, NEW s \in Stores, NEW ok \in BOOLEAN, Probe(r, s, ok)
    PROVE  Settles(r, s.supervisor)
<1>1. CASE store' = s /\ \E step \in {"probe", "failed"} : pc' = [pc EXCEPT ![r] = step]
  BY <1>1 DEF Settles
<1>2. CASE (store' = Recorded(r, s) \/ store' = Recorded(r, [s EXCEPT !.check = "planned"]))
           /\ pc' = [pc EXCEPT ![r] = "done"]
  BY <1>2 DEF Settles, Recorded, Stores
<1>3. QED
  BY <1>1, <1>2 DEF Probe, Goto

LEMMA SupervisedSettles ==
    ASSUME store \in Stores, NEW r \in Requests, NEW report \in Reports, Supervised(r, report)
    PROVE  IF order[r].op = "apply" THEN Settles(r, report)
           ELSE store' = [store EXCEPT !.supervisor = report] /\ pc' = [pc EXCEPT ![r] = "done"]
<1>1. CASE order[r].op = "apply"
  <2> DEFINE s == [store EXCEPT !.supervisor = report]
  <2>1. s \in Stores /\ s.supervisor = report /\ report.ok \in BOOLEAN
    BY DEF Stores, Reports
  <2>2. Probe(r, s, report.ok)
    BY <1>1 DEF Supervised
  <2> HIDE DEF s
  <2>3. QED
    BY <1>1, <2>1, <2>2, ProbeSettles
<1>2. CASE order[r].op # "apply"
  BY <1>2 DEF Supervised, Goto
<1>3. QED
  BY <1>1, <1>2

\* What is left of the snapshot when an apply that was alone has settled.
LEMMA SettledRecords ==
    ASSUME TypeOK, NEW r \in Requests, NEW report, Settles(r, report), order[r].op = "apply",
           \A q \in Requests : q # r => pc[q] \notin Suspended,
           pc[r] # "failed", r \in armed', armed \subseteq armed', order' = order,
           Unraised => file'[order[r].path] = order[r].config
    PROVE  Solo' /\ Recording' /\ \A q \in Requests : pc'[q] # "act"
<1>1. PICK step \in {"probe", "failed", "done"} :
        /\ pc' = [pc EXCEPT ![r] = step]
        /\ step = "done" => store'.path = order[r].path /\ store'.hash = order[r].config
  BY DEF Settles
<1>2. \A q \in Requests : q # r => pc'[q] \notin Suspended
  BY <1>1 DEF TypeOK
<1>3. pc'[r] = step
  BY <1>1 DEF TypeOK
<1>4. Solo' /\ \A q \in Requests : pc'[q] # "act"
  BY <1>2, <1>3 DEF Solo, Suspended
<1>5. ASSUME Unraised'
      PROVE  /\ \A q \in Requests : Applying(q)' => file'[order[q].path] = order[q].config
             /\ (\A q \in Requests : ~Applying(q)') => SnapshotMatchesFile'
  <2>1. Unraised /\ step # "failed"
    BY <1>1, <1>3, <1>5 DEF Unraised, TypeOK
  <2>2. \A q \in Requests : Applying(q)' => q = r
    BY <1>2 DEF Applying
  <2>3. step = "probe" => Applying(r)'
    BY <1>3 DEF Applying, Suspended
  <2>4. step = "done" => SnapshotMatchesFile'
    BY <1>1, <2>1 DEF SnapshotMatchesFile
  <2>5. QED
    BY <1>1, <2>1, <2>2, <2>3, <2>4
<1>6. Recording'
  BY <1>5 DEF Recording
<1>7. QED
  BY <1>4, <1>6

\* A step that leaves file and recorded fields alone, and no apply begins or ends.
LEMMA KeepsRecording ==
    ASSUME Recording, file' = file, order' = order, Unraised' => Unraised,
           store'.path = store.path, store'.hash = store.hash, store'.draft = store.draft,
           \A q \in Requests : Applying(q)' <=> Applying(q)
    PROVE  Recording'
BY DEF Recording, SnapshotMatchesFile

\* One handler is under way: nobody else has a command.
LEMMA OnlyOne ==
    ASSUME Solo, Waited, NEW r \in Requests, pc[r] \in Suspended
    PROVE  Lone(r)
BY DEF Solo, Waited, Suspended, Lone

\* Nobody is under way when a request arrives in calm.
LEMMA NobodyElse ==
    ASSUME Orderly, \A q \in Requests : pc[q] \notin Suspended, NEW r \in Requests
    PROVE  /\ Lone(r)
           /\ \A q \in Requests : cli[q] = "none" /\ ~Applying(q)
           /\ ReportMatchesProcess
           /\ Unraised => SnapshotMatchesFile
BY DEF Orderly, Waited, Suspended, Lone, Applying, Reporting, Recording

\* An answer that comes at once claims nothing of the process.
LEMMA ImmediateTells ==
    ASSUME NEW r
    PROVE  Tells(ImmediateReport(r))
BY DEF Tells, ImmediateReport, Report, Up

\* A handler that waits for a step keeps what it has to record.
LEMMA Underway ==
    ASSUME TypeOK, Recording, NEW r \in Requests, Lone(r), pc[r] # "failed",
           NEW step \in Suspended, pc' = [pc EXCEPT ![r] = step],
           store' = store, order' = order, armed \subseteq armed',
           (order[r].op = "apply" /\ Unraised) => file'[order[r].path] = order[r].config,
           order[r].op # "apply" => file' = file
    PROVE  Solo' /\ Recording'
<1>1. /\ pc'[r] = step
      /\ \A q \in Requests : q # r => pc'[q] = pc[q] /\ pc'[q] \notin Suspended
  BY DEF TypeOK, Lone
<1>2. Solo'
  BY <1>1 DEF Solo
<1>3. Unraised' => Unraised
  BY <1>1 DEF Unraised
<1>4. CASE order[r].op = "apply"
  <2>1. \A q \in Requests : Applying(q)' <=> q = r
    BY <1>1, <1>4 DEF Applying
  <2>2. QED
    BY <1>2, <1>3, <1>4, <2>1 DEF Recording
<1>5. CASE order[r].op # "apply"
  <2>1. \A q \in Requests : Applying(q)' <=> Applying(q)
    BY <1>1, <1>5 DEF Applying
  <2>2. Recording'
    BY <1>3, <1>5, <2>1, KeepsRecording
  <2>3. QED
    BY <1>2, <2>2
<1>6. QED
  BY <1>4, <1>5

\* A handler issues the command its action calls for (bridge.py:158, supervisor.py:131-159).
LEMMA CommandIssued ==
    ASSUME TypeOK, Orderly, NEW r \in Requests, Lone(r), pc[r] # "failed",
           NEW c, cli' = [cli EXCEPT ![r] = c], pc' = [pc EXCEPT ![r] = "act"],
           Action(r) \in {"start", "stop", "restart", "logs"},
           c \in {"run", "start", "restart"} => Action(r) \in {"start", "restart"},
           c \in {"stop", "logs"} => Action(r) = c,
           c \notin {"starting", "zero"},
           store' = store, order' = order, process' = process, armed \subseteq armed',
           (order[r].op = "apply" /\ Unraised) => file'[order[r].path] = order[r].config,
           order[r].op # "apply" => file' = file
    PROVE  Orderly'
<1>1. Solo' /\ Recording'
  BY Underway DEF Orderly, Suspended
<1>2. /\ pc'[r] = "act" /\ cli'[r] = c /\ Action(r)' = Action(r)
      /\ \A q \in Requests : q # r => pc'[q] # "act" /\ cli'[q] = "none"
  BY DEF TypeOK, Lone, Suspended, Action
<1>3. Waited' /\ Reporting'
  BY <1>2 DEF Waited, Reporting
<1>4. \A q \in Requests : Commanded(q)'
  BY <1>2 DEF Commanded
<1>5. QED
  BY <1>1, <1>3, <1>4 DEF Orderly

\* A handler that was alone has its supervisor's answer, which is true.
LEMMA Answered ==
    ASSUME TypeOK, Orderly, NEW r \in Requests, Lone(r), pc[r] # "failed",
           NEW report \in Reports, Supervised(r, report), Tells(report),
           \A q \in Requests : cli'[q] = "none",
           order' = order, process' = process, armed \subseteq armed',
           order[r].op = "apply" => r \in armed',
           (order[r].op = "apply" /\ Unraised) => file'[order[r].path] = order[r].config,
           order[r].op # "apply" => file' = file
    PROVE  Orderly'
<1>1. Solo' /\ Recording' /\ (\A q \in Requests : pc'[q] # "act") /\ store'.supervisor = report
  <2>1. CASE order[r].op = "apply"
    <3>1. Settles(r, report)
      BY <2>1, SupervisedSettles DEF TypeOK
    <3>2. \A q \in Requests : q # r => pc[q] \notin Suspended
      BY DEF Lone
    <3>3. store'.supervisor = report
      BY <3>1 DEF Settles
    <3>4. QED
      BY <2>1, <3>1, <3>2, <3>3, SettledRecords
  <2>2. CASE order[r].op # "apply"
    <3>1. store' = [store EXCEPT !.supervisor = report] /\ pc' = [pc EXCEPT ![r] = "done"]
      BY <2>2, SupervisedSettles DEF TypeOK
    <3>2. /\ pc'[r] = "done"
          /\ \A q \in Requests : q # r => pc'[q] = pc[q] /\ pc'[q] \notin Suspended
      BY <3>1 DEF TypeOK, Lone
    <3>3. Solo' /\ (\A q \in Requests : pc'[q] # "act")
      BY <3>2 DEF Solo, Suspended
    <3>4. /\ store'.path = store.path /\ store'.hash = store.hash /\ store'.draft = store.draft
          /\ store'.supervisor = report
      BY <3>1 DEF TypeOK, Stores
    <3>5. Unraised' => Unraised
      BY <3>2 DEF Unraised, TypeOK
    <3>6. \A q \in Requests : Applying(q)' <=> Applying(q)
      BY <2>2, <3>2 DEF Applying
    <3>7. Recording'
      BY <2>2, <3>4, <3>5, <3>6, KeepsRecording DEF Orderly
    <3>8. QED
      BY <3>3, <3>4, <3>7
  <2>3. QED
    BY <2>1, <2>2
<1>2. Waited' /\ \A q \in Requests : Commanded(q)'
  BY <1>1 DEF Waited, Commanded
<1>3. ReportMatchesProcess'
  BY <1>1 DEF ReportMatchesProcess, Tells, Up
<1>4. QED
  BY <1>1, <1>2, <1>3 DEF Orderly, Reporting

\* A request arrives in calm and calls the supervisor.
LEMMA Called ==
    ASSUME TypeOK, Orderly, \A q \in Requests : pc[q] \notin Suspended,
           NEW r \in Requests, pc[r] = "idle", Supervise(r),
           Action(r) \in {"start", "stop", "restart", "status", "logs"},
           order' = order, process' = process, armed \subseteq armed',
           order[r].op = "apply" => r \in armed' /\ file'[order[r].path] = order[r].config,
           order[r].op # "apply" => file' = file
    PROVE  Orderly'
<1>1. Lone(r) /\ (\A q \in Requests : cli[q] = "none") /\ ReportMatchesProcess
  BY NobodyElse
<1>2. CASE /\ order[r].sup \in {"invalid", "dry"}
           /\ Supervised(r, ImmediateReport(r))
           /\ UNCHANGED cli
  <2>1. ImmediateReport(r) \in Reports
    BY ImmediateReportType DEF TypeOK, OrdersTyped
  <2>2. QED
    BY <1>1, <1>2, <2>1, ImmediateTells, Answered
<1>3. CASE Goto(r, "inspect", FALSE) /\ store' = store /\ cli' = cli
  <2>1. pc' = [pc EXCEPT ![r] = "inspect"]
    BY <1>3 DEF Goto
  <2>2. Solo' /\ Recording'
    BY <1>1, <1>3, <2>1, Underway DEF Suspended, Orderly
  <2>3. \A q \in Requests : pc'[q] # "act" /\ cli'[q] = "none"
    BY <1>1, <1>3, <2>1 DEF TypeOK, Suspended
  <2>4. Waited' /\ \A q \in Requests : Commanded(q)'
    BY <2>3 DEF Waited, Commanded
  <2>5. ReportMatchesProcess'
    BY <1>1, <1>3 DEF ReportMatchesProcess, Up
  <2>6. QED
    BY <2>2, <2>4, <2>5 DEF Orderly, Reporting
<1>4. CASE /\ Action(r) # "status"
           /\ Goto(r, "act", FALSE) /\ store' = store
           /\ cli' = [cli EXCEPT ![r] = Pm2Command(Action(r))]
  <2>1. pc' = [pc EXCEPT ![r] = "act"]
    BY <1>4 DEF Goto
  <2>2. /\ Pm2Command(Action(r)) \in {"run", "start", "restart"} => Action(r) \in {"start", "restart"}
        /\ Pm2Command(Action(r)) \in {"stop", "logs"} => Action(r) = Pm2Command(Action(r))
        /\ Pm2Command(Action(r)) \notin {"starting", "zero"}
    BY DEF Pm2Command
  <2>3. QED
    BY <1>1, <1>4, <2>1, <2>2, CommandIssued
<1>5. QED
  BY <1>2, <1>3, <1>4 DEF Supervise

\* Every step that leaves the system calm leaves it orderly.
LEMMA StepCalm == IInv /\ CalmInv /\ [Next]_vars => CalmInv'
<1> SUFFICES ASSUME IInv, CalmInv, [Next]_vars, calm' PROVE Orderly'
  BY DEF CalmInv
<1>a. TypeOK /\ \A q \in Requests : Tracked(q)
  BY DEF IInv
<1> USE <1>a
<1>b. ASSUME NEW r \in Requests, NEW ops, Arrives(r, ops)
      PROVE  /\ Orderly /\ pc[r] = "idle" /\ order[r].op \in ops
             /\ \A q \in Requests : pc[q] \notin Suspended
  BY <1>b DEF Arrives, CalmInv
<1>c. ASSUME NEW r \in Requests, pc[r] \in Suspended, calm' = calm
      PROVE  Orderly /\ Lone(r)
  BY <1>c, OnlyOne DEF CalmInv, Orderly
<1>1. ASSUME NEW r \in Requests, RenderConfig(r) PROVE Orderly'
  <2>1. /\ Orderly /\ order[r].op = "render"
        /\ \A q \in Requests : pc[q] \notin Suspended
    BY <1>1, <1>b DEF RenderConfig
  <2>2. ReportMatchesProcess /\ \A q \in Requests : cli[q] = "none"
    BY <2>1, NobodyElse
  <2>3. \A q \in Requests : pc'[q] \notin Suspended /\ cli'[q] = "none"
    BY <1>1, <2>1, <2>2 DEF RenderConfig, files, Goto, TypeOK, Suspended
  <2>4. store'.draft = TRUE /\ store'.supervisor = store.supervisor /\ process' = process
    BY <1>1, <2>1 DEF RenderConfig, Recorded, files, machine, TypeOK, Stores
  <2>5. Solo' /\ Waited' /\ \A q \in Requests : Commanded(q)'
    BY <2>3 DEF Solo, Waited, Commanded, Suspended
  <2>6. Recording'
    BY <2>3, <2>4 DEF Recording, Applying, SnapshotMatchesFile
  <2>7. Reporting'
    BY <2>2, <2>4 DEF Reporting, ReportMatchesProcess, Up
  <2>8. QED
    BY <2>1, <2>4, <2>5, <2>6, <2>7 DEF Orderly
<1>2. ASSUME NEW r \in Requests, WriteConfig(r) PROVE Orderly'
  <2>1. /\ Orderly /\ \A q \in Requests : pc[q] \notin Suspended
        /\ order[r].op \in {"write", "configure"}
    BY <1>2, <1>b DEF WriteConfig
  <2>2. ReportMatchesProcess /\ \A q \in Requests : cli[q] = "none"
    BY <2>1, NobodyElse
  <2>3. \A q \in Requests : pc'[q] \notin Suspended /\ cli'[q] = "none"
    BY <1>2, <2>1, <2>2 DEF WriteConfig, Goto, TypeOK, Suspended
  <2>4. /\ store'.path = order[r].path /\ store'.hash = order[r].config
        /\ store'.supervisor = store.supervisor /\ process' = process
    BY <1>2 DEF WriteConfig, Recorded, machine, TypeOK, Stores
  <2>5. order[r].path \in Paths
    BY <2>1, OrderFields DEF TypeOK, OrdersTyped, Writers
  <2>6. file'[order[r].path] = order[r].config
    BY <1>2, <2>5 DEF WriteConfig, WriteFile, TypeOK
  <2>7. Solo' /\ Waited' /\ \A q \in Requests : Commanded(q)'
    BY <2>3 DEF Solo, Waited, Commanded, Suspended
  <2>8. Recording'
    BY <2>3, <2>4, <2>6 DEF Recording, Applying, SnapshotMatchesFile
  <2>9. Reporting'
    BY <2>2, <2>4 DEF Reporting, ReportMatchesProcess, Up
  <2>10. QED
    BY <2>1, <2>4, <2>7, <2>8, <2>9 DEF Orderly
<1>3. ASSUME NEW r \in Requests, ApplyBridge(r) PROVE Orderly'
  <2>1. /\ Orderly /\ pc[r] = "idle" /\ order[r].op = "apply"
        /\ \A q \in Requests : pc[q] \notin Suspended
    BY <1>3, <1>b DEF ApplyBridge
  <2>2. order[r].path \in Paths
    BY <2>1, OrderFields DEF TypeOK, OrdersTyped, Writers
  <2>3. /\ file'[order[r].path] = order[r].config
        /\ r \in armed' /\ armed \subseteq armed'
        /\ order' = order /\ process' = process
    BY <1>3, <2>2 DEF ApplyBridge, WriteFile, machine, TypeOK
  <2>4. CASE Supervise(r)
    BY <2>1, <2>3, <2>4, Called DEF Action
  <2>5. CASE Probe(r, store, TRUE) /\ UNCHANGED cli
    <3>1. /\ Lone(r) /\ ReportMatchesProcess
          /\ \A q \in Requests : cli[q] = "none"
      BY <2>1, NobodyElse
    <3>2. Settles(r, store.supervisor)
      BY <2>5, ProbeSettles DEF TypeOK
    <3>3. Solo' /\ Recording' /\ \A q \in Requests : pc'[q] # "act"
      BY <2>1, <2>3, <3>1, <3>2, SettledRecords DEF Lone
    <3>4. store'.supervisor = store.supervisor
      BY <3>2 DEF Settles
    <3>5. Waited' /\ \A q \in Requests : Commanded(q)'
      BY <2>5, <3>1, <3>3 DEF Waited, Commanded
    <3>6. Reporting'
      BY <2>3, <3>1, <3>4 DEF Reporting, ReportMatchesProcess, Up
    <3>7. QED
      BY <2>1, <2>3, <3>3, <3>5, <3>6 DEF Orderly
  <2>6. QED
    BY <1>3, <2>4, <2>5 DEF ApplyBridge
<1>4. ASSUME NEW r \in Requests, SupervisorRoute(r) PROVE Orderly'
  <2>1. /\ Orderly /\ pc[r] = "idle"
        /\ order[r].op \in {"start", "stop", "restart", "status", "logs"}
        /\ \A q \in Requests : pc[q] \notin Suspended
    BY <1>4, <1>b DEF SupervisorRoute
  <2>2. /\ file' = file /\ order' = order /\ process' = process
        /\ armed \subseteq armed' /\ Supervise(r)
    BY <1>4 DEF SupervisorRoute, files, machine
  <2>3. QED
    BY <2>1, <2>2, Called DEF Action
<1>5. ASSUME NEW r \in Requests, MqttCheck(r) PROVE Orderly'
  <2>1. /\ Orderly /\ pc[r] = "idle" /\ order[r].op = "check"
        /\ \A q \in Requests : pc[q] \notin Suspended
    BY <1>5, <1>b DEF MqttCheck
  <2>2. /\ ReportMatchesProcess /\ (\A q \in Requests : cli[q] = "none")
        /\ Lone(r)
    BY <2>1, NobodyElse
  <2>3. /\ file' = file /\ order' = order /\ process' = process /\ cli' = cli /\ armed' = armed
    BY <1>5 DEF MqttCheck, files, machine
  <2>4. PICK step \in {"probe", "failed", "done"} : pc' = [pc EXCEPT ![r] = step]
    BY <1>5 DEF MqttCheck, Goto
  <2>5. /\ store'.path = store.path /\ store'.hash = store.hash /\ store'.draft = store.draft
        /\ store'.supervisor = store.supervisor
    BY <1>5 DEF MqttCheck, TypeOK, Stores
  <2>6. /\ pc'[r] = step
        /\ \A q \in Requests : q # r => pc'[q] = pc[q] /\ pc'[q] \notin Suspended
    BY <2>1, <2>4 DEF TypeOK
  <2>7. Solo' /\ \A q \in Requests : pc'[q] # "act"
    BY <2>6 DEF Solo, Suspended
  <2>8. Waited' /\ \A q \in Requests : Commanded(q)'
    BY <2>2, <2>3, <2>7 DEF Waited, Commanded
  <2>9. Unraised' => Unraised
    BY <2>1, <2>3, <2>6 DEF Unraised, TypeOK
  <2>10. \A q \in Requests : Applying(q)' <=> Applying(q)
    BY <2>1, <2>3, <2>6 DEF Applying
  <2>11. Recording'
    BY <2>1, <2>3, <2>5, <2>9, <2>10, KeepsRecording DEF Orderly
  <2>12. Reporting'
    BY <2>2, <2>3, <2>5 DEF Reporting, ReportMatchesProcess, Up
  <2>13. QED
    BY <2>1, <2>3, <2>7, <2>8, <2>11, <2>12 DEF Orderly
<1>6. ASSUME NEW r \in Requests, InspectAnswers(r) PROVE Orderly'
  <2>1. /\ pc[r] = "inspect" /\ calm' = calm /\ file' = file /\ armed' = armed
        /\ order' = order /\ process' = process
    BY <1>6 DEF InspectAnswers, files, machine
  <2>2. Orderly /\ Lone(r)
    BY <1>c, <2>1 DEF Suspended
  <2>3. (order[r].op = "apply" /\ Unraised) => file[order[r].path] = order[r].config
    BY <2>1, <2>2 DEF Orderly, Recording, Applying, Suspended
  <2>4. order[r].op = "apply" => r \in armed
    BY <2>1 DEF Tracked, Restarting, Suspended
  <2>5. \A q \in Requests : cli[q] = "none"
    BY <2>1, <2>2 DEF Orderly, Waited, Lone
  <2>6. order[r].op \in SupervisedOps
    BY <2>1 DEF Tracked
  <2>7. PICK status \in Observed : Inspected(r, status)
    BY <1>6 DEF InspectAnswers
  <2>8. CASE Action(r) = "status"
    <3> DEFINE report == Report("status", status # "missing", status)
    <3>1. Supervised(r, report) /\ cli' = cli
      BY <2>7, <2>8 DEF Inspected
    <3>2. report \in Reports /\ Tells(report)
      BY DEF TypeOK, Observed, Report, Reports, Ops, Statuses, Processes, Tells, Up
    <3> HIDE DEF report
    <3>3. QED
      BY <2>1, <2>2, <2>3, <2>4, <2>5, <3>1, <3>2, Answered
  <2>9. CASE Action(r) # "status"
    <3> DEFINE c == CommandFor(Action(r), status = "missing")
    <3>1. /\ store' = store /\ cli' = [cli EXCEPT ![r] = c]
          /\ pc' = [pc EXCEPT ![r] = "act"]
      BY <2>7, <2>9 DEF Inspected, Goto
    <3>2. Action(r) \in {"start", "stop", "restart", "logs"}
      BY <2>6, <2>9 DEF Action, SupervisedOps
    <3>3. /\ c \in {"run", "start", "restart"} => Action(r) \in {"start", "restart"}
          /\ c \in {"stop", "logs"} => Action(r) = c
          /\ c \notin {"starting", "zero"}
      BY <3>2 DEF CommandFor
    <3> HIDE DEF c
    <3>4. QED
      BY <2>1, <2>2, <2>3, <3>1, <3>2, <3>3, CommandIssued
  <2>10. QED
    BY <2>8, <2>9
<1>7. ASSUME NEW r \in Requests, ActReturns(r) PROVE Orderly'
  <2>1. /\ pc[r] = "act" /\ calm' = calm /\ file' = file /\ armed' = armed
        /\ order' = order /\ process' = process /\ cli' = [cli EXCEPT ![r] = "none"]
        /\ cli[r] \in {"zero", "nonzero"} /\ Supervised(r, ActReport(r, cli[r] = "zero"))
    BY <1>7 DEF ActReturns, files, machine
  <2>2. Orderly /\ Lone(r) /\ Commanded(r)
    BY <1>c, <2>1 DEF Suspended, Orderly
  <2>3. (order[r].op = "apply" /\ Unraised) => file[order[r].path] = order[r].config
    BY <2>1, <2>2 DEF Orderly, Recording, Applying, Suspended
  <2>4. order[r].op = "apply" => r \in armed
    BY <2>1 DEF Tracked, Restarting, Suspended
  <2>5. \A q \in Requests : cli'[q] = "none"
    BY <2>1, <2>2 DEF Lone, TypeOK
  <2>6. ActReport(r, cli[r] = "zero") \in Reports
    BY ActReportType DEF TypeOK, OrdersTyped
  <2>7. Tells(ActReport(r, cli[r] = "zero"))
    BY <2>1, <2>2 DEF Commanded, ActReport, Report, Tells, Up
  <2>8. QED
    BY <2>1, <2>2, <2>3, <2>4, <2>5, <2>6, <2>7, Answered
<1>8. ASSUME NEW r \in Requests, ProbeReturns(r) PROVE Orderly'
  <2>1. /\ pc[r] = "probe" /\ calm' = calm /\ file' = file /\ armed' = armed
        /\ order' = order /\ process' = process /\ cli' = cli
    BY <1>8 DEF ProbeReturns, files, machine
  <2>2. Orderly /\ Lone(r)
    BY <1>c, <2>1 DEF Suspended
  <2>3. \A q \in Requests : cli[q] = "none" /\ pc[q] # "act"
    BY <2>1, <2>2 DEF Orderly, Waited, Lone, Suspended
  <2>4. /\ pc' = [pc EXCEPT ![r] = "done"]
        /\ store'.supervisor = store.supervisor
        /\ IF order[r].op = "apply"
           THEN store'.path = order[r].path /\ store'.hash = order[r].config
           ELSE /\ store'.path = store.path /\ store'.hash = store.hash
                /\ store'.draft = store.draft
    BY <1>8 DEF ProbeReturns, Goto, Recorded, TypeOK, Stores
  <2>5. \A q \in Requests : pc'[q] \notin Suspended /\ (q # r => pc'[q] = pc[q])
    BY <2>2, <2>4 DEF TypeOK, Lone, Suspended
  <2>6. Solo' /\ Waited' /\ \A q \in Requests : Commanded(q)'
    BY <2>1, <2>3, <2>5 DEF Solo, Waited, Commanded, Suspended
  <2>7. Unraised' => Unraised
    BY <2>1, <2>4 DEF Unraised, TypeOK
  <2>8. Recording'
    <3>1. CASE order[r].op = "apply"
      <4>1. Unraised => file[order[r].path] = order[r].config
        BY <2>1, <2>2, <3>1 DEF Orderly, Recording, Applying, Suspended
      <4>2. \A q \in Requests : ~Applying(q)'
        BY <2>5 DEF Applying
      <4>3. QED
        BY <2>1, <2>4, <2>7, <3>1, <4>1, <4>2 DEF Recording, SnapshotMatchesFile
    <3>2. CASE order[r].op # "apply"
      <4>1. \A q \in Requests : Applying(q)' <=> Applying(q)
        BY <2>1, <2>2, <2>5, <3>2 DEF Applying, Lone
      <4>2. QED
        BY <2>1, <2>2, <2>4, <2>7, <3>2, <4>1, KeepsRecording DEF Orderly
    <3>3. QED
      BY <3>1, <3>2
  <2>9. Reporting'
    BY <2>1, <2>2, <2>3, <2>4 DEF Orderly, Reporting, ReportMatchesProcess, Up
  <2>10. QED
    BY <2>1, <2>2, <2>6, <2>8, <2>9 DEF Orderly
<1>9. ASSUME NEW r \in Requests, DaemonPerforms(r) PROVE Orderly'
  <2>1. /\ calm' = calm /\ file' = file /\ armed' = armed /\ pc' = pc
        /\ order' = order /\ store' = store /\ cli[r] # "none"
    BY <1>9 DEF DaemonPerforms, files
  <2>2. Orderly /\ pc[r] = "act" /\ Commanded(r)
    BY <2>1 DEF CalmInv, Orderly, Waited
  <2>3. Lone(r)
    BY <1>c, <2>1, <2>2 DEF Suspended
  <2>4. PICK code : cli' = [cli EXCEPT ![r] = code]
    BY <1>9 DEF DaemonPerforms, Returns
  <2>5. /\ \A q \in Requests : q # r => cli'[q] = "none" /\ pc'[q] # "act"
        /\ cli'[r] = code /\ pc'[r] = "act" /\ Action(r)' = Action(r)
    BY <2>1, <2>2, <2>3, <2>4 DEF Lone, TypeOK, Suspended, Action
  <2>6. process'.state # "crashed" /\ Commanded(r)'
    <3>1. process' \in Processes /\ process.state # "crashed"
      BY <2>2, <1>9 DEF DaemonPerforms, Starts, Stops, machine, TypeOK, Processes, Orderly
    <3>2. process'.state # "crashed"
      BY <1>9, <3>1, ProcessMoves DEF DaemonPerforms, machine
    <3>3. /\ cli[r] \in Commands /\ code \in {"zero", "nonzero", "starting"}
          /\ code = "starting" => cli[r] = "restart"
          /\ code = "zero" /\ cli[r] \in {"run", "start", "starting"} => process'.state = "running"
          /\ code = "zero" /\ cli[r] = "stop" => process'.state # "running"
          /\ code = "zero" => cli[r] # "restart"
      BY <1>9, <2>5, ProcessMoves DEF DaemonPerforms, Returns, machine, TypeOK, Commands
    <3>4. QED
      BY <2>2, <2>5, <3>2, <3>3 DEF Commanded, Commands
  <2>7. Solo' /\ Waited' /\ (\A q \in Requests : Commanded(q)') /\ Reporting'
    <3>1. Solo' /\ Waited' /\ Reporting'
      BY <2>1, <2>2, <2>5 DEF Solo, Waited, Reporting, Orderly
    <3>2. ASSUME NEW q \in Requests, q # r PROVE Commanded(q)'
      BY <2>5, <3>2 DEF Commanded
    <3>3. QED
      BY <2>6, <3>1, <3>2
  <2>8. Recording'
    BY <2>1, <2>2 DEF Orderly, Recording, Unraised, Applying, SnapshotMatchesFile
  <2>9. QED
    BY <2>6, <2>7, <2>8 DEF Orderly
<1>10. ASSUME NEW r \in Requests, CommandDropped(r) PROVE Orderly'
  BY <1>10 DEF CommandDropped, Commands, CalmInv, Orderly, Waited
<1>11. CASE Boots
  <2>1. /\ Orderly /\ process'.state = process.state /\ process'.mode = process.mode
        /\ file' = file /\ store' = store /\ armed' = armed /\ order' = order
        /\ pc' = pc /\ cli' = cli
    BY <1>11 DEF Boots, files, CalmInv, TypeOK, Processes
  <2>2. \A q \in Requests : Commanded(q)'
    BY <2>1 DEF Orderly, Commanded, Action
  <2>3. Recording' /\ Solo' /\ Waited'
    BY <2>1 DEF Orderly, Recording, Unraised, Applying, SnapshotMatchesFile, Solo, Waited
  <2>4. Reporting'
    BY <2>1 DEF Orderly, Reporting, ReportMatchesProcess, Up
  <2>5. QED
    BY <2>1, <2>2, <2>3, <2>4 DEF Orderly
<1>12. CASE ProcessRestarts
  BY <1>12 DEF ProcessRestarts, CalmInv, Orderly
<1>13. ASSUME NEW r \in Requests,
              InspectFails(r) \/ ActTimesOut(r) \/ WriteFails(r) \/ SpawnFails(r)
                \/ CommandFails(r) \/ CrashInWrite(r)
       PROVE  Orderly'
  BY <1>13 DEF InspectFails, ActTimesOut, WriteFails, SpawnFails, CommandFails,
               CrashInWrite, Fault
<1>14. CASE ProcessDies \/ Crash
  BY <1>14 DEF ProcessDies, Crash, Fault
<1>15. CASE UNCHANGED vars
  <2>1. /\ Orderly /\ process' = process /\ calm' = calm
        /\ file' = file /\ store' = store /\ armed' = armed /\ order' = order
        /\ pc' = pc /\ cli' = cli
    BY <1>15 DEF vars, CalmInv
  <2>2. QED
    BY <2>1 DEF Orderly, Commanded, Action, Recording, Unraised, Applying, SnapshotMatchesFile,
                Solo, Waited, Reporting, ReportMatchesProcess, Up
<1>16. QED
  BY <1>1, <1>2, <1>3, <1>4, <1>5, <1>6, <1>7, <1>8, <1>9, <1>10, <1>11, <1>12,
     <1>13, <1>14, <1>15 DEF Next, Arrival, Resume, Failure

\* With one client at a time and nothing failing, the snapshot is true of the file and
\* of the process whenever nobody is under way (bridge.py:152-176).
THEOREM CalmSnapshots == Spec => []CalmSnapshotIsTrue
<1>1. Init => CalmInv
  <2> SUFFICES ASSUME Init PROVE Orderly
    BY DEF CalmInv
  <2>1. \A q \in Requests : pc[q] = "idle" /\ cli[q] = "none"
    BY DEF Init
  <2>2. /\ store.path = NoPath /\ store.supervisor.status = "none"
        /\ process.state # "crashed"
    BY DEF Init, EmptyStore, Report
  <2>3. Recording
    BY <2>2 DEF Recording, SnapshotMatchesFile, Applying, Suspended, Init
  <2>4. Reporting
    BY <2>2 DEF Reporting, ReportMatchesProcess, Up
  <2>5. QED
    BY <2>1, <2>2, <2>3, <2>4 DEF Orderly, Solo, Waited, Commanded, Suspended
<1>2. IInv /\ CalmInv /\ [Next]_vars => CalmInv'
  BY StepCalm
<1>3. CalmInv => CalmSnapshotIsTrue
  <2> SUFFICES ASSUME CalmInv, calm, Quiescent, Unraised
               PROVE  SnapshotMatchesFile /\ ReportMatchesProcess
    BY DEF CalmSnapshotIsTrue, Unraised
  <2>1. Orderly
    BY DEF CalmInv
  <2>2. \A q \in Requests : ~Applying(q) /\ pc[q] # "act"
    BY DEF Quiescent, Applying, Suspended
  <2>3. QED
    BY <2>1, <2>2 DEF Orderly, Recording, Reporting
<1>4. QED
  BY <1>1, <1>2, <1>3, Invariance, PTL DEF Spec
(***************************************************************************)
(* What the liveness of the routes rests on: a suspended handler always    *)
(* has something that can still answer it, every time a handler goes on it *)
(* comes nearer to its end, and nobody reopens one that has ended.         *)
(***************************************************************************)

\* Every handler that waits for a command line has one.
Awaiting == \A r \in Requests : pc[r] = "act" => cli[r] # "none"

\* How many suspensions a handler can still come to, and its own end.
Distance(step) ==
    CASE step = "idle"    -> 4
      [] step = "inspect" -> 3
      [] step = "act"     -> 2
      [] step = "probe"   -> 1
      [] OTHER            -> 0

\* A step leaves the handler where it is, with its verdict, or nearer to its end.
Advances(r) ==
    \/ pc'[r] = pc[r] /\ reply'[r] = reply[r]
    \/ Distance(pc'[r]) < Distance(pc[r])

\* The step is one of r's handler: it comes nearer to its end, nobody else moves,
\* and it is left with something to wait for.
GoesOn(r) ==
    /\ Distance(pc'[r]) < Distance(pc[r])
    /\ \A q \in Requests \ {r} : pc'[q] = pc[q] /\ reply'[q] = reply[q]
    /\ \A q \in Requests \ {r} : cli'[q] = cli[q]
    /\ pc'[r] = "act" => cli'[r] # "none"

\* A handler that moves on to a later step comes nearer to its end.
LEMMA GotoAdvances ==
    ASSUME TypeOK, NEW r \in Requests, NEW step, NEW ok, Goto(r, step, ok),
           Distance(step) < Distance(pc[r])
    PROVE  /\ Distance(pc'[r]) < Distance(pc[r])
           /\ \A q \in Requests \ {r} : pc'[q] = pc[q] /\ reply'[q] = reply[q]
           /\ pc'[r] = step
BY DEF Goto, TypeOK

\* The tails of the handlers end them, or take apply to its probe of the broker.
LEMMA SupervisedAdvances ==
    ASSUME TypeOK, NEW r \in Requests, NEW report \in Reports, Supervised(r, report),
           pc[r] \in {"idle", "inspect", "act"}
    PROVE  /\ Distance(pc'[r]) < Distance(pc[r])
           /\ \A q \in Requests \ {r} : pc'[q] = pc[q] /\ reply'[q] = reply[q]
           /\ pc'[r] # "act"
<1>1. PICK step \in {"probe", "done", "failed"}, ok \in BOOLEAN : Goto(r, step, ok)
  BY SupervisedGoes
<1>2. Distance(step) < Distance(pc[r])
  BY DEF Distance
<1>3. QED
  BY <1>1, <1>2, GotoAdvances

\* The call of the supervisor answers at once, or waits for a command that is there.
LEMMA SuperviseAdvances ==
    ASSUME TypeOK, NEW r \in Requests, Supervise(r), order[r].op \in SupervisedOps,
           pc[r] = "idle"
    PROVE  GoesOn(r)
<1>1. CASE Supervised(r, ImmediateReport(r)) /\ UNCHANGED cli
  <2>1. ImmediateReport(r) \in Reports
    BY ImmediateReportType DEF TypeOK, OrdersTyped
  <2>2. QED
    BY <1>1, <2>1, SupervisedAdvances DEF GoesOn
<1>2. CASE Goto(r, "inspect", FALSE) /\ UNCHANGED <<store, cli>>
  <2>1. Distance("inspect") < Distance(pc[r])
    BY DEF Distance
  <2>2. QED
    BY <1>2, <2>1, GotoAdvances DEF GoesOn
<1>3. CASE /\ Action(r) # "status"
           /\ Goto(r, "act", FALSE)
           /\ cli' = [cli EXCEPT ![r] = Pm2Command(Action(r))]
  <2>1. Distance("act") < Distance(pc[r])
    BY DEF Distance
  <2>2. Pm2Command(Action(r)) # "none"
    BY <1>3 DEF Pm2Command, Action, SupervisedOps
  <2>3. /\ cli'[r] = Pm2Command(Action(r))
        /\ \A q \in Requests \ {r} : cli'[q] = cli[q]
    BY <1>3 DEF TypeOK
  <2>4. QED
    BY <1>3, <2>1, <2>2, <2>3, GotoAdvances DEF GoesOn
<1>4. QED
  BY <1>1, <1>2, <1>3 DEF Supervise

\* So does going on from what inspect said.
LEMMA InspectedAdvances ==
    ASSUME TypeOK, NEW r \in Requests, NEW status \in Statuses, Inspected(r, status),
           order[r].op \in SupervisedOps, pc[r] = "inspect"
    PROVE  GoesOn(r)
<1>1. CASE Action(r) = "status"
  <2>1. Report("status", status # "missing", status) \in Reports
    BY DEF Report, Reports, Ops
  <2>2. QED
    BY <1>1, <2>1, SupervisedAdvances DEF Inspected, GoesOn
<1>2. CASE Action(r) # "status"
  <2>1. CommandFor(Action(r), status = "missing") # "none"
    BY <1>2 DEF CommandFor, Action, SupervisedOps
  <2>2. Goto(r, "act", FALSE) /\ cli' = [cli EXCEPT ![r] = CommandFor(Action(r), status = "missing")]
    BY <1>2 DEF Inspected
  <2>3. Distance("act") < Distance(pc[r])
    BY DEF Distance
  <2>4. /\ cli'[r] = CommandFor(Action(r), status = "missing")
        /\ \A q \in Requests \ {r} : cli'[q] = cli[q]
    BY <2>2 DEF TypeOK
  <2>5. QED
    BY <2>1, <2>2, <2>3, <2>4, GotoAdvances DEF GoesOn
<1>3. QED
  BY <1>1, <1>2

\* Whenever the loop resumes a handler, the handler comes nearer to its end and is
\* left with something to wait for.
LEMMA ResumeAdvances ==
    ASSUME TypeOK, HandlerOps, NEW r \in Requests, Resume(r)
    PROVE  GoesOn(r)
<1>1. CASE InspectAnswers(r)
  <2>1. PICK status \in Observed : Inspected(r, status)
    BY <1>1 DEF InspectAnswers
  <2>2. status \in Statuses
    BY DEF Observed, Statuses, TypeOK, Processes
  <2>3. QED
    BY <1>1, <2>1, <2>2, InspectedAdvances DEF InspectAnswers, HandlerOps
<1>2. CASE InspectFails(r)
  BY <1>2, InspectedAdvances DEF InspectFails, HandlerOps, Statuses
<1>3. CASE ActReturns(r)
  <2>1. ActReport(r, cli[r] = "zero") \in Reports
    BY ActReportType DEF TypeOK, OrdersTyped
  <2>2. \A q \in Requests \ {r} : cli'[q] = cli[q]
    BY <1>3 DEF ActReturns, TypeOK
  <2>3. QED
    BY <1>3, <2>1, <2>2, SupervisedAdvances DEF ActReturns, GoesOn
<1>4. CASE ActTimesOut(r)
  <2>1. ActReport(r, FALSE) \in Reports
    BY ActReportType DEF TypeOK, OrdersTyped
  <2>2. QED
    BY <1>4, <2>1, SupervisedAdvances DEF ActTimesOut, GoesOn
<1>5. CASE ProbeReturns(r)
  <2>1. PICK ok : Goto(r, "done", ok)
    BY <1>5 DEF ProbeReturns
  <2>2. Distance("done") < Distance(pc[r])
    BY <1>5 DEF ProbeReturns, Distance
  <2>3. UNCHANGED cli
    BY <1>5 DEF ProbeReturns
  <2>4. QED
    BY <2>1, <2>2, <2>3, GotoAdvances DEF GoesOn
<1>6. QED
  BY <1>1, <1>2, <1>3, <1>4, <1>5 DEF Resume

\* So does every step of a handler, from its arrival on.
LEMMA HandlerGoesOn ==
    ASSUME IInv, NEW r \in Requests,
           Arrival(r) \/ Resume(r) \/ WriteFails(r) \/ SpawnFails(r)
    PROVE  GoesOn(r)
<1>a. TypeOK /\ HandlerOps /\ \A q \in Requests : Tracked(q)
  BY TrackedOps DEF IInv
<1>c. ASSUME NEW step \in Ended, NEW ok, Goto(r, step, ok),
             pc[r] \notin Ended, \A q \in Requests \ {r} : cli'[q] = cli[q]
      PROVE  GoesOn(r)
  <2>1. Distance(step) < Distance(pc[r])
    BY <1>a, <1>c DEF Distance, Ended, Suspended, TypeOK
  <2>2. QED
    BY <1>a, <1>c, <2>1, GotoAdvances DEF GoesOn, Ended
<1>d. ASSUME NEW s, NEW verdict \in BOOLEAN, Probe(r, s, verdict),
             pc[r] = "idle", UNCHANGED cli
      PROVE  GoesOn(r)
  <2>1. PICK step \in {"probe", "done", "failed"}, ok \in BOOLEAN : Goto(r, step, ok)
    BY <1>d, ProbeGoes
  <2>2. Distance(step) < Distance(pc[r])
    BY <1>d DEF Distance
  <2>3. QED
    BY <1>a, <1>d, <2>1, <2>2, GotoAdvances DEF GoesOn
<1>1. CASE RenderConfig(r) \/ WriteConfig(r) \/ WriteFails(r)
  <2>1. /\ pc[r] = "idle" /\ UNCHANGED cli
        /\ Goto(r, "done", TRUE) \/ Goto(r, "failed", FALSE)
    BY <1>1 DEF RenderConfig, WriteConfig, WriteFails, Arrives
  <2>2. QED
    BY <1>c, <2>1 DEF Ended
<1>2. CASE MqttCheck(r)
  <2>1. pc[r] = "idle" /\ UNCHANGED cli
    BY <1>2 DEF MqttCheck, Arrives
  <2>2. PICK step \in {"probe", "done", "failed"}, ok \in BOOLEAN : Goto(r, step, ok)
    BY <1>2 DEF MqttCheck
  <2>3. Distance(step) < Distance(pc[r])
    BY <2>1 DEF Distance
  <2>4. QED
    BY <1>a, <2>1, <2>2, <2>3, GotoAdvances DEF GoesOn
<1>3. CASE ApplyBridge(r)
  <2>1. pc[r] = "idle" /\ order[r].op \in SupervisedOps
    BY <1>3 DEF ApplyBridge, Arrives, SupervisedOps
  <2>2. Supervise(r) \/ (Probe(r, store, TRUE) /\ UNCHANGED cli)
    BY <1>3 DEF ApplyBridge
  <2>3. QED
    BY <1>a, <1>d, <2>1, <2>2, SuperviseAdvances
<1>4. CASE SupervisorRoute(r)
  BY <1>a, <1>4, SuperviseAdvances DEF SupervisorRoute, Arrives, SupervisedOps
<1>5. CASE Resume(r)
  BY <1>a, <1>5, ResumeAdvances
<1>6. CASE SpawnFails(r)
  <2>1. /\ Goto(r, "failed", FALSE) /\ pc[r] \notin Ended
        /\ \A q \in Requests \ {r} : cli'[q] = cli[q]
    BY <1>a, <1>6 DEF SpawnFails, Ended, TypeOK
  <2>2. QED
    BY <1>c, <2>1 DEF Ended
<1>7. QED
  BY <1>1, <1>2, <1>3, <1>4, <1>5, <1>6 DEF Arrival

\* Every step moves handlers towards their end only, and leaves none waiting for a
\* command line that nobody runs.
LEMMA StepAdvances ==
    ASSUME IInv, Awaiting, [Next]_vars
    PROVE  (\A q \in Requests : Advances(q)) /\ Awaiting'
<1>a. TypeOK
  BY DEF IInv
<1>1. ASSUME NEW r \in Requests, Arrival(r) \/ Resume(r) \/ WriteFails(r) \/ SpawnFails(r)
      PROVE  (\A q \in Requests : Advances(q)) /\ Awaiting'
  <2>1. GoesOn(r)
    BY <1>1, HandlerGoesOn
  <2>2. QED
    BY <2>1 DEF GoesOn, Advances, Awaiting
<1>2. ASSUME NEW r \in Requests, CommandFails(r) \/ DaemonPerforms(r) \/ CommandDropped(r)
      PROVE  (\A q \in Requests : Advances(q)) /\ Awaiting'
  <2>1. UNCHANGED <<pc, reply>>
    BY <1>2 DEF CommandFails, DaemonPerforms, CommandDropped
  <2>2. /\ \A q \in Requests \ {r} : cli'[q] = cli[q]
        /\ pc[r] = "act" => cli'[r] # "none"
    BY <1>a, <1>2 DEF CommandFails, DaemonPerforms, CommandDropped, Returns, TypeOK
  <2>3. QED
    BY <2>1, <2>2 DEF Advances, Awaiting
<1>3. ASSUME NEW also \in SUBSET Requests, LoseAll(also), UNCHANGED <<cli, reply>>,
             \A q \in also : pc[q] = "idle"
      PROVE  (\A q \in Requests : Advances(q)) /\ Awaiting'
  <2>1. \A q \in Requests : pc'[q] = pc[q]
                            \/ (pc[q] \in {"idle"} \cup Suspended /\ pc'[q] = "lost")
    BY <1>a, <1>3 DEF LoseAll
  <2>2. \A q \in Requests : Advances(q)
    BY <1>3, <2>1 DEF Advances, Distance, Suspended
  <2>3. QED
    BY <1>3, <2>1, <2>2 DEF Awaiting
<1>4. CASE Boots \/ ProcessDies \/ ProcessRestarts \/ UNCHANGED vars
  <2>1. UNCHANGED <<pc, reply, cli>>
    BY <1>4 DEF Boots, ProcessDies, ProcessRestarts, vars
  <2>2. QED
    BY <2>1 DEF Advances, Awaiting
<1>5. CASE Crash
  BY <1>3, <1>5 DEF Crash
<1>6. ASSUME NEW r \in Requests, CrashInWrite(r)
      PROVE  (\A q \in Requests : Advances(q)) /\ Awaiting'
  BY <1>3, <1>6 DEF CrashInWrite
<1>7. QED
  BY <1>1, <1>2, <1>4, <1>5, <1>6 DEF Next, Failure

\* A handler that waits for a command line waits for one that was issued and has
\* not been forgotten, so it can time out if nothing else (supervisor.py:53-63).
THEOREM NobodyForgotten == Spec => []Awaiting
<1>1. Init => Awaiting
  BY DEF Init, Awaiting
<1>2. IInv /\ Awaiting /\ [Next]_vars => Awaiting'
  BY StepAdvances
<1>3. QED
  BY <1>1, <1>2, Invariance, PTL DEF Spec

\* Handlers never go back: every step leaves a handler where it stands or nearer to
\* its end, and an answer that was given never changes.
THEOREM HandlersAdvance == Spec => [][\A r \in Requests : Advances(r)]_<<pc, reply>>
<1>1. IInv /\ Awaiting /\ [Next]_vars => [\A r \in Requests : Advances(r)]_<<pc, reply>>
  BY StepAdvances
<1>2. QED
  BY <1>1, NobodyForgotten, Invariance, PTL DEF Spec

\* Whenever the loop resumes a handler it comes nearer to its end: at most three
\* resumptions answer a request (bridge.py:131-193).
THEOREM ResumptionsAdvance ==
    Spec => [][\A r \in Requests : Resume(r) => Distance(pc'[r]) < Distance(pc[r])]_vars
<1>1. IInv => [\A r \in Requests : Resume(r) => Distance(pc'[r]) < Distance(pc[r])]_vars
  BY ResumeAdvances, TrackedOps DEF IInv, GoesOn
<1>2. QED
  BY <1>1, Invariance, PTL

(***************************************************************************)
(* The refinement.  Every step of a handler, of the daemon or of the       *)
(* process is one step of BridgeService or none: a request is taken with   *)
(* its write, and answered by a confirmation only when the start that      *)
(* loads its file lies behind it.                                          *)
(***************************************************************************)

Phases == [r \in Requests |-> Phase(r)]

\* A request whose handler a step leaves alone is as far as it was.
LEMMA PhaseStays ==
    ASSUME NEW q, pc'[q] = pc[q], reply'[q] = reply[q],
           required'[q] = required[q], order' = order
    PROVE  Phase(q)' = Phase(q)
BY DEF Phase, RestartConfirmed

\* What the client sees of a request follows from where its handler is.
LEMMA PhaseOf ==
    ASSUME TypeOK, NEW r \in Requests
    PROVE  /\ pc[r] = "idle" <=> Phase(r) = "new"
           /\ pc[r] \in Suspended <=> Phase(r) = "open"
           /\ RestartConfirmed(r) <=> Phase(r) = "confirmed"
           /\ Phase(r) \in {"new", "open", "confirmed", "closed"}
BY DEF Phase, Suspended, RestartConfirmed

\* The step of one handler moves one request, and never back to where it was new.
LEMMA HandlerPhases ==
    ASSUME IInv, [Next]_vars, NEW r \in Requests,
           Arrival(r) \/ Resume(r) \/ WriteFails(r) \/ SpawnFails(r)
    PROVE  /\ Phases' = [Phases EXCEPT ![r] = Phase(r)']
           /\ Phase(r)' \in {"open", "confirmed", "closed"}
           /\ Phase(r)' = "confirmed" <=> RestartConfirmed(r)'
           /\ Phase(r)' = "open" <=> pc'[r] \in Suspended
<1>1. GoesOn(r)
  BY HandlerGoesOn
<1>2. order' = order /\ \A q \in Requests \ {r} : required'[q] = required[q]
  <2>1. CASE ApplyBridge(r)
    BY <2>1 DEF ApplyBridge, IInv, TypeOK
  <2>2. CASE ~ApplyBridge(r)
    <3>1. UNCHANGED <<order, required>>
      BY <2>2 DEF Arrival, RenderConfig, WriteConfig, SupervisorRoute, MqttCheck, Resume,
            InspectAnswers, InspectFails, ActReturns, ActTimesOut, ProbeReturns,
            WriteFails, SpawnFails
    <3>2. QED
      BY <3>1
  <2>3. QED
    BY <2>1, <2>2
<1>3. \A q \in Requests \ {r} : Phase(q)' = Phase(q)
  BY <1>1, <1>2, PhaseStays DEF GoesOn
<1>4. pc'[r] # "idle"
  BY <1>1 DEF GoesOn, Distance
<1>5. Phases' = [Phases EXCEPT ![r] = Phase(r)']
  BY <1>3 DEF Phases
<1>6. QED
  BY <1>4, <1>5 DEF Phase, Suspended, RestartConfirmed

\* A confirmed restart has been started for, at the moment it is confirmed.
LEMMA ConfirmedSince ==
    ASSUME IInv, [Next]_vars, NEW r \in Requests, RestartConfirmed(r)'
    PROVE  r \in fresh'
<1>1. IInv'
  BY StepIInv
<1>2. QED
  BY <1>1 DEF IInv, Tracked, RestartConfirmed, Restarting, Asked

\* Nothing is confirmed before a handler's first suspension: a real restart is
\* waited for (bridge.py:152-176).
LEMMA ArrivalUnconfirmed ==
    ASSUME TypeOK, NEW r \in Requests, Arrival(r) \/ WriteFails(r)
    PROVE  ~RestartConfirmed(r)'
<1>1. ASSUME Supervise(r), order' = order PROVE ~RestartConfirmed(r)'
  <2>1. order[r].sup # "live" \/ Goto(r, "inspect", FALSE) \/ Goto(r, "act", FALSE)
    BY <1>1, SuperviseGoes
  <2>2. QED
    BY <1>1, <2>1 DEF RestartConfirmed, Goto, TypeOK
<1>2. CASE RenderConfig(r) \/ WriteConfig(r) \/ MqttCheck(r)
  BY <1>2 DEF RenderConfig, WriteConfig, MqttCheck, Arrives, RestartConfirmed
<1>3. CASE WriteFails(r)
  BY <1>3 DEF WriteFails, Goto, RestartConfirmed, TypeOK
<1>4. CASE SupervisorRoute(r)
  BY <1>1, <1>4 DEF SupervisorRoute
<1>5. CASE ApplyBridge(r)
  <2> DEFINE needed == RestartRequired(order[r].policy, file[order[r].path] # order[r].config)
  <2>1. /\ order' = order /\ order[r].op = "apply"
        /\ required' = [required EXCEPT ![r] = needed]
        /\ IF needed /\ order[r].sup # "none" THEN Supervise(r)
           ELSE Probe(r, store, TRUE) /\ UNCHANGED cli
    BY <1>5 DEF ApplyBridge, Arrives
  <2>2. CASE needed /\ order[r].sup # "none"
    BY <1>1, <2>1, <2>2
  <2>3. CASE ~needed \/ order[r].sup = "none"
    <3>1. required'[r] = needed
      BY <2>1 DEF TypeOK
    <3>2. QED
      BY <2>1, <2>3, <3>1 DEF RestartConfirmed
  <2>4. QED
    BY <2>2, <2>3
<1>6. QED
  BY <1>2, <1>3, <1>4, <1>5 DEF Arrival

\* A write arms its request, and changes what Zigbee2MQTT reads or leaves it.
LEMMA WriteServes ==
    ASSUME TypeOK, NEW r \in Requests, order[r].op \in Writers, WriteFile(r)
    PROVE  Service!Arms(r)
<1>1. order[r].path \in Paths /\ order[r].config \in Configs
  BY OrderFields DEF TypeOK, OrdersTyped
<1>2. /\ file' = [file EXCEPT ![order[r].path] = order[r].config]
      /\ changer' = IF file[order[r].path] = order[r].config THEN changer
                    ELSE [changer EXCEPT ![order[r].path] = r]
      /\ armed' = armed \cup {r}
  BY DEF WriteFile
<1>3. Mounted \in Paths
  BY BridgeAssumption DEF BridgeAssumption
<1>4. CASE order[r].path = Mounted /\ file[Mounted] # order[r].config
  <2>1. file'[Mounted] = order[r].config /\ changer'[Mounted] = r
    BY <1>1, <1>2, <1>3, <1>4 DEF TypeOK
  <2>2. QED
    BY <1>1, <1>2, <1>4, <2>1 DEF Service!Arms
<1>5. CASE order[r].path # Mounted \/ file[Mounted] = order[r].config
  <2>1. file'[Mounted] = file[Mounted] /\ changer'[Mounted] = changer[Mounted]
    BY <1>1, <1>2, <1>3, <1>5 DEF TypeOK
  <2>2. QED
    BY <1>2, <2>1 DEF Service!Arms, Service!files
<1>6. QED
  BY <1>4, <1>5

\* An arrival is a request taken, with its write if it writes.
LEMMA ArrivalTakes ==
    ASSUME IInv, [Next]_vars, NEW r \in Requests, Arrival(r) \/ WriteFails(r)
    PROVE  Service!Take(r)
<1>a. TypeOK
  BY DEF IInv
<1>1. Phase(r) = "new"
  BY <1>a, PhaseOf DEF Arrival, RenderConfig, WriteConfig, ApplyBridge, SupervisorRoute,
        MqttCheck, WriteFails, Arrives
<1>2. Phases' = [Phases EXCEPT ![r] = Phase(r)'] /\ Phase(r)' \in {"open", "closed"}
  BY <1>a, HandlerPhases, ArrivalUnconfirmed
<1>3. Service!Arms(r) \/ UNCHANGED <<Service!files, armed>>
  <2>1. CASE RenderConfig(r) \/ MqttCheck(r) \/ WriteFails(r)
    BY <2>1 DEF RenderConfig, MqttCheck, WriteFails, files, Service!files
  <2>2. CASE WriteConfig(r) \/ ApplyBridge(r)
    BY <1>a, <2>2, WriteServes DEF WriteConfig, ApplyBridge, Arrives, Writers
  <2>3. CASE SupervisorRoute(r)
    <3>1. /\ file' = file /\ changer' = changer
          /\ armed' = armed \/ armed' = armed \cup {r}
      BY <2>3 DEF SupervisorRoute, files
    <3>2. QED
      BY <3>1 DEF Service!Arms, Service!files
  <2>4. QED
    BY <2>1, <2>2, <2>3 DEF Arrival
<1>4. process' = process /\ fresh' = fresh
  BY DEF Arrival, RenderConfig, WriteConfig, ApplyBridge, SupervisorRoute, MqttCheck,
         WriteFails, machine
<1>5. UNCHANGED Service!machine
  BY <1>4 DEF Service!machine
<1>6. QED
  BY <1>1, <1>2, <1>3, <1>5 DEF Phases, Service!Take

\* A handler that goes on confirms its request, closes it, or stays suspended.
LEMMA ResumeAnswers ==
    ASSUME IInv, [Next]_vars, NEW r \in Requests, Resume(r) \/ SpawnFails(r)
    PROVE  Service!Confirm(r) \/ Service!Close(r) \/ UNCHANGED Service!vars
<1>a. TypeOK
  BY DEF IInv
<1>1. Phase(r) = "open"
  BY <1>a, PhaseOf DEF Resume, InspectAnswers, InspectFails, ActReturns, ActTimesOut,
        ProbeReturns, SpawnFails, Suspended
<1>2. file' = file /\ changer' = changer /\ armed' = armed /\ process' = process /\ fresh' = fresh
  BY DEF Resume, InspectAnswers, InspectFails, ActReturns, ActTimesOut, ProbeReturns,
         SpawnFails, files, machine
<1>3. UNCHANGED <<Service!files, armed, Service!machine>>
  BY <1>2 DEF Service!files, Service!machine
<1>4. Phases' = [Phases EXCEPT ![r] = Phase(r)']
  BY HandlerPhases
<1>5. CASE Phase(r)' = "open"
  <2>1. Phases' = Phases
    BY <1>1, <1>4, <1>5 DEF Phases
  <2>2. QED
    BY <1>2, <2>1 DEF Phases, Service!vars
<1>6. CASE Phase(r)' = "closed"
  BY <1>1, <1>3, <1>4, <1>6 DEF Phases, Service!Close
<1>7. CASE Phase(r)' = "confirmed"
  <2>1. r \in fresh
    BY <1>2, <1>7, HandlerPhases, ConfirmedSince
  <2>2. QED
    BY <1>1, <1>3, <1>4, <1>7, <2>1 DEF Phases, Service!Confirm
<1>8. QED
  BY <1>5, <1>6, <1>7, HandlerPhases

\* A crash of the sidecar closes what is open, and the request it is writing for.
LEMMA CrashLoses ==
    ASSUME TypeOK, NEW also \in SUBSET Requests, LoseAll(also),
           UNCHANGED <<reply, required, order>>
    PROVE  Service!Lose(also)
<1>1. ASSUME NEW q \in Requests
      PROVE  Phase(q)' = IF q \in also \/ Phase(q) = "open" THEN "closed" ELSE Phase(q)
  <2>1. pc'[q] = IF q \in also \/ pc[q] \in Suspended THEN "lost" ELSE pc[q]
    BY DEF LoseAll
  <2>2. CASE q \in also \/ pc[q] \in Suspended
    <3>1. Phase(q)' = "closed"
      BY <2>1, <2>2 DEF Phase, Suspended, RestartConfirmed
    <3>2. QED
      BY <2>2, <3>1, PhaseOf
  <2>3. CASE ~(q \in also \/ pc[q] \in Suspended)
    <3>1. pc'[q] = pc[q]
      BY <2>1, <2>3
    <3>2. Phase(q)' = Phase(q)
      BY <3>1, PhaseStays
    <3>3. QED
      BY <2>3, <3>2, PhaseOf
  <2>4. QED
    BY <2>2, <2>3
<1>2. QED
  BY <1>1 DEF Service!Lose

\* What the daemon and the process do to the process is a start, a stop or nothing.
LEMMA DaemonServes ==
    ASSUME TypeOK, UNCHANGED <<file, changer, effective, armed, order, pc, required, reply>>,
           \/ Starts /\ process.state # "running"
           \/ \E state \in {"exited", "crashed", "missing"} : Stops(state)
           \/ UNCHANGED machine
    PROVE  Service!Start \/ Service!Stop \/ UNCHANGED Service!vars
<1>1. Phases' = Phases
  BY PhaseStays DEF Phases
<1>2. UNCHANGED <<Phases, Service!files, armed>>
  BY <1>1 DEF Service!files
<1>3. CASE Starts /\ process.state # "running"
  BY <1>2, <1>3, ProcessMoves DEF Phases, Service!Start
<1>4. CASE \E state \in {"exited", "crashed", "missing"} : Stops(state)
  <2>1. process'.state # "running" /\ process'.loaded = Unread /\ fresh' = fresh
    BY <1>4 DEF Stops, TypeOK, Processes
  <2>2. QED
    BY <1>2, <2>1 DEF Phases, Service!Stop
<1>5. CASE UNCHANGED machine
  BY <1>1, <1>5 DEF Phases, machine, Service!vars
<1>6. QED
  BY <1>3, <1>4, <1>5

\* Nobody knows the bridge yet, and Zigbee2MQTT has read nothing.
LEMMA InitServes == Init => Service!Init
<1> SUFFICES ASSUME Init PROVE Service!Init
  OBVIOUS
<1>1. Mounted \in Paths /\ NoRequest \notin Requests
  BY BridgeAssumption DEF BridgeAssumption
<1>2. /\ file[Mounted] \in Configs \cup {NoConfig} /\ changer[Mounted] = NoRequest
      /\ armed = {} /\ fresh = {} /\ process.loaded = Unread
      /\ pc = [r \in Requests |-> "idle"]
  BY <1>1 DEF Init
<1>3. Phases = [r \in Requests |-> "new"]
  BY <1>2 DEF Phases, Phase, Suspended, RestartConfirmed
<1>4. (process.state = "running") \in BOOLEAN
  OBVIOUS
<1>5. QED
  BY Zenon, <1>1, <1>2, <1>3, <1>4 DEF Phases, Service!Init

\* The routes, the daemon's command lines and the process implement the promise of
\* BridgeService, for any number of requests and failures under docker and pm2: a
\* request is told that its restart happened only when Zigbee2MQTT was started after
\* its write, and what is started runs on the file as it is then read
\* (bridge.py:131-193).
THEOREM ServiceImplemented == Spec => KeepsPromise
<1>1. IInv /\ [Next]_vars => [Service!Next]_Service!vars
  <2> SUFFICES ASSUME IInv, [Next]_vars PROVE [Service!Next]_Service!vars
    OBVIOUS
  <2>a. TypeOK
    BY DEF IInv
  <2>1. ASSUME NEW r \in Requests, Arrival(r) \/ WriteFails(r)
        PROVE  [Service!Next]_Service!vars
    BY <2>1, ArrivalTakes DEF Service!Next
  <2>2. ASSUME NEW r \in Requests, Resume(r) \/ SpawnFails(r)
        PROVE  [Service!Next]_Service!vars
    BY <2>2, ResumeAnswers DEF Service!Next
  <2>3. ASSUME NEW r \in Requests, DaemonPerforms(r) \/ CommandFails(r) \/ CommandDropped(r)
        PROVE  [Service!Next]_Service!vars
    <3>1. UNCHANGED <<file, changer, effective, armed, order, pc, required, reply>>
      BY <2>3 DEF DaemonPerforms, CommandFails, CommandDropped, files
    <3>2. \/ Starts /\ process.state # "running"
          \/ \E state \in {"exited", "crashed", "missing"} : Stops(state)
          \/ UNCHANGED machine
      BY <2>3 DEF DaemonPerforms, CommandFails, CommandDropped
    <3>3. QED
      BY <2>a, <3>1, <3>2, DaemonServes DEF Service!Next
  <2>4. CASE ProcessDies \/ ProcessRestarts
    <3>1. UNCHANGED <<file, changer, effective, armed, order, pc, required, reply>>
      BY <2>4 DEF ProcessDies, ProcessRestarts, files
    <3>2. \/ Starts /\ process.state # "running"
          \/ \E state \in {"exited", "crashed", "missing"} : Stops(state)
      BY <2>4 DEF ProcessDies, ProcessRestarts
    <3>3. QED
      BY <2>a, <3>1, <3>2, DaemonServes DEF Service!Next
  <2>5. CASE Boots
    <3>1. /\ UNCHANGED <<file, changer, effective, armed, order, pc, required, reply, fresh>>
          /\ process.state = "running" /\ process.loaded = Unread
          /\ process'.state = "running" /\ process'.loaded = file[Mounted]
      BY <2>a, <2>5 DEF Boots, files, TypeOK, Processes
    <3>2. Phases' = Phases
      BY <3>1, PhaseStays DEF Phases
    <3>3. Service!Read
      BY <3>1, <3>2 DEF Phases, Service!Read, Service!files
    <3>4. QED
      BY <3>3 DEF Service!Next
  <2>6. CASE Crash
    <3>1. /\ LoseAll({})
          /\ UNCHANGED <<file, changer, effective, armed, order, required, reply, process, fresh>>
      BY <2>6 DEF Crash, files, machine
    <3>2. Service!Die
      BY <2>a, <3>1, CrashLoses DEF Service!Die, Service!files, Service!machine
    <3>3. QED
      BY <3>2 DEF Service!Next
  <2>7. ASSUME NEW r \in Requests, CrashInWrite(r)
        PROVE  [Service!Next]_Service!vars
    <3>1. /\ LoseAll({r}) /\ WriteFile(r) /\ pc[r] = "idle" /\ order[r].op \in Writers
          /\ UNCHANGED <<order, required, reply, process, fresh>>
      BY <2>7 DEF CrashInWrite, machine
    <3>2. Service!Lose({r}) /\ Service!Arms(r) /\ Phase(r) = "new"
      BY <2>a, <3>1, CrashLoses, WriteServes, PhaseOf
    <3>3. Service!DieWriting(r)
      BY <3>1, <3>2 DEF Service!DieWriting, Service!machine
    <3>4. QED
      BY <3>3 DEF Service!Next
  <2>8. CASE UNCHANGED vars
    <3>1. Phases' = Phases
      BY <2>8, PhaseStays DEF vars, Phases
    <3>2. QED
      BY <2>8, <3>1 DEF vars, Phases, Service!vars
  <2>9. QED
    BY <2>1, <2>2, <2>3, <2>4, <2>5, <2>6, <2>7, <2>8 DEF Next, Failure
<1>2. QED
  BY <1>1, InitServes, Invariance, PTL DEF Spec, KeepsPromise, Service!Spec

=============================================================================
