------------------------------- MODULE Bridge -------------------------------
(***************************************************************************)
(* The bridge: every route that renders, writes or applies a configuration *)
(* or drives the supervisor, the in-memory SidecarStore they share, the    *)
(* configuration files, and the Zigbee2MQTT process under docker or pm2.   *)
(*                                                                         *)
(* One asyncio loop runs all handlers.  A handler is cut only where an     *)
(* await really suspends: waiting for a command line (inspect, act) and    *)
(* for the TCP probe of the broker.  Everything between two such points is *)
(* one action here.  write_config_atomic does not suspend and is the one   *)
(* step ConfigFile promises.                                               *)
(*                                                                         *)
(* A configuration stands for the text it renders to and for the hash of   *)
(* that text.                                                              *)
(***************************************************************************)
EXTENDS Naturals

CONSTANTS
    Requests,   \* HTTP requests, each served once
    Orders,     \* what requests may ask for
    Configs,    \* configurations
    Paths,      \* files configurations are written to
    Mounted,    \* the one of them Zigbee2MQTT reads
    Modes,      \* SupervisorMode: what Zigbee2MQTT may run under
    MaxFaults,  \* bound: failures of the environment
    NoConfig, NoPath, NoRequest, Unread

Ops == {"render", "write", "apply", "configure", "start", "stop", "restart",
        "status", "logs", "check"}
Policies == {"never", "changed", "always"}
\* The supervisor of a request: absent, without settings for its mode, dry run, real.
Supervisors == {"none", "invalid", "dry", "live"}
\* Its MQTT check: absent (or without a server), dry run, real, or with a
\* server parse_mqtt_endpoint rejects.
Checks == {"none", "dry", "live", "bad"}

OrderType == [op: Ops, config: Configs, path: Paths \cup {NoPath},
              policy: Policies, sup: Supervisors, chk: Checks]

Writers == {"write", "apply", "configure"}

ASSUME BridgeAssumption ==
    /\ Orders \subseteq OrderType
    /\ \A o \in Orders : o.op \in Writers => o.path \in Paths
    /\ Mounted \in Paths
    /\ Modes \subseteq {"docker", "pm2"}
    /\ MaxFaults \in Nat
    /\ NoConfig \notin Configs /\ Unread \notin Configs /\ Unread # NoConfig
    /\ NoPath \notin Paths
    /\ NoRequest \notin Requests

VARIABLES
    file,       \* path -> the configuration it holds
    store,      \* the SidecarStore
    order,      \* request -> what it asks for (never changes)
    pc,         \* request -> where its handler is
    required,   \* request -> restart_required
    reply,      \* request -> ok so far, and of the answer when done
    cli,        \* request -> its command line and what became of it
    process,    \* the supervised Zigbee2MQTT and the file it booted from
    faults,     \* environment failures so far
    \* History:
    changer,    \* path -> the request whose write last changed it
    effective,  \* requests whose write changed the file they wrote
    armed,      \* requests whose effect the next process start must show
    fresh,      \* those armed when the process last started
    calm        \* no overlap, timeout or environment failure so far

vars == <<file, store, order, pc, required, reply, cli, process, faults,
          changer, effective, armed, fresh, calm>>

Statuses == {"none", "planned", "invalid", "missing", "unknown", "running",
             "exited", "restarting", "online", "managed", "stopped", "collected"}
Reports == [action: Ops \cup {"none"}, ok: BOOLEAN, status: Statuses]
Probes == {"none", "planned", "reachable", "unreachable"}
Stores == [config: Configs \cup {NoConfig}, path: Paths \cup {NoPath},
           hash: Configs \cup {NoConfig}, error: BOOLEAN,
           supervisor: Reports, check: Probes,
           draft: BOOLEAN]  \* history: last set by a render, nothing written
Commands == {"run", "start", "stop", "restart", "starting", "logs"}
Processes == [mode: Modes, state: {"missing", "running", "exited", "crashed"},
              loaded: Configs \cup {NoConfig, Unread}]

Ended == {"done", "failed", "lost"}
Suspended == {"inspect", "act", "probe"}

TypeOK ==
    /\ file \in [Paths -> Configs \cup {NoConfig}]
    /\ store \in Stores
    /\ order \in [Requests -> Orders]
    /\ pc \in [Requests -> {"idle"} \cup Suspended \cup Ended]
    /\ required \in [Requests -> BOOLEAN]
    /\ reply \in [Requests -> BOOLEAN]
    /\ cli \in [Requests -> Commands \cup {"none", "zero", "nonzero"}]
    /\ process \in Processes
    /\ faults \in 0 .. MaxFaults
    /\ changer \in [Paths -> Requests \cup {NoRequest}]
    /\ effective \in SUBSET Requests
    /\ armed \in SUBSET Requests
    /\ fresh \in SUBSET Requests
    /\ calm \in BOOLEAN

Report(action, ok, status) == [action |-> action, ok |-> ok, status |-> status]

\* SidecarStore.__init__
EmptyStore ==
    [config |-> NoConfig, path |-> NoPath, hash |-> NoConfig, error |-> FALSE,
     supervisor |-> Report("none", FALSE, "none"), check |-> "none", draft |-> FALSE]

Init ==
    /\ file \in [Paths -> Configs \cup {NoConfig}]
    /\ store = EmptyStore
    /\ order \in [Requests -> Orders]
    /\ pc = [r \in Requests |-> "idle"]
    /\ required = [r \in Requests |-> FALSE]
    /\ reply = [r \in Requests |-> FALSE]
    /\ cli = [r \in Requests |-> "none"]
    /\ process \in [mode: Modes, state: {"missing", "running", "exited"}, loaded: {Unread}]
    /\ faults = 0
    /\ changer = [p \in Paths |-> NoRequest]
    /\ effective = {}
    /\ armed = {}
    /\ fresh = {}
    /\ calm = TRUE

files == <<file, changer, effective>>
machine == <<process, fresh>>

----------------------------------------------------------------------------
(* Pieces of handlers.                                                     *)

Goto(r, step, ok) ==
    /\ pc' = [pc EXCEPT ![r] = step]
    /\ reply' = [reply EXCEPT ![r] = ok]

\* A request reaches its handler; others may be suspended in theirs.
Arrives(r, ops) ==
    /\ pc[r] = "idle"
    /\ order[r].op \in ops
    /\ calm' = (calm /\ \A q \in Requests : pc[q] \notin Suspended)

Fault ==
    /\ faults < MaxFaults
    /\ faults' = faults + 1
    /\ calm' = FALSE

\* write_config_atomic, when it succeeds.
WriteFile(r) ==
    LET o == order[r] IN
    /\ file' = [file EXCEPT ![o.path] = o.config]
    /\ changer' = IF file[o.path] = o.config THEN changer
                  ELSE [changer EXCEPT ![o.path] = r]
    /\ effective' = IF file[o.path] = o.config THEN effective ELSE effective \cup {r}
    /\ armed' = armed \cup {r}

\* Mutant: the hash of the previous configuration stays.
RecordedStaleHash(r, s) ==
    [s EXCEPT !.config = order[r].config, !.path = order[r].path, !.error = FALSE,
              !.draft = (order[r].op = "render")]

\* The store after a handler has recorded its configuration.
Recorded(r, s) ==
    [s EXCEPT !.config = order[r].config, !.path = order[r].path,
              !.hash = order[r].config, !.error = FALSE,
              !.draft = (order[r].op = "render")]

\* Mutant: whether the file changed is not looked at.
RestartRequiredWhateverChanged(policy, changed) == policy # "never"

RestartRequired(policy, changed) ==
    policy = "always" \/ (policy = "changed" /\ changed)

\* What apply_bridge does once the supervisor has answered (or was not asked):
\* probe the broker, then record the configuration and answer.  s is the store
\* so far, ok the supervisor's verdict.
Probe(r, s, ok) ==
    LET chk == order[r].chk IN
    \/ chk = "live" /\ store' = s /\ Goto(r, "probe", ok)
    \/ chk = "bad"  /\ store' = s /\ Goto(r, "failed", FALSE)
    \/ chk = "none" /\ store' = Recorded(r, s) /\ Goto(r, "done", ok)
    \/ chk = "dry"  /\ store' = Recorded(r, [s EXCEPT !.check = "planned"])
                    /\ Goto(r, "done", ok)

\* The supervisor has answered: its report is stored, and apply goes on.
Supervised(r, report) ==
    LET s == [store EXCEPT !.supervisor = report] IN
    IF order[r].op = "apply"
    THEN Probe(r, s, report.ok)
    ELSE store' = s /\ Goto(r, "done", report.ok)

\* The action supervise() is called with.
Action(r) == IF order[r].op = "apply" THEN "restart" ELSE order[r].op

\* A supervisor that runs no command answers at once: without settings, or with
\* dry_run, when every command line "returns" 0 with no output.
ImmediateReport(r) ==
    LET a == Action(r) IN
    CASE order[r].sup = "invalid" -> Report(a, FALSE, "invalid")
      [] order[r].sup = "dry" /\ a # "status" -> Report(a, TRUE, "planned")
      [] order[r].sup = "dry" /\ a = "status" /\ process.mode = "docker" -> Report(a, TRUE, "unknown")
      [] OTHER -> Report(a, FALSE, "missing")

\* Mutant: docker start, which does nothing to a running container, for a restart.
CommandForStartOnly(action, missing) ==
    CASE action \in {"start", "restart"} -> IF missing THEN "run" ELSE "start"
      [] OTHER -> action

\* The command line of an action, given what docker inspect said.
CommandFor(action, missing) ==
    CASE action = "start"   -> IF missing THEN "run" ELSE "start"
      [] action = "restart" -> IF missing THEN "run" ELSE "restart"
      [] OTHER -> action

\* Mutant: the same for pm2.
Pm2CommandStartOnly(action) == IF action = "restart" THEN "start" ELSE action

\* pm2 is not asked first: start is pm2 start <script>, restart is pm2 restart.
Pm2Command(action) == IF action = "start" THEN "run" ELSE action

\* supervise() or supervisor_logs() is called.
Supervise(r) ==
    \/ /\ order[r].sup \in {"invalid", "dry"}
       /\ Supervised(r, ImmediateReport(r))
       /\ UNCHANGED cli
    \/ /\ order[r].sup = "live"
       /\ (Action(r) = "status" \/ (process.mode = "docker" /\ Action(r) # "logs"))
       /\ Goto(r, "inspect", FALSE)
       /\ UNCHANGED <<store, cli>>
    \/ /\ order[r].sup = "live"
       /\ ~(Action(r) = "status" \/ (process.mode = "docker" /\ Action(r) # "logs"))
       /\ Goto(r, "act", FALSE)
       /\ cli' = [cli EXCEPT ![r] = Pm2Command(Action(r))]
       /\ UNCHANGED store

----------------------------------------------------------------------------
(* Requests arrive.                                                        *)

\* POST /v1/config/render: the store changes, no file does.
RenderConfig(r) ==
    /\ Arrives(r, {"render"})
    /\ store' = Recorded(r, store)
    /\ Goto(r, "done", TRUE)
    /\ UNCHANGED <<files, armed, order, required, cli, machine, faults>>

\* POST /v1/config/write, and the writing half of POST /config.
WriteConfig(r) ==
    /\ Arrives(r, {"write", "configure"})
    /\ WriteFile(r)
    /\ store' = Recorded(r, store)
    /\ Goto(r, "done", TRUE)
    /\ UNCHANGED <<order, required, cli, machine, faults>>

\* POST /v1/apply, up to its first suspension.
ApplyBridge(r) ==
    LET o == order[r]
        needed == RestartRequired(o.policy, file[o.path] # o.config) IN
    /\ Arrives(r, {"apply"})
    /\ WriteFile(r)
    /\ required' = [required EXCEPT ![r] = needed]
    /\ IF needed /\ o.sup # "none"
       THEN Supervise(r)
       ELSE Probe(r, store, TRUE) /\ UNCHANGED cli
    /\ UNCHANGED <<order, machine, faults>>

\* The write raises OSError.  Only apply_config catches it, to keep the message;
\* every route answers 500.
WriteFails(r) ==
    /\ pc[r] = "idle"
    /\ order[r].op \in Writers
    /\ Fault
    /\ store' = [store EXCEPT !.error = store.error \/ order[r].op = "configure"]
    /\ Goto(r, "failed", FALSE)
    /\ UNCHANGED <<files, armed, order, required, cli, machine>>

\* POST /v1/supervisor/{status,start,stop,restart,logs}, up to its first suspension.
SupervisorRoute(r) ==
    /\ Arrives(r, {"start", "stop", "restart", "status", "logs"})
    /\ Supervise(r)
    /\ armed' = IF order[r].op = "restart" THEN armed \cup {r} ELSE armed
    /\ UNCHANGED <<files, order, required, machine, faults>>

\* POST /v1/mqtt/check: without a server in the request, the one configured last.
MqttCheck(r) ==
    LET server == IF order[r].chk # "none" THEN order[r].chk
                  ELSE IF store.config = NoConfig THEN "bad" ELSE "live" IN
    /\ Arrives(r, {"check"})
    /\ \/ server = "live" /\ Goto(r, "probe", TRUE) /\ UNCHANGED store
       \/ server = "bad" /\ Goto(r, "failed", FALSE) /\ UNCHANGED store
       \/ server = "dry" /\ Goto(r, "done", TRUE)
                         /\ store' = [store EXCEPT !.check = "planned"]
    /\ UNCHANGED <<files, armed, order, required, cli, machine, faults>>

----------------------------------------------------------------------------
(* Suspended handlers go on.                                               *)

\* What a look at the process says: docker inspect, or pm2 jlist, whose output
\* is searched for "online" as a whole: another process's status counts too.
Observed ==
    IF process.mode = "docker"
    THEN {CASE process.state = "crashed" -> "restarting" [] OTHER -> process.state}
    ELSE CASE process.state = "running" -> {"online"}
           [] process.state = "missing" -> {"missing", "managed", "online"}
           [] OTHER -> {"managed", "online"}

\* status has been found: it is the answer, or it picks the command to run.
Inspected(r, status) ==
    IF Action(r) = "status"
    THEN Supervised(r, Report("status", status # "missing", status)) /\ UNCHANGED cli
    ELSE /\ Goto(r, "act", FALSE)
         /\ cli' = [cli EXCEPT ![r] = CommandFor(Action(r), status = "missing")]
         /\ UNCHANGED store

InspectAnswers(r) ==
    /\ pc[r] = "inspect"
    /\ \E status \in Observed : Inspected(r, status)
    /\ UNCHANGED <<files, armed, order, required, machine, faults, calm>>

\* No answer within 30 s, or docker cannot be run: a return code other than 0,
\* which reads as "missing".
InspectFails(r) ==
    /\ pc[r] = "inspect"
    /\ Inspected(r, "missing")
    /\ calm' = FALSE
    /\ UNCHANGED <<files, armed, order, required, machine, faults>>

\* The status of a process that was started.
Up == IF process.mode = "docker" THEN "running" ELSE "online"

\* Mutant: a status the response does not document.
ActReportError(r, ok) ==
    Report(Action(r), ok, IF ok THEN Up ELSE "error")

\* Mutant: the return code is not looked at.
ActReportAlwaysOk(r, ok) ==
    Report(Action(r), TRUE, IF Action(r) # "stop" THEN Up ELSE "stopped")

\* The report of a command that ran, from its return code.
ActReport(r, ok) ==
    LET a == Action(r) IN
    IF a = "logs" THEN Report(a, ok, "collected")
    ELSE Report(a, ok, IF ok /\ a # "stop" THEN Up ELSE "stopped")

ActReturns(r) ==
    /\ pc[r] = "act"
    /\ cli[r] \in {"zero", "nonzero"}
    /\ Supervised(r, ActReport(r, cli[r] = "zero"))
    /\ cli' = [cli EXCEPT ![r] = "none"]
    /\ UNCHANGED <<files, armed, order, required, machine, faults, calm>>

\* Mutant: a command that outlives its wait is taken to have worked.
ActTimesOutOk(r) ==
    /\ pc[r] = "act"
    /\ cli[r] \in Commands
    /\ Supervised(r, ActReport(r, TRUE))
    /\ calm' = FALSE
    /\ UNCHANGED <<files, armed, order, required, cli, machine, faults>>

\* Mutant: only logs are waited for with a timeout.
ActTimesOutLogsOnly(r) ==
    /\ pc[r] = "act"
    /\ cli[r] = "logs"
    /\ Supervised(r, ActReport(r, FALSE))
    /\ calm' = FALSE
    /\ UNCHANGED <<files, armed, order, required, cli, machine, faults>>

\* 30 s have passed: the client is killed and 124 returned.  What it asked of the
\* daemon may still happen.
ActTimesOut(r) ==
    /\ pc[r] = "act"
    /\ cli[r] \in Commands
    /\ Supervised(r, ActReport(r, FALSE))
    /\ calm' = FALSE
    /\ UNCHANGED <<files, armed, order, required, cli, machine, faults>>

\* create_subprocess_exec raises something other than FileNotFoundError: 500.
SpawnFails(r) ==
    /\ \/ pc[r] = "inspect"
       \/ pc[r] = "act" /\ cli[r] \in Commands \ {"starting"}
    /\ Fault
    /\ Goto(r, "failed", FALSE)
    /\ cli' = [cli EXCEPT ![r] = "none"]
    /\ UNCHANGED <<files, store, armed, order, required, machine>>

\* The broker answers the TCP probe, or does not in time.
ProbeReturns(r) ==
    /\ pc[r] = "probe"
    /\ \E reachable \in BOOLEAN :
         LET s == [store EXCEPT !.check = IF reachable THEN "reachable" ELSE "unreachable"] IN
         /\ store' = IF order[r].op = "apply" THEN Recorded(r, s) ELSE s
         /\ Goto(r, "done", reply[r] /\ reachable)
    /\ UNCHANGED <<files, armed, order, required, cli, machine, faults, calm>>

----------------------------------------------------------------------------
(* docker or pm2, and the Zigbee2MQTT process: not part of the repository.  *)

Starts ==
    /\ process' = [process EXCEPT !.state = "running", !.loaded = Unread]
    /\ fresh' = armed

Stops(state) ==
    /\ process' = [process EXCEPT !.state = state, !.loaded = Unread]
    /\ UNCHANGED fresh

Returns(r, code) == cli' = [cli EXCEPT ![r] = code]

\* The daemon does what a command line asks.  A restart is a stop and then a
\* start; a start finds a process that is already running, or starts it, or fails.
DaemonPerforms(r) ==
    /\ \/ /\ cli[r] = "run" /\ process.state = "missing"
          /\ \/ Starts /\ Returns(r, "zero")
             \/ Stops("exited") /\ Returns(r, "nonzero")
       \/ /\ cli[r] = "run" /\ process.state # "missing"
          /\ Returns(r, "nonzero") /\ UNCHANGED machine
       \/ /\ cli[r] \in {"start", "stop", "restart", "logs"} /\ process.state = "missing"
          /\ Returns(r, "nonzero") /\ UNCHANGED machine
       \/ /\ cli[r] = "logs" /\ process.state # "missing"
          /\ Returns(r, "zero") /\ UNCHANGED machine
       \/ /\ cli[r] = "stop" /\ process.state # "missing"
          /\ Stops("exited") /\ Returns(r, "zero")
       \/ /\ cli[r] = "restart" /\ process.state # "missing"
          /\ Stops("exited") /\ Returns(r, "starting")
       \/ /\ cli[r] \in {"start", "starting"} /\ process.state = "running"
          /\ Returns(r, "zero") /\ UNCHANGED machine
       \/ /\ cli[r] \in {"start", "starting"} /\ process.state \in {"exited", "crashed"}
          /\ \/ Starts /\ Returns(r, "zero")
             \/ UNCHANGED machine /\ Returns(r, "nonzero")
       \/ /\ cli[r] = "starting" /\ process.state = "missing"
          /\ Returns(r, "nonzero") /\ UNCHANGED machine
    /\ UNCHANGED <<files, store, armed, order, pc, required, reply, faults, calm>>

\* The command line fails without effect: no docker on the machine, the daemon down.
CommandFails(r) ==
    /\ cli[r] \in Commands
    /\ Fault
    /\ Returns(r, "nonzero")
    /\ UNCHANGED <<files, store, armed, order, pc, required, reply, machine>>

\* A command nobody waits for any more may be dropped where it stands.
CommandDropped(r) ==
    /\ cli[r] \in Commands
    /\ pc[r] # "act"
    /\ Returns(r, "none")
    /\ UNCHANGED <<files, store, armed, order, pc, required, reply, machine, faults, calm>>

\* Zigbee2MQTT reads its configuration some time after it was started.
Boots ==
    /\ process.state = "running"
    /\ process.loaded = Unread
    /\ process' = [process EXCEPT !.loaded = file[Mounted]]
    /\ UNCHANGED <<files, store, armed, order, pc, required, reply, cli, fresh, faults, calm>>

\* It dies, or is removed by hand.
ProcessDies ==
    /\ process.state # "missing"
    /\ Fault
    /\ \/ process.state = "running" /\ Stops("crashed")
       \/ Stops("missing")
    /\ UNCHANGED <<files, store, armed, order, pc, required, reply, cli>>

\* --restart unless-stopped, and pm2's autorestart.
ProcessRestarts ==
    /\ process.state = "crashed"
    /\ Starts
    /\ UNCHANGED <<files, store, armed, order, pc, required, reply, cli, faults, calm>>

----------------------------------------------------------------------------
(* The sidecar itself dies and is started again: the store is empty and     *)
(* nobody answers the requests under way.  Files, process and commands that *)
(* reached the daemon stay.                                                 *)

LoseAll(also) ==
    /\ pc' = [r \in Requests |-> IF r \in also \/ pc[r] \in Suspended THEN "lost" ELSE pc[r]]
    /\ store' = EmptyStore

Crash ==
    /\ Fault
    /\ LoseAll({})
    /\ UNCHANGED <<files, armed, order, required, reply, cli, machine>>

\* ... between the rename of the file and anything after it.
CrashInWrite(r) ==
    /\ pc[r] = "idle"
    /\ order[r].op \in Writers
    /\ Fault
    /\ WriteFile(r)
    /\ LoseAll({r})
    /\ UNCHANGED <<order, required, reply, cli, machine>>

----------------------------------------------------------------------------

Arrival(r) ==
    \/ RenderConfig(r) \/ WriteConfig(r) \/ ApplyBridge(r)
    \/ SupervisorRoute(r) \/ MqttCheck(r)

Resume(r) ==
    \/ InspectAnswers(r) \/ InspectFails(r) \/ ActReturns(r)
    \/ ActTimesOut(r) \/ ProbeReturns(r)

Failure(r) == WriteFails(r) \/ SpawnFails(r) \/ CommandFails(r) \/ CrashInWrite(r)

Next ==
    \/ \E r \in Requests :
         \/ Arrival(r) \/ Resume(r) \/ Failure(r)
         \/ DaemonPerforms(r) \/ CommandDropped(r)
    \/ Boots \/ ProcessDies \/ ProcessRestarts \/ Crash

Spec == Init /\ [][Next]_vars

\* The loop runs every handler that can go on, every wait for a command or a
\* connection has a timeout, and a started Zigbee2MQTT reads its file.  Nothing is
\* assumed of clients, of the daemon or of failures.
Fairness ==
    /\ \A r \in Requests : WF_vars(Resume(r))
    /\ WF_vars(Boots)

FairSpec == Spec /\ Fairness

----------------------------------------------------------------------------
(* Properties.                                                             *)

\* r asked for a real restart and was told that it happened.
RestartConfirmed(r) ==
    /\ pc[r] = "done" /\ reply[r] /\ order[r].sup = "live"
    /\ \/ order[r].op = "apply" /\ required[r]
       \/ order[r].op = "restart"

\* A restart that was confirmed happened after the write it was for, whatever
\* else was restarting, stopping, timing out or crashing meanwhile
\* (bridge.py:152-176, supervisor.py:131-159).
RestartAfterWrite == \A r \in Requests : RestartConfirmed(r) => r \in fresh

\* When the request that last changed the mounted file was told its restart
\* happened, a Zigbee2MQTT that has booted runs on exactly that file: no order of
\* overlapping applies leaves an old configuration running behind an ok.
OkApplyTakesEffect ==
    \A r \in Requests :
        (RestartConfirmed(r) /\ changer[Mounted] = r
            /\ process.state = "running" /\ process.loaded # Unread)
        => process.loaded = file[Mounted]

\* README, "Restart policies": an apply is due a restart always under always, never
\* under never, and under changed when its own write changed the file, whatever
\* others wrote before or since.
Due(r) ==
    \/ order[r].policy = "always"
    \/ order[r].policy = "changed" /\ r \in effective

\* Of an apply that was not due a restart no command is ever on its way, not even
\* one that a timeout or a crash leaves behind; one that was due a restart and is
\* answered ok has had it, after its write (bridge.py:149-163).
PolicyRespected ==
    \A r \in Requests :
        order[r].op = "apply" /\ order[r].sup = "live" =>
            /\ cli[r] # "none" => Due(r)
            /\ pc[r] = "done" /\ reply[r] /\ Due(r) => r \in fresh

Quiescent == \A r \in Requests : pc[r] \notin Suspended /\ cli[r] = "none"

\* The snapshot's hash is that of the file at the snapshot's path.
SnapshotMatchesFile ==
    (store.path # NoPath /\ ~store.draft) => store.hash = file[store.path]

\* What the supervisor last reported is so.  (pm2 jlist may show another
\* process online, so a pm2 status is not a report about this one.)
ReportMatchesProcess ==
    LET report == store.supervisor IN
    (process.mode = "docker" \/ report.action # "status") =>
        /\ report.status = Up => process.state = "running"
        /\ (report.status = "stopped" /\ report.ok) => process.state # "running"

\* With one client at a time, no failure and no write whose handler then raised,
\* the snapshot tells the truth about the file and about the process.
CalmSnapshotIsTrue ==
    (calm /\ Quiescent /\ ~\E r \in armed : pc[r] = "failed")
        => SnapshotMatchesFile /\ ReportMatchesProcess

\* How far a request has come, as its client sees it.
Phase(r) ==
    CASE pc[r] = "idle"          -> "new"
      [] pc[r] \in Suspended     -> "open"
      [] RestartConfirmed(r)     -> "confirmed"
      [] OTHER                   -> "closed"

\* The routes, the daemon's command lines and the process together keep what the
\* bridge promises whoever applies a configuration (BridgeService): in every order
\* of arrivals, answers, timeouts and crashes, under docker and pm2.
Service ==
    INSTANCE BridgeService
        WITH Configs <- Configs \cup {NoConfig},
             phase   <- [r \in Requests |-> Phase(r)],
             file    <- file[Mounted],
             writer  <- changer[Mounted],
             up      <- process.state = "running",
             shows   <- process.loaded,
             since   <- fresh

KeepsPromise == Service!Spec

\* Every request that reached its handler ends: nothing waits for ever on a daemon
\* or a broker (supervisor.py:53-63, broker_health.py:13-26).
EveryRequestEnds ==
    \A r \in Requests : (pc[r] \in Suspended) ~> (pc[r] \in Ended)

\* Once the restart for the latest change is confirmed, Zigbee2MQTT comes to run
\* on that file, unless the process is taken down or the file changed again first.
AppliedEventuallyRuns ==
    \A r \in Requests :
        RestartConfirmed(r) /\ changer[Mounted] = r
            ~> \/ process.loaded = file[Mounted]
               \/ process.state # "running"
               \/ changer[Mounted] # r

\* Between requests the snapshot describes the file on disk.
SnapshotMatchesDisk == Quiescent => SnapshotMatchesFile
=============================================================================
