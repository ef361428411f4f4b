# A verification of the Zigbee2MQTT sidecar

TLA+ models of `piphi_network_zigbee2mqtt`, model-checked with TLC, and
theorems about them checked with TLAPS. The sidecar renders and writes
Zigbee2MQTT's `configuration.yaml`, drives the Zigbee2MQTT process through docker
or pm2, and talks to Zigbee2MQTT over MQTT. Paths below are relative to
`src/src/piphi_network_zigbee2mqtt/` unless they say otherwise.

## The system

| Part | State | Operations | Talks to |
|---|---|---|---|
| `config_store.py` | `configuration.yaml`, `.bak`, `.tmp` | `write_config_atomic` | the file system, shared with Zigbee2MQTT and the user |
| `routes/bridge.py` | none of its own | render, write, apply, supervisor routes, broker check, devices, network map, permit join | config_store, supervisor, broker_health, MQTT client, store |
| `SidecarStore` (`bridge_models.py`) | last configuration, path, hash, error, supervisor report, check, devices, map, permit join | assigned by handlers, read by `snapshot()` | everything, in one process, unlocked |
| `supervisor.py` | none; the state is the daemon's | status, start, stop, restart, logs, prerequisites | docker or pm2 command lines, 30 s each |
| `broker_health.py` | none | TCP probe, address parsing | the broker |
| `zigbee2mqtt_mqtt.py` | per call: event, error list, response dict | devices (retained topic), network map, permit join (request/response) | paho, a thread per client, the broker, Zigbee2MQTT |
| `config_renderer.py` | none | the text of `configuration.yaml` for a configuration | Zigbee2MQTT, through the file |
| `adapter_detector.py`, `routes/discovery.py` | none; what is plugged in | adapters found and suggested | the serial ports, udev's links, PiPhi |
| `state.py`, `routes/config.py`, `routes/commands.py` | registry of configurations, events and states (runtime kit); an idempotency ledger | configure, sync, deconfigure, command | the runtime kit, config_store, the MQTT client |
| `contract.py`, `routes/health.py`, entities, telemetry, events | none | static contract, reading routes | |
| `scripts/release.py`, `.github/workflows/release.yml` | version files, revisions, tags, images, `latest` | bump, set version, release | git, the image registry, maintainers |

One asyncio loop runs the handlers, so a handler is interrupted only at an await
that suspends: a command line, a TCP probe, a call in a worker thread. Everything
else that can go wrong comes from outside: the daemon that goes on after its
client was killed, the process that reads its file late, the broker's and paho's
threads, other writers of the data directory, and the death of the sidecar.

What makes the parts correct:

- **config_store**: a reader finds an old or a new text, never part of one; the
  backup is the text that was replaced; `changed` is the truth.
- **bridge and supervisor**: a restart confirmed to a client came after the write
  it was for; the last confirmed apply is what Zigbee2MQTT runs on; an apply restarts
  Zigbee2MQTT exactly when its policy and what it wrote ask for it; every request ends; the snapshot
  describes file and process.
- **MQTT client**: a call returns the answer to its own request, once, and ends.
- **answers**: what is shown of a map or a device list is what was reported, each
  link between the nodes it names; a device list is told whole or refused.
- **set-up**: the file opens the adapter it was made for, Zigbee2MQTT and the bridge
  meet at one broker with one login, and what is kept can be shown.
- **registry**: events, registered configurations, published maps, store and file
  tell one story, whatever overlaps with a scan or a sync and whatever fails.
- **release**: a version orders as semantic versioning says; a tag, its image, its
  files and the branch belong together, also after runs that failed half way.

PROJECT.json lists every hazard with its line, and every definition with the
lines it stands for.

## Modules

| Module | Models | Composes |
|---|---|---|
| `ConfigFile` | what `write_config_atomic` promises: a register that changes in one step | |
| `ConfigStore` | `write_config_atomic`, one file operation per action | refines `ConfigFile` |
| `ConfigStore_proofs` | theorems about `ConfigStore` | |
| `BridgeService` | what the bridge promises whoever applies a configuration | |
| `Bridge` | the bridge routes, the supervisor with its command lines, the probe, the store, the process and its daemon | refines `BridgeService`; uses the write as the one step `ConfigFile` promises |
| `Bridge_proofs` | theorems about `Bridge` | |
| `MqttClient` | what the MQTT client promises the handlers that await its calls | |
| `MqttExchange` | one MQTT call per worker thread, with paho's thread, the broker and Zigbee2MQTT | refines `MqttClient` |
| `MqttExchange_proofs` | theorems about `MqttExchange` | |
| `Inventory` | what is made of an answer: nodes and links of a map, devices and what may be imported | starts from what a call of `MqttClient` returns |
| `Inventory_proofs` | theorems about `Inventory` | |
| `MqttSettings` | a server text taken apart; what is rendered, resolved and connected with | |
| `AdapterDetector` | hints, confidences, links and the candidate for an adapter | |
| `Setup` | plugging and discovering adapters, configurations from PiPhi and from clients, requests by the settings in force | extends `MqttSettings` and `AdapterDetector` |
| `Setup_proofs` | theorems about `Setup`, and about `MqttSettings` for all settings | |
| `Runtime` | registry, configuration routes, the command that scans, and the bridge routes that ask over MQTT, with the store's remaining fields | uses a call as the one suspension `MqttClient` promises, and the write as one step |
| `Runtime_proofs` | theorems about `Runtime` | |
| `SemVer` | versions: comparison, bumps, and the precedence of semantic versioning as reference | |
| `SemVer_proofs` | theorems about `SemVer`, for versions of any length | |
| `Release` | the release workflow around the script | extends `SemVer` |
| `Release_proofs` | theorems about `Release` | uses `SemVer_proofs` |
| `MC*` | instances for TLC | |

**ConfigStore.** `pc` is the file operation that comes next; `target`, `backup`,
`temporary` are the three files. A hash stands for its text. Opening for writing
truncates (`Torn`), writing and closing completes, `replace` is one step.
`OSError` may come from any operation and `Crash` between any two; `Foreign` is
another program replacing or deleting `configuration.yaml`. `held`, `replaced`,
`tampered` are history.

**Bridge.** A request is served by a handler whose `pc` is `idle`, suspended in
`inspect` (docker inspect, pm2 jlist), in `act` (the command itself) or in `probe`,
or at its end: `done`, `failed` (an exception), `lost` (the sidecar died). One
action runs from one suspension to the next, with every assignment to the store in
between. `cli[r]` is the request's command line on its way through the daemon: it
may outlive the client that was killed at its timeout (`ActTimesOut`), take effect
at any later time (`DaemonPerforms`) or never (`CommandDropped`). `process` is the
Zigbee2MQTT: it reads the mounted file some time after it was started (`Boots`).
A rendered configuration is taken for its text and its hash. `changer`, `effective`,
`armed`, `fresh`, `calm` are history: who changed a file last, whose write changed the
file it wrote (compared with the file, not with what the handler makes of it), which
requests' writes the next start must show, which the last start did show, and whether
requests ever overlapped or anything failed. To a client all of this is `BridgeService`: a request is
`new`, `open`, and then `confirmed` (told that its restart happened) or `closed`
(`Phase`); it writes when it is taken or never; it is confirmed only if Zigbee2MQTT was
started after that; and what is started runs on the file as it is when it is read.
Command lines, timeouts, `docker inspect` and the store are not seen there, and
nothing is promised of a request that was not confirmed.

**MqttExchange.** `pc` is the worker thread in `_connect_and_wait`: waiting for the
event, woken, looking at the payload, stopping. `event`, `error`, `response` are the
objects it shares with paho's thread, which runs one callback per message of
`inbox`. The broker sends every answer to every subscriber of the topic; requests
and answers may be lost, connections break and paho reconnects. To the handler all of
this is `MqttClient`: a call waits until the worker thread is through with its
`finally` block (`Phase`), then has an answer that stands (`Told`), its own or, where
others publish, theirs; a request counts as carried out once it was scanned for, also
after its call raised.

**Inventory.** One answer per behaviour: `response` is what Zigbee2MQTT published,
`answer` a function on the positions of its lists. A number and the text `str()`
makes of it are one value, so that aliases can meet; `Made` are the names the bridge
invents, which no report is taken to use. The code's chains of `or` are kept where 0
is among the values (`Read`), and become `CASE` where absence alone counts. Link
quality, depth, routes and the cutting of long texts are left out.

**MqttSettings** and **AdapterDetector** are pure. A server is a record of what
`urlparse` finds in it, with ports that are missing, 0 or no port at all kept apart,
because each is treated differently by `parse_mqtt_endpoint`, by the renderer and by
`redact_mqtt_server`. A device is known by its label: what its texts match in
`infer_adapter_hint`, and whether udev links it by what it is and by its socket.

**Setup.** `place` is where each device is plugged in, `suggested` the last answer of
`POST /discover`, `file` what `configuration.yaml` tells Zigbee2MQTT with, as history,
the device it was made for. `asks` and `applies` are suspended requests; `told` is
what the file said when a request began, `calm` whether store and file can have come
apart since (previews, failed and overlapping applies, which `Bridge` looks at). The
suspension of a broker check is `Bridge`'s: here a check is one step. `house` is drawn
once: it says which devices and which clients a behaviour has.

**Runtime.** A request is `idle`, `waiting` for an answer from a worker thread,
`syncing` between two configurations of a snapshot, or ended. `entries` and
`topology` are the runtime kit's registry (`state.py:70-85`), `announced` the last
event about each id, `last` the store's answers by field, `current` and `file` the
configuration the store and `configuration.yaml` hold. A handler resolves the
broker before it suspends (`Ask`) and keeps the answer after it (`Answered`).
A map comes about in two steps: Zigbee2MQTT scans for a waiting call (`Scans`, which
numbers the scan, `found`), and the handler resumes and keeps it (`Answered`), in
whatever order the worker threads end, so that the answer of an older scan may be kept
last. `maps` remembers each map that was kept, with its scan and how many maps had been
kept when its call began (`began`); an answer's `n` is its place among them. These are
history, as are `shown` and `calm`.
The kit's `apply_snapshot` is external: it may suspend between any two
configurations, apply them in any order, and go on or give up after a failure.

**Release.** `pc` is the step of the workflow that comes next, one run at a time
(its concurrency group). `commit` and the last of `revisions` live in the run's
clone until `PushBranch`; `StepFails` may end the run before any step. `Maintain` is
a maintainer's push at any time, which may set a newer version, in the manifest
alone too, or another image in either place that names one (`docs/release.md:7-8`).
An image is a tag of the workflow's `RELEASE_IMAGE`, one of it by digest or without a
tag (`Unversioned`), one of another repository (`Foreign`), or missing; `Written`
replaces those of `RELEASE_IMAGE` and no others (`Ours`), as
`update_primary_container_images` does.

## Runs

| Run | Question | Instance and bounds |
|---|---|---|
| `config_store` | Is the write atomic, its backup right, its answer true? Does it implement `ConfigFile`? | 3 texts, 2 foreign writes, any number of calls, errors and crashes |
| `bridge_apply` | Does a confirmed restart show the file it was for and take effect? Is the policy kept? Does every request end? | docker, 2 overlapping requests from 8 orders, 2 configurations, 1 failure, fair handlers |
| `bridge_routes` | Do the routes implement `BridgeService`? Is the snapshot true when nothing overlaps or fails? | docker and pm2, every route, 2 files, 20 orders, 1 failure |
| `bridge_snapshot` | Does the snapshot describe the disk after overlapping applies? Violated. | 2 applies, no failure |
| `mqtt_requests` | Do concurrent calls get their own, final answers? Do they implement `MqttClient`? | 2 requests, 2 workers, 2 connections each, 1 foreign message |
| `mqtt_live` | Does every call end when they share one worker, and do a reader and a request keep what `MqttClient` promises? | 1 request, 1 reader, 1 worker, fairness |
| `network_map` | Is what is shown of maps and devices what was reported? | every pair of nodes and one or two links of 5 texts and 2 addresses, every shape of device list with 2 devices, limits of 2 |
| `setup` | Does the file lead to its adapter, a request to the file's broker? What takes `GET /health` down? | 2 adapters of 4 labels, 2 ttys, 2 sockets; 3 configurations, 3 servers, 1 request and 2 applies suspended |
| `release` | Do tags, images, `latest`, branch and files stay consistent? | 11 kinds of release, 2 versions and 3 images set by hand, 4 revisions, a failure at any step |
| `release_bump` | Does a bump increment? Violated. | the same, 3 revisions |
| `runtime` | Do registry, events, published maps, store and file stay consistent? | 3 requests from 12 orders, 2 ids, 2 brokers, 1 failure or crash |

Two requests suffice for every overlap of a pair: what a third could add is a
second overtaking, which the theorems about `Bridge` cover for any number of
requests. Two configurations tell "mine" from "another's"; one failure is met in every
state, and the theorems hold for any number. In `ConfigStore` three texts tell request,
previous and foreign text apart, and two foreign writes can fall into different
gaps of one call. Two connections are one reconnection. `MaxFaults`, `MaxForeign`
and `MaxConnects` bound nothing else; the proofs hold for every value of them.
In `Release` four revisions are the first one and three more: two releases and a
push between them, or a failed run, its repetition and a push. The images set by hand
are one of each kind that the script treats differently, and a stale tag of its own. In `Runtime` three
requests are one to register, one to suspend and one to come between, or two scans
that overtake each other. In `Inventory`
two nodes can share an address or a name, and a link joins at most two; the limits of
500 and 4000 are 2, so that a report can exceed them. In `Setup` the two adapters and
ttys are what a replug can exchange; adapters and clients' configurations never meet
in a property, so that a behaviour has either (`MCHouses`); the configurations and
servers are one of each kind: with and without scheme, with credentials in the URL,
beside it or halved, with a port that is missing, 0 or invalid.
Deadlock is checked for `ConfigStore` and `Setup`, which can always be called again; in
the other modules the system stops when all requests are served, in `Inventory` when
the answer is.

Fairness: `Bridge` assumes that the loop resumes a handler that can go on, which
includes the expiry of its timeout (`supervisor.py:54`, `broker_health.py:14`), and
that a started Zigbee2MQTT reads its file. Nothing is assumed of the daemon,
clients or failures. `MqttExchange` assumes that threads run, that the pool takes
up queued calls and that `Event.wait(timeout)` returns; nothing of the broker.

Every property has a mutant, an operator beside the definition it replaces that
changes it the way a plausible bug would, under which TLC finds the property
violated.

## What is proved

For every value of the constants, with TLAPS:

- `ConfigStore_proofs`: `TypeCorrect`, `NeverTorn`, `BackupCorrect`, `BackupWasHeld` and
  `Refinement`, that the steps implement `ConfigFile`. The inductive invariant
  adds what a step may rely on: the temporary file is whole when it is renamed,
  what is copied was once in force, the text differs from the previous one from the
  comparison on, and while nobody else writes the copy is the file to be replaced.
- `Bridge_proofs`: `TypeCorrect`, `ConfirmedRestart` (`RestartAfterWrite`),
  `AppliedRuns` (`OkApplyTakesEffect`), `PolicyKept` (`PolicyRespected`),
  `CalmSnapshots` (`CalmSnapshotIsTrue`) and `ServiceImplemented` (`KeepsPromise`), that
  the steps implement `BridgeService`. `RestartAfterWrite` speaks of requests that
  are done, so the invariant follows each request through its handler: one whose
  restart has been asked for is armed; its command stays a `run` or a `restart`
  until the daemon has started the process, after which the request is among
  `fresh`, and `fresh` never loses a member. `BootedCurrent` adds that a process
  that booted after the last writer was armed has loaded that writer's file. For the
  policy, a handler that has got to a command line has passed `RestartRequired`, whose
  answer was drawn from the comparison in the write, which is that of `effective`.
  For the snapshot (`Orderly`), at most one handler is under way: the file of an apply
  that has not recorded yet is already in place, no command outlives its handler, and
  a command that returned zero left the process as the report will say. The refinement
  maps an arrival to `Take` with its write, a resumption to `Confirm`, `Close` or
  nothing, and what the daemon does to `Start`, `Stop` or nothing: that a
  confirmation lies behind a start is the invariant, and that no handler confirms
  before its first suspension, so that no request is taken and confirmed at once, is
  `ArrivalUnconfirmed`.
  `NobodyForgotten`, `HandlersAdvance` and `ResumptionsAdvance` are what
  `EveryRequestEnds` rests on: who waits for a command line has one that can answer or
  time out, every resumption lowers the handler's `Distance` from its end, which is at
  most 3 once it is suspended, and no step of anybody else raises it.
- `MqttExchange_proofs`: `TypeCorrect`, `AnswersStayApart`, `ScansAreBounded`,
  `OwnAnswers`, `AnswersAreFinal` and `Refinement`, that the steps implement
  `MqttClient`, for any number of calls, workers, reconnections and foreign messages.
  The invariant puts an inbox in the order of its connection (`Queue`): one CONNACK, one SUBACK, then messages; so a connection may publish once
  (`PublishesOnce`), and one that has ended delivers nothing (`Quiet`). The refinement adds where what
  a call is told comes from (`Sourced`): from a request that was carried out, from
  others that have published, or for a reader from the list. `CallsAdvance`,
  `PoolIsBounded` and `CallsLeaveNothing` are what `EveryCallEnds` rests on: each step
  of a worker brings it nearer to its end and no other thread takes it back, no
  call takes a thread beyond the pool's size, and one that has ended holds neither its
  connection nor a message.
- `Inventory_proofs`: `LinksAreJoined`, `LinksAreDrawn`, `ListsAreWhole` and
  `TypeCorrect`, for reports and device lists of any length and content.
- `Setup_proofs`: `FileTellsTheConnection`, that for all settings that can be
  connected with, the rendered file leads Zigbee2MQTT to the endpoint, login and topic
  the client uses; `TypeCorrect`, `AsksAreTold`, `FileKeepsItsAdapter` and
  `HealthIsKept`. The invariant says that store and file agree while nothing came
  between (`InLine`), that what is suspended was parsed (`WasParsed`), and that a file
  made of a suggestion names its adapter by the link that says what it is
  (`NamesAdapter`), which rests on a link's confidence beating that of the tty it
  leads to, also where both are cut at 1.0.
- `SemVer_proofs`: `CompareIsPrecedence`, that `compare` orders well-formed versions
  of any length as semantic versioning does, and `BumpIsNewer`, that every bump but
  a prerelease bump to an earlier channel leads to a newer version; both rest on
  the first place where two prereleases differ (`FirstDifference`). And
  `CompareIsTotalOrder`: it is 0 only for a version and itself, turns its sign when
  its arguments change places, and is transitive, so that "newer" can be chained over
  any history of releases.
- `Release_proofs`: `TypeCorrect`, `ImagesAreTagged`, `FilesAgreeAtTags`,
  `TagsAreOnBranch`, `ResolvedVersionsAreNewer`, `LatestOnlyAdvances` and
  `PublishedIsFinal`, that no step moves a tag, changes a tagged revision or its image,
  or takes a commit off the branch. The
  inductive invariant ties a run to its step (`RunInStep`): from the commit on its
  commit names the target, and the target has no tag until the run pushes it; from
  the push of the image on the image is that commit's; from the push of the branch
  on the commit is on it. `LatestBehind` adds that a tagged `latest` is not beyond
  what a run has checked out, and before what it resolved. For `FilesAgreeAtTags` a
  run's commit names the target (`Names`) and leaves its base's other images alone, and
  it comes after its base on the branch once it is pushed (`Follows`), because a push
  must be a fast-forward.
- `Runtime_proofs`: `TypeCorrect`, `EventsAreTrue`, `StoreDescribesFile`,
  `RefreshesAreShown`, `SyncsLeaveSnapshots` and `OnlyLateAnswersGoBack`. The invariant
  adds that a waiting call asks a broker; that of the maps kept, one whose call began
  after another was kept is of a later scan (`ScansInOrder`), and that nothing published
  is beyond the last map kept (`LastIsNewest`), which is why neither applying a configuration
  again nor a later call brings an earlier scan back; and for an undisturbed sync, that
  only what it has still to remove and its snapshot are registered, what it has applied
  as the snapshot has it (`SyncsOnTheWay`).

The assumptions are the named `ASSUME`s of the modules: distinct model values and
well-formed orders; the reasons why a device is blocked are not the missing value.
Liveness itself (`EveryRequestEnds`, `AppliedEventuallyRuns`, `EveryCallEnds`) is
model-checked only: fairness is stated with ENABLED, which is out of the prover's
reach. Its safety half, the ranks that every step lowers and that nobody waits for
nothing, is proved.

## Findings

- **Overtaken snapshot** (`bridge_snapshot`): `apply_bridge` stores configuration,
  path and hash after its awaits (`routes/bridge.py:171-175`); the apply answered
  last wins the store, though another wrote the file last.
- **Bump to an older version** (`release_bump`): `--bump prerelease --preid alpha`
  takes 0.1.1-rc.1 to 0.1.1-alpha.1 (`scripts/release.py:172-173`), where `--bump` is
  to "increment the current version" (`:84`).

What else the models show and no text of the repository speaks against: the late answer
of an older scan replaces a newer map (`EarlierScansAreLateAnswers` allows that case and
no other). The answer of a dry run replaces the last scanned map, as
`tests/test_bridge_routes.py` has it, and is then published with the configurations
applied next. A supported device whose interview is `in_progress`, or not told of, may be
imported (`bridge_models.py:245-261`). A dry run of
`POST /v1/devices` or `POST /v1/network-map` with a server whose port is no port is
kept, and `GET /health` fails until the next answer: `HealthKeepsAnswering` says that
nothing else does it. A coordinator that a report gives under `networkAddress` loses
its address 0, while a link end keeps it: `LinksJoinTheirNodes` leaves that end out.

A call that is reconnected publishes its request again (`zigbee2mqtt_mqtt.py:224`),
so one request may scan the network more than once: `ScansPerConnection` bounds it
by the number of connections.

## Not modelled

Redaction and formatting of command lines and messages; field validation
(pydantic); the runtime kit, paho, docker and pm2 beyond what the code relies on;
reordering of disk writes by a power loss; static data (`contract.py`, schemas); the
YAML layout and keys that are copied unchanged; links udev makes to devices the serial
library does not list, and hosts other than Linux.

Build metadata of versions and `package.json`, which the repository does not have;
the idempotency ledger of commands, which is the runtime kit's.

## Plan

Done: every part of the program that keeps state or decides something: the write,
the bridge, the MQTT call and its answers, the set-up, the registry, the release.
What could follow:

1. `Bridge` and `Runtime` composed over one file and one store, so that applies by
   PiPhi and by the bridge's own routes meet in the routes that ask over MQTT.
2. A property over the repetition of a request whose restart failed, once the
   documentation says what a client may expect of it.
