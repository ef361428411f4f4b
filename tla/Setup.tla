------------------------------- MODULE Setup -------------------------------
(* Setting the bridge up and asking over MQTT: adapters come and go, the    *)
(* bridge suggests one, PiPhi or a client of the bridge has a configuration *)
(* written for it, and requests go to the broker the configuration names.   *)
(* File and process are Bridge's matter, messages MqttExchange's: here the  *)
(* file is what it tells Zigbee2MQTT, a request the connection it makes.    *)
EXTENDS MqttSettings, AdapterDetector

CONSTANTS
    Orders,        \* bodies of render, write and apply: mqtt, serial, adapter
    PiPhiMqtt,     \* the MQTT settings PiPhi may configure: server and topic
    AskServers,    \* the server a request may name itself, or None
    Kinds,         \* devices, network map, permit join, broker check
    Inputs,        \* port and adapter type that the caller of /discover may give
    Houses,        \* what the model takes together: devices, and what clients send
    Asks, Applies  \* identities of the requests that may be suspended at once

Config == [mqtt: Settings, serial: Paths, adapter: {r.hint : r \in Rules}]

\* The file's own server text has no credentials.
FileType ==
    [mqtt: [server: {s \in Server : s.user = None /\ s.password = None}, topic: Topics,
            user: Secrets \cup {None}, password: Secrets \cup {None}],
     serial: Paths, adapter: {r.hint : r \in Rules}, device: Devices \cup {Nil}]

\* A suspended request, with the connection the file told when it began.
AskType ==
    [kind: Kinds \ {"check"}, settings: Settings,
     told: {None} \cup [endpoint: Hosts \X (Ports \cup {"1883", "8883"}), topic: Topics,
                        login: [user: Secrets \cup {None}, password: Secrets \cup {None}]]]

ASSUME SetupAssumption ==
    /\ Orders \subseteq Config /\ None \notin Config \cup FileType
    /\ PiPhiMqtt \subseteq {m \in Settings : m.user = None /\ m.password = None}
    /\ AskServers \subseteq Server \cup {None}
    /\ Inputs \subseteq [port: Paths \cup {Nil}, adapter: {r.hint : r \in Rules}]
    /\ Houses \subseteq [devices: SUBSET Devices, orders: SUBSET Orders, servers: SUBSET AskServers]
    /\ "check" \in Kinds

VARIABLES
    house,           \* one of Houses
    labels, place,   \* the devices: what they say, where they are plugged in
    suggested,       \* what POST /discover answered last, and for which device
    current,         \* SidecarStore.current_config
    file,            \* what configuration.yaml says, and for which device
    last,            \* SidecarStore.last_devices, .. : the server of each answer
    asks,            \* suspended requests: their settings and what the file told
    applies,         \* suspended applies, and whether none wrote since
    calm             \* no preview, failed apply or overlap since the last write
vars == <<house, labels, place, suggested, current, file, last, asks, applies, calm>>

NoSuggestion == [path |-> Nil, hint |-> Nil, device |-> Nil]

Init ==
    /\ house \in Houses
    /\ labels \in [house.devices -> Labels] /\ place = [d \in house.devices |-> Nil]
    /\ suggested = NoSuggestion
    /\ current = None /\ file = None /\ last = [k \in Kinds |-> None]
    /\ asks = [a \in Asks |-> None] /\ applies = [a \in Applies |-> None]
    /\ calm = TRUE

-----------------------------------------------------------------------------
(* Adapters.                                                                *)

Plug(d, t, s) ==
    /\ place[d] = Nil
    /\ \A e \in house.devices : place[e] # Nil => place[e].tty # t /\ place[e].socket # s
    /\ place' = [place EXCEPT ![d] = [tty |-> t, socket |-> s]]
    /\ UNCHANGED <<house, labels, suggested, current, file, last, asks, applies, calm>>

Unplug(d) ==
    /\ place[d] # Nil
    /\ place' = [place EXCEPT ![d] = Nil]
    /\ UNCHANGED <<house, labels, suggested, current, file, last, asks, applies, calm>>

\* Port and adapter type are the caller's where it gives them, and the first
\* candidate's otherwise, each for itself.
Suggestion(port, adapter, head) ==
    [path |-> IF port # Nil THEN port ELSE head.candidate.path,
     hint |-> IF adapter # Nil THEN adapter ELSE head.candidate.hint,
     device |-> IF port = Nil /\ adapter = Nil THEN head.device ELSE Nil]

Discover(port, adapter) ==
    /\ suggested' \in IF Heads(labels, place) = {}
                      THEN {[path |-> port, hint |-> adapter, device |-> Nil]}
                      ELSE {Suggestion(port, adapter, h) : h \in Heads(labels, place)}

    /\ UNCHANGED <<house, labels, place, current, file, last, asks, applies, calm>>

-----------------------------------------------------------------------------
(* Configurations.                                                          *)

\* What the file for a configuration tells Zigbee2MQTT.
Told(config, device) ==
    [mqtt |-> Rendered(config.mqtt), serial |-> config.serial, adapter |-> config.adapter,
     device |-> device]

Suspended == {a \in Applies : applies[a] # None}
Overtaken == [a \in Applies |-> IF a \in Suspended THEN [applies[a] EXCEPT !.alone = FALSE] ELSE None]

Written(config, device) ==
    /\ file' = Told(config, device) /\ current' = config
    /\ applies' = Overtaken /\ calm' = (Suspended = {})

\* PiPhi accepts what was suggested: apply_config writes before it stores.
Configure(m) ==
    /\ suggested.path # Nil
    /\ Written([mqtt |-> m, serial |-> suggested.path, adapter |-> suggested.hint], suggested.device)

    /\ UNCHANGED <<house, labels, place, suggested, last, asks>>

WriteConfig(o) ==
    /\ Written(o, Nil)
    /\ UNCHANGED <<house, labels, place, suggested, last, asks>>

\* A rendering alone changes the store as well.
RenderConfig(o) ==
    /\ current' = o /\ calm' = FALSE
    /\ UNCHANGED <<house, labels, place, suggested, file, last, asks, applies>>

\* An apply writes, then suspends in supervisor and broker check, then stores; a
\* server that the check cannot parse raises when all but the storing is done.
ApplyWrites(a, o, checked) ==
    /\ applies[a] = None
    /\ file' = Told(o, Nil) /\ calm' = FALSE
    /\ applies' = IF checked /\ Endpoint(o.mqtt.server) = None THEN Overtaken
                  ELSE [Overtaken EXCEPT ![a] = [config |-> o, checked |-> checked,
                                                 alone |-> Suspended = {}]]
    /\ UNCHANGED <<house, labels, place, suggested, current, last, asks>>

ApplyStores(a) ==
    /\ a \in Suspended
    /\ current' = applies[a].config /\ calm' = applies[a].alone
    /\ last' = IF applies[a].checked
               THEN [last EXCEPT !["check"] = applies[a].config.mqtt.server] ELSE last
    /\ applies' = [applies EXCEPT ![a] = None]
    /\ UNCHANGED <<house, labels, place, suggested, file, asks>>

\* The supervisor raises what the route does not catch.
ApplyRaises(a) ==
    /\ a \in Suspended
    /\ applies' = [applies EXCEPT ![a] = None]
    /\ UNCHANGED <<house, labels, place, suggested, current, file, last, asks, calm>>

-----------------------------------------------------------------------------
(* Requests over MQTT.                                                      *)

CurrentMqtt == IF current = None THEN None ELSE current.mqtt

\* The settings are read before the request suspends, and parsed in its thread: a
\* server that cannot be parsed is refused with nothing stored.
AskStarts(a, k, server, topic) ==
    /\ k # "check" /\ asks[a] = None /\ Resolvable(CurrentMqtt, server)
    /\ LET m == Resolved(CurrentMqtt, server, topic)
       IN  /\ Endpoint(m.server) # None
           /\ asks' = [asks EXCEPT ![a] =
                [kind |-> k, settings |-> m,
                 told |-> IF calm /\ server = None /\ topic = None THEN ConnectionOf(file.mqtt) ELSE None]]

    /\ UNCHANGED <<house, labels, place, suggested, current, file, last, applies, calm>>

AskAnswered(a) ==
    /\ asks[a] # None
    /\ last' = [last EXCEPT ![asks[a].kind] = asks[a].settings.server]
    /\ asks' = [asks EXCEPT ![a] = None]
    /\ UNCHANGED <<house, labels, place, suggested, current, file, applies, calm>>

AskFails(a) ==
    /\ asks[a] # None
    /\ asks' = [asks EXCEPT ![a] = None]
    /\ UNCHANGED <<house, labels, place, suggested, current, file, last, applies, calm>>

\* A dry run of the three requests parses nothing; that of a broker check does.
DryRun(k, server) ==
    /\ k # "check" /\ Resolvable(CurrentMqtt, server)
    /\ last' = [last EXCEPT ![k] = Or(server, CurrentMqtt.server)]
    /\ UNCHANGED <<house, labels, place, suggested, current, file, asks, applies, calm>>

ParsedNever(server) == TRUE
Parsed(server) == Endpoint(server) # None
MqttCheck(server) ==
    /\ Resolvable(CurrentMqtt, server)
    /\ LET s == Or(server, CurrentMqtt.server)
       IN  Parsed(s) /\ last' = [last EXCEPT !["check"] = s]

    /\ UNCHANGED <<house, labels, place, suggested, current, file, asks, applies, calm>>

Next ==
    \/ \E d \in house.devices, t \in Ttys, s \in Sockets : Plug(d, t, s)
    \/ \E d \in house.devices : Unplug(d)
    \/ \E i \in Inputs : Discover(i.port, i.adapter)
    \/ \E m \in PiPhiMqtt : Configure(m)
    \/ \E o \in house.orders : WriteConfig(o)
    \/ \E o \in house.orders : RenderConfig(o)
    \/ \E a \in Applies, o \in house.orders, checked \in BOOLEAN : ApplyWrites(a, o, checked)
    \/ \E a \in Applies : ApplyStores(a)
    \/ \E a \in Applies : ApplyRaises(a)
    \/ \E a \in Asks, k \in Kinds, server \in house.servers, topic \in Topics \cup {None} :
            AskStarts(a, k, server, topic)
    \/ \E a \in Asks : AskAnswered(a)
    \/ \E a \in Asks : AskFails(a)
    \/ \E k \in Kinds, server \in house.servers : DryRun(k, server)
    \/ \E server \in house.servers : MqttCheck(server)

Spec == Init /\ [][Next]_vars

-----------------------------------------------------------------------------
(* Properties.                                                              *)

\* The types of the store and of what is suspended; the server in the file never
\* holds credentials, which have keys of their own (config_renderer.py:44-58).
TypeOK ==
    /\ house \in Houses /\ labels \in [house.devices -> Labels]
    /\ place \in [house.devices -> Places]
    /\ suggested \in [path: Paths \cup {Nil}, hint: {r.hint : r \in Rules}, device: Devices \cup {Nil}]
    /\ current \in Config \cup {None} /\ file \in FileType \cup {None}
    /\ last \in [Kinds -> Server \cup {None}]
    /\ asks \in [Asks -> AskType \cup {None}]
    /\ applies \in [Applies -> [config: Config, checked: BOOLEAN, alone: BOOLEAN] \cup {None}]
    /\ calm \in BOOLEAN

\* The adapter type that a device's own texts tell, its link's last.
TypeOf(label) ==
    IF label.product.hint # Nil \/ label.link = Nil THEN label.product.hint ELSE label.link.hint

\* A configuration that PiPhi made from what was detected, port and type, opens
\* the adapter it was made for, of the type it names, or none at all, however
\* devices are plugged in and out and ttys handed on, if that adapter has a link
\* by what it is (adapter_detector.py:98, 113-124; discovery.py:20-21).
FileLeadsToItsAdapter ==
    file # None /\ file.device # Nil /\ labels[file.device].link # Nil =>
        /\ LeadsTo(file.serial, place) \in {file.device, Nil}
        /\ file.adapter = TypeOf(labels[file.device])

\* A request without a server or topic of its own goes where the file sent
\* Zigbee2MQTT when it was asked, and logs in as the file says, unless a preview,
\* a failed apply or overlapping ones came between (zigbee2mqtt_mqtt.py:259-273,
\* 330-334; config_renderer.py:44-88).
AsksWhereFileSays ==
    \A a \in Asks : asks[a] # None /\ asks[a].told # None => Connection(asks[a].settings) = asks[a].told

\* GET /health reads the snapshot, for which every kept answer is serialized: it
\* fails for a server whose port is no port (health.py:14, bridge_models.py:420).
HealthAnswers == \A k \in Kinds : last[k] # None => Readable(last[k])

\* No answered request and no broker check ever takes GET /health down: what is
\* kept of them was parsed. Only a dry run keeps a server nobody parsed.
HealthKeepsAnswering ==
    [][HealthAnswers /\ ~HealthAnswers' =>
        \E k \in Kinds, server \in house.servers : DryRun(k, server)]_vars
=============================================================================
