----------------------------- MODULE Inventory -----------------------------
(* What the bridge makes of an answer of Zigbee2MQTT: the raw network map   *)
(* becomes nodes and links (_extract_network_map), the device list devices  *)
(* and what may be imported of them (_extract_devices, Zigbee2MqttDevice).  *)
(*                                                                          *)
(* Addresses, names and tokens are texts: a network address and the text    *)
(* str() makes of it are one value. A position stands for the node or link  *)
(* at that place of the report, so that answers are functions on positions. *)
EXTENDS Naturals, Sequences, FiniteSets

CONSTANTS
    Texts,         \* IEEE addresses, friendly names and what else a link end may say
    Addresses,     \* the network addresses in range, Zero among them
    Zero,          \* 0, the coordinator's network address: false to Python
    OutOfRange,    \* a network address beyond 65535
    None,          \* a key that is missing
    Junk,          \* an element that is not an object
    MaxNodes,      \* 500
    MaxLinks,      \* 4000
    NodeLists, LinkLists, DeviceLists   \* what an answer may hold

Maybe(S) == S \cup {None}
Numbers == Addresses \cup {OutOfRange}
Made == {"node"} \X Nat      \* the texts node-<position> the bridge makes itself
\* A node has its network address under either spelling of the key, or both.
RawNodes ==
    {n \in [ieee: Maybe(Texts), camel: Maybe(Numbers), snake: Maybe(Numbers), name: Maybe(Texts)] :
        n.camel = None \/ n.snake \in {None, n.camel}}

\* An end is a text, or an object with an IEEE address or id, or one that has
\* only a network address.
RawEnds == [text: Maybe(Texts), address: Maybe(Numbers)]
RawLinks == [source: RawEnds, target: RawEnds]

\* The value of the map: an object, or JSON text of one; a text that is not
\* JSON, no value at all (an error response), or nodes or links not in lists.
ReadableValues == {"object", "text"}
Values == ReadableValues \cup {"bad text", "missing", "misshapen"}
Reports == [topic: {"networkmap"}, value: Values, nodes: NodeLists, links: LinkLists]

InterviewStates == {"pending", "started", "interviewing", "in_progress",
                    "successful", "failed", "interview_failed", None}
RawDevices == [name: {"text", "missing", "malformed"}, coordinator: BOOLEAN,
               supported: {TRUE, FALSE, None}, interview: InterviewStates]
Reasons == {"coordinator", "unsupported", "interview_failed", "interview_in_progress"}

\* Where a payload has its devices; "nowhere" is every other payload.
Places == {"list", "data", "data.devices", "devices", "nowhere"}
Listings == [topic: {"devices"}, place: Places, dataIsObject: BOOLEAN, devices: DeviceLists]

ASSUME InventoryAssumption ==
    /\ Zero \in Addresses /\ Addresses \subseteq Texts
    /\ OutOfRange \notin Addresses
    /\ None \notin Texts \cup Numbers \cup Made \cup Reasons /\ \A t \in Texts : t \notin Made
    /\ Junk \notin RawNodes \cup RawLinks \cup RawDevices
    /\ MaxNodes \in Nat /\ MaxLinks \in Nat
    /\ NodeLists \subseteq Seq(RawNodes \cup {Junk})
    /\ LinkLists \subseteq Seq(RawLinks \cup {Junk})
    /\ DeviceLists \subseteq Seq(RawDevices \cup {Junk})

VARIABLES
    response,      \* what Zigbee2MQTT published
    outcome,       \* "pending", "answered" or "refused" (HTTP 502, HTTP 400)
    answer         \* what the route returns for it
vars == <<response, outcome, answer>>

Init ==
    /\ response \in Reports \cup Listings
    /\ outcome = "pending" /\ answer = None

Refuse == outcome' = "refused" /\ UNCHANGED answer
Give(a) == outcome' = "answered" /\ answer' = a

-----------------------------------------------------------------------------
(* The network map.                                                         *)

Objects(seq) == {i \in DOMAIN seq : seq[i] # Junk}

\* An address of 0 under the first spelling is passed over for the second, and
\* one out of range is no address.
Read(n) == IF n.camel \in {None, Zero} THEN n.snake ELSE n.camel
Address(n) == IF Read(n) \in Addresses THEN Read(n) ELSE None

IdUnnumbered(nodes, i) == IF nodes[i].ieee # None THEN nodes[i].ieee ELSE Address(nodes[i])
Id(nodes, i) ==
    CASE nodes[i].ieee # None     -> nodes[i].ieee
      [] nodes[i].ieee = None /\ Address(nodes[i]) # None -> Address(nodes[i])
      [] OTHER                    -> <<"node", i>>

Name(nodes, i) == IF nodes[i].name # None THEN nodes[i].name ELSE Id(nodes, i)

AliasesById(nodes, i) == {Id(nodes, i), Name(nodes, i)}
Aliases(nodes, i) ==
    {Id(nodes, i), nodes[i].ieee, Name(nodes, i), Address(nodes[i])} \ {None}

Node(nodes, i) == [id |-> Id(nodes, i), name |-> Name(nodes, i),
                   ieee |-> nodes[i].ieee, address |-> Address(nodes[i])]

\* A later node takes an alias over from an earlier one.
Holders(nodes, token) == {i \in Objects(nodes) : token \in Aliases(nodes, i)}
Last(S) == CHOOSE i \in S : \A k \in S : k <= i
Resolve(nodes, token) ==
    IF Holders(nodes, token) = {} THEN token ELSE Id(nodes, Last(Holders(nodes, token)))

\* Unlike a node's, an end's address of 0 is kept: it comes last in its chain.
TokenTruthy(end) ==
    IF end.text # None THEN end.text ELSE IF end.address = Zero THEN None ELSE end.address
Token(end) == IF end.text # None THEN end.text ELSE end.address

Drawn(links) ==
    {j \in Objects(links) : Token(links[j].source) # None /\ Token(links[j].target) # None}

NetworkMap(r) ==
    [nodes |-> [i \in Objects(r.nodes) |-> Node(r.nodes, i)],
     links |-> [j \in Drawn(r.links) |->
                    [source |-> Resolve(r.nodes, Token(r.links[j].source)),
                     target |-> Resolve(r.nodes, Token(r.links[j].target))]]]

WithinLimits(r) == Len(r.nodes) <= MaxNodes /\ Len(r.links) <= MaxLinks
Extractable(r) == r.value \in ReadableValues /\ WithinLimits(r)

ExtractNetworkMap ==
    /\ outcome = "pending" /\ response.topic = "networkmap"
    /\ IF Extractable(response) THEN Give(NetworkMap(response)) ELSE Refuse
    /\ UNCHANGED response

-----------------------------------------------------------------------------
(* The device list.                                                         *)

\* An object under data hides a list beside it.
Candidate(l) ==
    CASE l.place \in {"list", "data", "data.devices"}    -> l.devices
      [] l.place = "devices" /\ ~l.dataIsObject          -> l.devices
      [] OTHER                                           -> <<>>

\* Why a device cannot be imported; the first reason counts.
Blocked(d) ==
    CASE d.coordinator -> "coordinator"
      [] ~d.coordinator /\ d.supported = FALSE -> "unsupported"
      [] ~d.coordinator /\ d.supported # FALSE /\ d.interview \in {"failed", "interview_failed"}
            -> "interview_failed"
      [] ~d.coordinator /\ d.supported # FALSE /\ d.interview \in {"pending", "started", "interviewing"}
            -> "interview_in_progress"
      [] OTHER -> None

\* Mutant: a device without a usable name is left out like one without any.
NamedByText(found) == {i \in Objects(found) : found[i].name = "text"}
Named(found) == {i \in Objects(found) : found[i].name # "missing"}
Devices(found) ==
    [i \in Named(found) |-> [device |-> found[i], blocked |-> Blocked(found[i])]]

\* A device that is not what the model expects refuses the whole list.
ExtractDevices ==
    /\ outcome = "pending" /\ response.topic = "devices"
    /\ LET found == Candidate(response)
       IN  IF \A i \in Named(found) : found[i].name = "text" THEN Give(Devices(found)) ELSE Refuse
    /\ UNCHANGED response

Next == ExtractNetworkMap \/ ExtractDevices
Spec == Init /\ [][Next]_vars

-----------------------------------------------------------------------------
(* Properties.                                                              *)

MapTopic == response.topic = "networkmap"
Shown == outcome = "answered" /\ MapTopic
Listed == outcome = "answered" /\ response.topic = "devices"

NodeType == [id: Texts \cup Made, name: Texts \cup Made,
             ieee: Maybe(Texts), address: Maybe(Addresses)]

\* An answer has nodes and links of the types of NetworkMapNode and
\* NetworkMapLink (bridge_models.py:285-300); no node is without an id, and a device
\* that is kept from import has one of the reasons the bridge knows.
TypeOK ==
    /\ response \in Reports \cup Listings
    /\ outcome \in {"pending", "answered", "refused"}
    /\ Shown => /\ DOMAIN answer.nodes \subseteq DOMAIN response.nodes
                /\ \A i \in DOMAIN answer.nodes : answer.nodes[i] \in NodeType
                /\ DOMAIN answer.links \subseteq DOMAIN response.links
    /\ Listed => /\ DOMAIN answer \subseteq DOMAIN response.devices
                 /\ \A i \in DOMAIN answer : answer[i].blocked \in Maybe(Reasons)

\* What the report itself knows a node by, whichever spelling its address has.
\* The coordinator's address is lost under the first spelling: a link end that
\* gives nothing else cannot be told to be the coordinator's.
Reported(n) == IF n.camel = None THEN n.snake ELSE n.camel
ZeroLost(n) == n.camel = Zero /\ n.snake = None
KnownBy(n) == ({n.ieee, n.name} \cup (IF ZeroLost(n) THEN {} ELSE {Reported(n)} \cap Addresses)) \ {None}

\* A link end that says what some listed node is known by is drawn to such a
\* node, however the report spells either: to the one it means where only one
\* has that address or name, and never hanging in the air
\* (zigbee2mqtt_mqtt.py:400-404, 435-439).
LinksJoinTheirNodes ==
    Shown =>
        \A j \in DOMAIN answer.links : \A side \in {"source", "target"} :
            LET meant == {i \in DOMAIN answer.nodes :
                            Token(response.links[j][side]) \in KnownBy(response.nodes[i])}
            IN  meant # {} => \E i \in meant : answer.links[j][side] = answer.nodes[i].id

\* Links are neither lost nor made up: what is drawn is each link both of whose
\* ends say something, be it the coordinator's address.
EveryLinkIsDrawn ==
    Shown =>
        DOMAIN answer.links =
            {j \in Objects(response.links) :
                \A side \in {"source", "target"} :
                    \E key \in {"text", "address"} : response.links[j][side][key] # None}

\* Where the bridge looks for devices; an object under data hides a list beside it.
InSight(l) == l.place # "nowhere" /\ ~(l.place = "devices" /\ l.dataIsObject)

\* A device list is told whole or not at all: an answer has every named device at
\* its place as Zigbee2MQTT told it, and a single one that is not what the model
\* expects refuses all of them, rather than let a device vanish from the store;
\* nothing else refuses (zigbee2mqtt_mqtt.py:346-362).
DeviceListsAreWhole ==
    response.topic = "devices" /\ InSight(response) =>
        LET named == {i \in Objects(response.devices) : response.devices[i].name # "missing"}
        IN  /\ outcome = "answered" =>
                /\ DOMAIN answer = named
                /\ \A i \in named : /\ answer[i].device = response.devices[i]
                                    /\ answer[i].device.name = "text"
            /\ outcome = "refused" =>
                \E i \in named : response.devices[i].name = "malformed"
=============================================================================
