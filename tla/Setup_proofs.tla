---------------------------- MODULE Setup_proofs ----------------------------
(***************************************************************************)
(* For any devices, ttys, configurations and requests: a request asks      *)
(* where the file sent Zigbee2MQTT, what PiPhi configures of a suggestion  *)
(* keeps leading to its adapter, and only dry runs take GET /health down.  *)
(***************************************************************************)
EXTENDS Setup, TLAPS

(***************************************************************************)
(* Adapters: with a link by what the device is, that link is chosen.       *)
(***************************************************************************)

\* No rule is worth less than 35 or more than 94.
LEMMA RuleScores ==
    ASSUME NEW r \in Rules
    PROVE  r.score \in Nat /\ 35 <= r.score /\ r.score <= 94
BY DEF Rules

\* A link is always worth more than the bare port, and the link by what the device
\* is at least as much as the one by its socket: the cap at 100 undoes neither.
LEMMA LinkScores ==
    ASSUME NEW label \in LabelType, NEW rule \in Rules
    PROVE  /\ LinkScore(label, rule) \in Nat
           /\ LinkScore(label, rule) > label.product.score
           /\ LinkScore(label, rule) >= LinkScore(label, NoRule)
<1>1. label.product \in Rules
  BY DEF LabelType
<1>2. /\ label.product.score \in Nat /\ 35 <= label.product.score /\ label.product.score <= 94
      /\ rule.score \in Nat /\ 35 <= rule.score /\ rule.score <= 94
  BY <1>1, RuleScores
<1>3. QED
  BY <1>2 DEF LinkScore, Greater, Bounded, NoRule

\* Which candidate stands for a device: the link by what it is before the one by
\* its socket, and that before the tty.
LEMMA CandidateChosen ==
    ASSUME NEW d, NEW label \in LabelType, NEW where, Nil \notin Rules
    PROVE  Candidate(d, label, where) =
               IF label.link # Nil THEN FromLink(<<"by-id", d>>, label, label.link)
               ELSE IF label.byPath THEN FromLink(<<"by-path", where.socket>>, label, NoRule)
               ELSE FromPort(label, where)
<1> DEFINE Port == FromPort(label, where)
           ById == FromLink(<<"by-id", d>>, label, label.link)
           ByPath == FromLink(<<"by-path", where.socket>>, label, NoRule)
<1>1. /\ Port.path[1] = "tty" /\ Port.confidence = label.product.score /\ ~Port.stable
      /\ ById.path[1] = "by-id" /\ ById.confidence = LinkScore(label, label.link) /\ ById.stable
      /\ ByPath.path[1] = "by-path" /\ ByPath.confidence = LinkScore(label, NoRule) /\ ByPath.stable
  BY DEF FromPort, FromLink
<1>2. NoRule \in Rules /\ label.product \in Rules /\ label.byPath \in BOOLEAN
      /\ (label.link # Nil => label.link \in Rules)
  BY DEF NoRule, Rules, LabelType
<1>3. /\ label.product.score \in Nat
      /\ LinkScore(label, NoRule) \in Nat /\ LinkScore(label, NoRule) > label.product.score
  BY <1>2, RuleScores, LinkScores
<1>4. Better(ByPath, Port) /\ ~Better(Port, ByPath)
  BY <1>1, <1>3 DEF Better
<1>5. ASSUME label.link # Nil
      PROVE  /\ Better(ById, Port) /\ ~Better(Port, ById)
             /\ ~Better(ByPath, ById)
             /\ Before(ById, ByPath) /\ ~Before(ByPath, ById)
  <2>1. /\ LinkScore(label, label.link) \in Nat
        /\ LinkScore(label, label.link) > label.product.score
        /\ LinkScore(label, label.link) >= LinkScore(label, NoRule)
    BY <1>2, <1>5, LinkScores
  <2>2. /\ Better(ById, Port) /\ ~Better(Port, ById) /\ ~Better(ByPath, ById)
    BY <1>1, <1>3, <2>1 DEF Better
  <2>3. Before(ById, ByPath) /\ ~Before(ByPath, ById)
    BY <1>1 DEF Before
  <2>4. QED
    BY <2>2, <2>3
<1>6. Port # ById /\ Port # ByPath /\ ById # ByPath
  BY <1>1
<1> DEFINE F == Found(d, label, where)
<1>7. F = {Port} \cup (IF label.link # Nil THEN {ById} ELSE {})
                 \cup (IF label.byPath THEN {ByPath} ELSE {})
  BY DEF Found
<1> DEFINE Best(c) == \A o \in F \ {c} : ~Better(o, c) /\ (Better(c, o) \/ Before(c, o))
<1>8. Candidate(d, label, where) = CHOOSE c \in F : Best(c)
  BY DEF Candidate
<1> HIDE DEF Port, ById, ByPath, F
<1>9. CASE label.link # Nil
  <2>1. ById \in F /\ Best(ById)
    BY <1>4, <1>5, <1>7, <1>9
  <2>2. ASSUME NEW c \in F, Best(c) PROVE c = ById
    BY <2>1, <2>2, <1>4, <1>5, <1>7, <1>9
  <2>3. QED
    BY <1>8, <1>9, <2>1, <2>2 DEF ById
<1>10. CASE label.link = Nil /\ label.byPath
  <2>1. ByPath \in F /\ Best(ByPath)
    BY <1>4, <1>7, <1>10
  <2>2. ASSUME NEW c \in F, Best(c) PROVE c = ByPath
    BY <2>1, <2>2, <1>4, <1>7, <1>10
  <2>3. QED
    BY <1>8, <1>10, <2>1, <2>2 DEF ByPath
<1>11. CASE label.link = Nil /\ ~label.byPath
  <2>1. F = {Port}
    BY <1>7, <1>11
  <2>2. Best(Port)
    BY <2>1
  <2>3. QED
    BY <1>8, <1>11, <2>1, <2>2 DEF Port
<1>12. QED
  BY <1>2, <1>9, <1>10, <1>11

\* The first candidate is a device's that is plugged in.
LEMMA HeadChosen ==
    ASSUME NEW label, NEW where, NEW h \in Heads(label, where)
    PROVE  /\ h.device \in DOMAIN where /\ where[h.device] # Nil
           /\ h.candidate = Candidate(h.device, label[h.device], where[h.device])
BY DEF Heads

(***************************************************************************)
(* Settings: file and request lead to one connection.                      *)
(***************************************************************************)

\* Without credentials in its text, a server that can be connected to is the same
\* endpoint: scheme and port are made explicit, never changed.
LEMMA SplitKeepsEndpoint ==
    ASSUME NEW s \in Server, Endpoint(s) # None
    PROVE  /\ Endpoint(Split(s)) = Endpoint(s)
           /\ Split(s) \in Server /\ Split(s).user = None /\ Split(s).password = None
<1>1. s.host \in Hosts /\ s.port \in Ports \cup {"0", None}
  BY DEF Endpoint, Server
<1>2. CASE s.user = None /\ s.password = None
  BY <1>2 DEF Split
<1>3. CASE ~(s.user = None /\ s.password = None)
  <2>1. Split(s) = [s EXCEPT !.scheme = Scheme(s), !.user = None, !.password = None, !.port = CleanPort(s)]
    BY <1>3 DEF Split
  <2>2. Split(s) \in Server /\ Split(s).user = None /\ Split(s).password = None
    BY <2>1 DEF Server, Scheme, CleanPort
  <2>3. /\ Split(s).host = s.host /\ Split(s).scheme = Scheme(s) /\ Split(s).port = CleanPort(s)
        /\ Scheme(Split(s)) = Scheme(s)
    BY <2>1 DEF Server, Scheme
  <2>4. Endpoint(Split(s)) = Endpoint(s)
    BY <1>1, <2>3, MqttAssumption DEF Endpoint, DefaultPort, CleanPort, MqttAssumption
  <2>5. QED
    BY <2>2, <2>4
<1>4. QED
  BY <1>2, <1>3

\* The server in the file never holds credentials, whatever text it came from.
LEMMA SplitType ==
    ASSUME NEW s \in Server
    PROVE  Split(s) \in Server /\ Split(s).user = None /\ Split(s).password = None
BY DEF Split, Server, Scheme, CleanPort

\* What the client connects with is what the file tells Zigbee2MQTT, for all
\* settings that can be connected with.
THEOREM FileTellsTheConnection ==
    ASSUME NEW m \in Settings, Endpoint(m.server) # None
    PROVE  ConnectionOf(Rendered(m)) = Connection(m)
<1>1. m.server \in Server
  BY DEF Settings
<1>2. Endpoint(Split(m.server)) = Endpoint(m.server)
  BY <1>1, SplitKeepsEndpoint
<1>3. QED
  BY <1>2 DEF ConnectionOf, Rendered, Connection

\* Without a server and a topic of its own a request has the current settings.
LEMMA ResolvedPlainly ==
    ASSUME NEW m \in Settings
    PROVE  Resolved(m, None, None) = m
<1>1. m # None /\ m.server # None /\ m.topic # None
  BY MqttAssumption DEF Settings, MqttAssumption
<1>2. Resolved(m, None, None) =
        [server |-> m.server, user |-> m.user, password |-> m.password, topic |-> m.topic]
  BY <1>1 DEF Resolved, Source, Or
<1>3. QED
  BY <1>2 DEF Settings

(***************************************************************************)
(* Types.                                                                  *)
(***************************************************************************)

\* What a suspended request's connection looks like.
LEMMA ConnectionType ==
    ASSUME NEW f \in [server: Server, topic: Topics, user: Secrets \cup {None},
                      password: Secrets \cup {None}],
           Endpoint(f.server) # None
    PROVE  ConnectionOf(f) \in
               [endpoint: Hosts \X (Ports \cup {"1883", "8883"}), topic: Topics,
                login: [user: Secrets \cup {None}, password: Secrets \cup {None}]]
<1>1. f.server \in Server
  OBVIOUS
<1>2. Endpoint(f.server) \in Hosts \X (Ports \cup {"1883", "8883"})
  BY <1>1 DEF Endpoint, DefaultPort, Server
<1>3. QED
  BY <1>2 DEF ConnectionOf, Login

\* The file is made of the configuration; its server has no credentials.
LEMMA ToldType ==
    ASSUME NEW c \in Config, NEW d \in Devices \cup {Nil}
    PROVE  Told(c, d) \in FileType
<1>1. c.mqtt \in Settings /\ c.mqtt.server \in Server
  BY DEF Config, Settings
<1>2. Split(c.mqtt.server) \in {s \in Server : s.user = None /\ s.password = None}
  BY <1>1, SplitType
<1>3. Or(c.mqtt.user, c.mqtt.server.user) \in Secrets \cup {None}
      /\ Or(c.mqtt.password, c.mqtt.server.password) \in Secrets \cup {None}
  BY <1>1 DEF Settings, Server, Or
<1>4. QED
  BY <1>1, <1>2, <1>3 DEF Told, Rendered, FileType, Config, Settings

\* The settings of a request are of the type the client takes.
LEMMA ResolvedType ==
    ASSUME NEW c \in Settings \cup {None}, NEW s \in Server \cup {None},
           NEW t \in Topics \cup {None}, Resolvable(c, s)
    PROVE  Resolved(c, s, t) \in Settings
BY MqttAssumption DEF Resolved, Resolvable, Source, Or, Settings, MqttAssumption

\* A suggestion of a detected adapter has its path and what it says of itself.
LEMMA HeadType ==
    ASSUME TypeOK, NEW h \in Heads(labels, place)
    PROVE  /\ h.device \in house.devices /\ h.device \in Devices
           /\ labels[h.device] \in LabelType
           /\ h.candidate.path \in Paths
           /\ h.candidate.hint \in {r.hint : r \in Rules}
           /\ labels[h.device].link # Nil =>
                 /\ h.candidate.path = <<"by-id", h.device>>
                 /\ h.candidate.hint = TypeOf(labels[h.device])
<1>1. /\ h.device \in house.devices /\ place[h.device] # Nil
      /\ h.candidate = Candidate(h.device, labels[h.device], place[h.device])
  BY HeadChosen DEF TypeOK
<1>2. h.device \in Devices
  BY <1>1, SetupAssumption DEF TypeOK, SetupAssumption
<1>3. labels[h.device] \in LabelType
  BY <1>1, AdapterAssumption DEF TypeOK, AdapterAssumption
<1>4. place[h.device].tty \in Ttys /\ place[h.device].socket \in Sockets
  BY <1>1 DEF TypeOK, Places
<1> DEFINE label == labels[h.device]
           where == place[h.device]
<1>5. h.candidate = IF label.link # Nil THEN FromLink(<<"by-id", h.device>>, label, label.link)
                    ELSE IF label.byPath THEN FromLink(<<"by-path", where.socket>>, label, NoRule)
                    ELSE FromPort(label, where)
  BY <1>1, <1>3, CandidateChosen, AdapterAssumption DEF AdapterAssumption
<1>6. label.product \in Rules /\ NoRule \in Rules /\ (label.link # Nil => label.link \in Rules)
  BY <1>3 DEF LabelType, NoRule, Rules
<1>7. h.candidate.path \in Paths
  <2>1. CASE label.link # Nil
    BY <1>2, <1>5, <2>1 DEF FromLink, Paths
  <2>2. CASE label.link = Nil /\ label.byPath
    BY <1>4, <1>5, <2>2 DEF FromLink, Paths
  <2>3. CASE label.link = Nil /\ ~label.byPath
    BY <1>4, <1>5, <2>3 DEF FromPort, Paths
  <2>4. QED
    BY <2>1, <2>2, <2>3
<1>8. h.candidate.hint \in {r.hint : r \in Rules}
  <2>1. \A r \in Rules : FromPort(label, where).hint = label.product.hint
          /\ \A path : FromLink(path, label, r).hint \in {label.product.hint, r.hint}
    BY DEF FromPort, FromLink
  <2>2. h.candidate.hint \in {label.product.hint, NoRule.hint}
        \/ (label.link # Nil /\ h.candidate.hint \in {label.product.hint, label.link.hint})
    BY <1>5, <1>6, <2>1
  <2>3. QED
    BY <1>6, <2>2
<1>9. ASSUME label.link # Nil
      PROVE  h.candidate.path = <<"by-id", h.device>> /\ h.candidate.hint = TypeOf(label)
  BY <1>5, <1>9 DEF FromLink, TypeOf
<1>10. QED
  BY <1>1, <1>2, <1>3, <1>7, <1>8, <1>9

\* What every step but the one at hand leaves alone is typed already.
LEMMA OvertakenType ==
    ASSUME TypeOK
    PROVE  /\ Overtaken \in [Applies -> [config: Config, checked: BOOLEAN, alone: BOOLEAN] \cup {None}]
           /\ \A a \in Applies : Overtaken[a] # None =>
                 applies[a] # None /\ ~Overtaken[a].alone
                 /\ Overtaken[a].config = applies[a].config /\ Overtaken[a].checked = applies[a].checked
<1>1. ASSUME NEW a \in Applies, applies[a] # None
      PROVE  /\ applies[a] \in [config: Config, checked: BOOLEAN, alone: BOOLEAN]
             /\ [applies[a] EXCEPT !.alone = FALSE] \in [config: Config, checked: BOOLEAN, alone: BOOLEAN]
             /\ [applies[a] EXCEPT !.alone = FALSE].alone = FALSE
             /\ [applies[a] EXCEPT !.alone = FALSE].config = applies[a].config
             /\ [applies[a] EXCEPT !.alone = FALSE].checked = applies[a].checked
  BY <1>1 DEF TypeOK
<1>2. QED
  BY <1>1 DEF Overtaken, Suspended

\* The current configuration is the one in the file as long as nothing came
\* between, and so is that of an apply that is still alone.
Lined(config) == file # None /\ file.mqtt = Rendered(config.mqtt)
InLine ==
    /\ calm /\ current # None => Lined(current)
    /\ \A a \in Applies : applies[a] # None /\ applies[a].alone => Lined(applies[a].config)

\* What is suspended was parsed.
WasParsed ==
    /\ \A a \in Asks : asks[a] # None => Endpoint(asks[a].settings.server) # None
    /\ \A a \in Applies : applies[a] # None /\ applies[a].checked =>
            Endpoint(applies[a].config.mqtt.server) # None

\* A suggestion, and the file made of it, name a linked adapter by its link.
Names(device, path, hint) ==
    device # Nil =>
        /\ device \in house.devices
        /\ labels[device].link # Nil => path = <<"by-id", device>> /\ hint = TypeOf(labels[device])
NamesAdapter ==
    /\ Names(suggested.device, suggested.path, suggested.hint)
    /\ file # None => Names(file.device, file.serial, file.adapter)

IInv == TypeOK /\ InLine /\ WasParsed /\ NamesAdapter /\ AsksWhereFileSays

\* A start without configuration, suggestion or request satisfies the invariant
\* (bridge_models.py:368-378).
THEOREM Initially == Init => IInv
<1> SUFFICES ASSUME Init PROVE IInv
  OBVIOUS
<1>1. NoSuggestion \in [path: Paths \cup {Nil}, hint: {r.hint : r \in Rules}, device: Devices \cup {Nil}]
      /\ NoSuggestion.device = Nil
  <2>1. [hint |-> Nil, score |-> 35] \in Rules
    BY DEF Rules
  <2>2. QED
    BY <2>1 DEF NoSuggestion
<1>2. TypeOK
  BY <1>1 DEF Init, TypeOK, Places
<1>3. InLine /\ WasParsed /\ AsksWhereFileSays
  BY DEF Init, InLine, WasParsed, AsksWhereFileSays
<1>4. NamesAdapter
  BY <1>1 DEF Init, NamesAdapter, Names
<1>5. QED
  BY <1>2, <1>3, <1>4 DEF IInv

\* Devices that come and go.
LEMMA StepDevices ==
    ASSUME IInv,
           \/ \E d \in house.devices, t \in Ttys, s \in Sockets : Plug(d, t, s)
           \/ \E d \in house.devices : Unplug(d)
    PROVE  IInv'
<1>1. place' \in [house.devices -> Places]
  BY DEF IInv, TypeOK, Plug, Unplug, Places
<1>2. UNCHANGED <<house, labels, suggested, current, file, last, asks, applies, calm>>
  BY DEF Plug, Unplug
<1>3. TypeOK'
  BY <1>1, <1>2 DEF IInv, TypeOK
<1>4. InLine' /\ WasParsed' /\ NamesAdapter' /\ AsksWhereFileSays'
  BY <1>2 DEF IInv, InLine, Lined, WasParsed, NamesAdapter, Names, AsksWhereFileSays
<1>5. QED
  BY <1>3, <1>4 DEF IInv

\* A suggestion.
LEMMA StepDiscover ==
    ASSUME IInv, NEW i \in Inputs, Discover(i.port, i.adapter)
    PROVE  IInv'
<1>1. UNCHANGED <<house, labels, place, current, file, last, asks, applies, calm>>
  BY DEF Discover
<1>2. i.port \in Paths \cup {Nil} /\ i.adapter \in {r.hint : r \in Rules}
  BY SetupAssumption DEF SetupAssumption
<1>3. /\ suggested' \in [path: Paths \cup {Nil}, hint: {r.hint : r \in Rules}, device: Devices \cup {Nil}]
      /\ Names(suggested'.device, suggested'.path, suggested'.hint)
  <2>1. CASE Heads(labels, place) = {}
    BY <1>2, <2>1 DEF Discover, Names
  <2>2. CASE Heads(labels, place) # {}
    <3>1. PICK h \in Heads(labels, place) : suggested' = Suggestion(i.port, i.adapter, h)
      BY <2>2 DEF Discover
    <3>2. /\ h.device \in house.devices /\ h.device \in Devices
          /\ h.candidate.path \in Paths /\ h.candidate.hint \in {r.hint : r \in Rules}
          /\ labels[h.device].link # Nil =>
                h.candidate.path = <<"by-id", h.device>> /\ h.candidate.hint = TypeOf(labels[h.device])
      BY HeadType DEF IInv
    <3>3. QED
      BY <1>2, <3>1, <3>2 DEF Suggestion, Names
  <2>3. QED
    BY <2>1, <2>2
<1>4. TypeOK'
  BY <1>1, <1>3 DEF IInv, TypeOK
<1>5. InLine' /\ WasParsed' /\ AsksWhereFileSays'
  BY <1>1 DEF IInv, InLine, Lined, WasParsed, AsksWhereFileSays
<1>6. NamesAdapter'
  BY <1>1, <1>3 DEF IInv, NamesAdapter, Names
<1>7. QED
  BY <1>4, <1>5, <1>6 DEF IInv

\* A write that is stored at once: the store is in line, and every apply under way
\* is no longer alone.
LEMMA StepWritten ==
    ASSUME IInv, NEW c \in Config, NEW d \in Devices \cup {Nil}, Written(c, d),
           Names(d, c.serial, c.adapter),
           UNCHANGED <<house, labels, place, suggested, last, asks>>
    PROVE  IInv'
<1>1. /\ file' = Told(c, d) /\ current' = c /\ applies' = Overtaken /\ calm' = (Suspended = {})
  BY DEF Written
<1>2. Told(c, d) \in FileType /\ Told(c, d) # None
  <2>1. Told(c, d) \in FileType
    BY ToldType
  <2>2. QED
    BY <2>1, SetupAssumption DEF SetupAssumption
<1>3. TypeOK'
  BY <1>1, <1>2, OvertakenType DEF IInv, TypeOK
<1>4. InLine'
  <2>1. Lined(current)'
    BY <1>1, <1>2 DEF Lined, Told
  <2>2. \A a \in Applies : applies'[a] # None => ~applies'[a].alone
    BY <1>1, OvertakenType DEF IInv
  <2>3. QED
    BY <2>1, <2>2 DEF InLine
<1>5. WasParsed'
  BY <1>1, OvertakenType DEF IInv, WasParsed
<1>6. NamesAdapter'
  BY <1>1 DEF IInv, NamesAdapter, Names, Told
<1>7. AsksWhereFileSays'
  BY DEF IInv, AsksWhereFileSays
<1>8. QED
  BY <1>3, <1>4, <1>5, <1>6, <1>7 DEF IInv

LEMMA StepWrites ==
    ASSUME IInv,
           \/ \E m \in PiPhiMqtt : Configure(m)
           \/ \E o \in house.orders : WriteConfig(o)
    PROVE  IInv'
<1>1. ASSUME NEW m \in PiPhiMqtt, Configure(m) PROVE IInv'
  <2> DEFINE c == [mqtt |-> m, serial |-> suggested.path, adapter |-> suggested.hint]
  <2>1. c \in Config
    BY <1>1, SetupAssumption DEF Configure, Config, SetupAssumption, IInv, TypeOK
  <2>2. Names(suggested.device, c.serial, c.adapter) /\ suggested.device \in Devices \cup {Nil}
    BY DEF IInv, NamesAdapter, TypeOK
  <2>3. Written(c, suggested.device) /\ UNCHANGED <<house, labels, place, suggested, last, asks>>
    BY <1>1 DEF Configure
  <2> HIDE DEF c
  <2>4. QED
    BY <2>1, <2>2, <2>3, StepWritten
<1>2. ASSUME NEW o \in house.orders, WriteConfig(o) PROVE IInv'
  <2>1. o \in Config
    BY SetupAssumption DEF SetupAssumption, IInv, TypeOK
  <2>2. Names(Nil, o.serial, o.adapter)
    BY DEF Names
  <2>3. Written(o, Nil) /\ UNCHANGED <<house, labels, place, suggested, last, asks>>
    BY <1>2 DEF WriteConfig
  <2>4. QED
    BY <2>1, <2>2, <2>3, StepWritten
<1>3. QED
  BY <1>1, <1>2

\* A preview puts store and file apart, and is remembered as that.
LEMMA StepRender ==
    ASSUME IInv, NEW o \in house.orders, RenderConfig(o)
    PROVE  IInv'
<1>1. o \in Config
  BY SetupAssumption DEF SetupAssumption, IInv, TypeOK
<1>2. /\ current' = o /\ ~calm' /\ calm' \in BOOLEAN
      /\ UNCHANGED <<house, labels, place, suggested, file, last, asks, applies>>
  BY DEF RenderConfig
<1>3. TypeOK'
  BY <1>1, <1>2 DEF IInv, TypeOK
<1>4. InLine' /\ WasParsed' /\ NamesAdapter' /\ AsksWhereFileSays'
  BY <1>2 DEF IInv, InLine, Lined, WasParsed, NamesAdapter, Names, AsksWhereFileSays
<1>5. QED
  BY <1>3, <1>4 DEF IInv

\* An apply starts with its write; it is alone if no other is under way.
LEMMA StepApplyWrites ==
    ASSUME IInv, NEW a \in Applies, NEW o \in house.orders, NEW checked \in BOOLEAN,
           ApplyWrites(a, o, checked)
    PROVE  IInv'
<1>1. o \in Config
  BY SetupAssumption DEF SetupAssumption, IInv, TypeOK
<1> DEFINE new == [config |-> o, checked |-> checked, alone |-> Suspended = {}]
<1>2. /\ file' = Told(o, Nil) /\ ~calm' /\ calm' \in BOOLEAN
      /\ applies' = IF checked /\ Endpoint(o.mqtt.server) = None THEN Overtaken
                    ELSE [Overtaken EXCEPT ![a] = new]
      /\ UNCHANGED <<house, labels, place, suggested, current, last, asks>>
  BY DEF ApplyWrites
<1>3. Told(o, Nil) \in FileType /\ Told(o, Nil) # None
  <2>1. Told(o, Nil) \in FileType
    BY <1>1, ToldType
  <2>2. QED
    BY <2>1, SetupAssumption DEF SetupAssumption
<1>4. new \in [config: Config, checked: BOOLEAN, alone: BOOLEAN]
  BY <1>1
<1>5. \A b \in Applies : applies'[b] # None =>
         \/ Overtaken[b] # None /\ applies'[b] = Overtaken[b]
         \/ applies'[b] = new /\ ~(checked /\ Endpoint(o.mqtt.server) = None)
  BY <1>2, OvertakenType DEF IInv
<1>6. TypeOK'
  BY <1>2, <1>3, <1>4, OvertakenType DEF IInv, TypeOK
<1>7. InLine'
  <2>1. file' # None /\ file'.mqtt = Rendered(o.mqtt)
    BY <1>2, <1>3 DEF Told
  <2>2. \A b \in Applies : applies'[b] # None /\ applies'[b].alone => applies'[b].config = o
    <3>1. \A b \in Applies : Overtaken[b] # None => ~Overtaken[b].alone
      BY OvertakenType DEF IInv
    <3>2. new.config = o
      OBVIOUS
    <3> HIDE DEF new
    <3>3. QED
      BY <1>5, <3>1, <3>2
  <2>3. QED
    BY <1>2, <2>1, <2>2 DEF InLine, Lined
<1>8. WasParsed'
  <2>1. \A b \in Applies : applies'[b] # None /\ applies'[b].checked =>
            Endpoint(applies'[b].config.mqtt.server) # None
    <3>1. \A b \in Applies : Overtaken[b] # None /\ Overtaken[b].checked =>
              Endpoint(Overtaken[b].config.mqtt.server) # None
      BY OvertakenType DEF IInv, WasParsed
    <3>2. new.config = o /\ new.checked = checked
      OBVIOUS
    <3> HIDE DEF new
    <3>3. QED
      BY <1>5, <3>1, <3>2
  <2>2. QED
    BY <1>2, <2>1 DEF IInv, WasParsed
<1>9. NamesAdapter'
  BY <1>2 DEF IInv, NamesAdapter, Names, Told
<1>10. AsksWhereFileSays'
  BY <1>2 DEF IInv, AsksWhereFileSays
<1>11. QED
  BY <1>6, <1>7, <1>8, <1>9, <1>10 DEF IInv

\* An apply ends, stored or not.
LEMMA StepApplyEnds ==
    ASSUME IInv, NEW a \in Applies, ApplyStores(a) \/ ApplyRaises(a)
    PROVE  IInv'
<1>1. /\ applies[a] # None /\ applies[a] \in [config: Config, checked: BOOLEAN, alone: BOOLEAN]
      /\ applies' = [applies EXCEPT ![a] = None]
      /\ UNCHANGED <<house, labels, place, suggested, file, asks>>
      /\ \/ /\ current' = applies[a].config /\ calm' = applies[a].alone
            /\ last' = IF applies[a].checked
                       THEN [last EXCEPT !["check"] = applies[a].config.mqtt.server] ELSE last
         \/ UNCHANGED <<current, calm, last>>
  BY DEF ApplyStores, ApplyRaises, Suspended, IInv, TypeOK
<1>2. applies[a].config.mqtt.server \in Server
  BY <1>1 DEF Config, Settings
<1>3. TypeOK'
  BY <1>1, <1>2, SetupAssumption DEF IInv, TypeOK, SetupAssumption
<1>4. \A b \in Applies : applies'[b] # None => applies'[b] = applies[b]
  BY <1>1 DEF IInv, TypeOK
<1>5. InLine'
  BY <1>1, <1>4 DEF IInv, InLine, Lined
<1>6. WasParsed' /\ NamesAdapter' /\ AsksWhereFileSays'
  BY <1>1, <1>4 DEF IInv, WasParsed, NamesAdapter, Names, AsksWhereFileSays
<1>7. QED
  BY <1>3, <1>5, <1>6 DEF IInv

\* A request starts: with the current settings, unless it has its own.
LEMMA StepAskStarts ==
    ASSUME IInv, NEW a \in Asks, NEW k \in Kinds, NEW server \in house.servers,
           NEW topic \in Topics \cup {None}, AskStarts(a, k, server, topic)
    PROVE  IInv'
<1> DEFINE m == Resolved(CurrentMqtt, server, topic)
           told == IF calm /\ server = None /\ topic = None THEN ConnectionOf(file.mqtt) ELSE None
           ask == [kind |-> k, settings |-> m, told |-> told]
<1>1. /\ k # "check" /\ Resolvable(CurrentMqtt, server) /\ Endpoint(m.server) # None
      /\ asks' = [asks EXCEPT ![a] = ask]
      /\ UNCHANGED <<house, labels, place, suggested, current, file, last, applies, calm>>
  BY DEF AskStarts
<1>2. CurrentMqtt \in Settings \cup {None} /\ server \in Server \cup {None}
      /\ (current # None => CurrentMqtt = current.mqtt /\ current.mqtt \in Settings)
  BY SetupAssumption DEF CurrentMqtt, SetupAssumption, IInv, TypeOK, Config
<1>3. m \in Settings
  BY <1>1, <1>2, ResolvedType
<1>4. ASSUME calm, server = None, topic = None
      PROVE  /\ m = current.mqtt /\ told = Connection(m)
             /\ told \in [endpoint: Hosts \X (Ports \cup {"1883", "8883"}), topic: Topics,
                          login: [user: Secrets \cup {None}, password: Secrets \cup {None}]]
  <2>1. current # None
    BY <1>1, <1>4 DEF Resolvable, CurrentMqtt
  <2>2. m = current.mqtt
    BY <1>2, <1>4, <2>1, ResolvedPlainly
  <2>3. file # None /\ file.mqtt = Rendered(m)
    BY <1>4, <2>1, <2>2 DEF IInv, InLine, Lined
  <2>4. ConnectionOf(Rendered(m)) = Connection(m)
    BY <1>1, <1>3, FileTellsTheConnection
  <2>5. told = Connection(m)
    BY <1>4, <2>3, <2>4
  <2>6. /\ file.mqtt \in [server: Server, topic: Topics, user: Secrets \cup {None},
                          password: Secrets \cup {None}]
    BY <2>3 DEF IInv, TypeOK, FileType
  <2>7. Endpoint(file.mqtt.server) # None
    <3>1. m.server \in Server
      BY <1>3 DEF Settings
    <3>2. QED
      BY <1>1, <2>3, <3>1, SplitKeepsEndpoint DEF Rendered
  <2>8. told = ConnectionOf(file.mqtt)
    BY <1>4
  <2>9. QED
    BY <2>2, <2>5, <2>6, <2>7, <2>8, ConnectionType
<1>5. ask \in AskType
  <2>1. told \in {None} \cup [endpoint: Hosts \X (Ports \cup {"1883", "8883"}), topic: Topics,
                              login: [user: Secrets \cup {None}, password: Secrets \cup {None}]]
    BY <1>4
  <2> HIDE DEF told, m
  <2>2. QED
    BY <1>1, <1>3, <2>1 DEF AskType
<1>6. told # None => Connection(m) = told
  BY <1>4
<1>7. ask.settings = m /\ ask.told = told
  OBVIOUS
<1> HIDE DEF ask, told, m
<1>8. TypeOK'
  BY <1>1, <1>5 DEF IInv, TypeOK
<1>9. \A b \in Asks : asks'[b] = asks[b] \/ asks'[b] = ask
  BY <1>1 DEF IInv, TypeOK
<1>10. AsksWhereFileSays'
  BY <1>6, <1>7, <1>9 DEF IInv, AsksWhereFileSays
<1>11. WasParsed'
  BY <1>1, <1>7, <1>9 DEF IInv, WasParsed
<1>12. InLine' /\ NamesAdapter'
  BY <1>1 DEF IInv, InLine, Lined, NamesAdapter, Names
<1>13. QED
  BY <1>8, <1>10, <1>11, <1>12 DEF IInv

\* A request ends.
LEMMA StepAskEnds ==
    ASSUME IInv, NEW a \in Asks, AskAnswered(a) \/ AskFails(a)
    PROVE  IInv'
<1>1. /\ asks[a] # None /\ asks' = [asks EXCEPT ![a] = None]
      /\ UNCHANGED <<house, labels, place, suggested, current, file, applies, calm>>
      /\ last' = last \/ last' = [last EXCEPT ![asks[a].kind] = asks[a].settings.server]
  BY DEF AskAnswered, AskFails
<1>2. asks[a] \in AskType /\ asks[a].kind \in Kinds /\ asks[a].settings.server \in Server
  <2>1. asks[a] \in AskType
    BY <1>1 DEF IInv, TypeOK
  <2>2. QED
    BY <2>1 DEF AskType, Settings
<1>3. TypeOK'
  BY <1>1, <1>2 DEF IInv, TypeOK
<1>4. \A b \in Asks : asks'[b] = asks[b] \/ asks'[b] = None
  BY <1>1 DEF IInv, TypeOK
<1>5. InLine' /\ WasParsed' /\ NamesAdapter' /\ AsksWhereFileSays'
  BY <1>1, <1>4 DEF IInv, InLine, Lined, WasParsed, NamesAdapter, Names, AsksWhereFileSays
<1>6. QED
  BY <1>3, <1>5 DEF IInv

\* Dry runs and broker checks store an answer and nothing else.
LEMMA StepAtOnce ==
    ASSUME IInv,
           \/ \E k \in Kinds, server \in house.servers : DryRun(k, server)
           \/ \E server \in house.servers : MqttCheck(server)
    PROVE  IInv'
<1>1. UNCHANGED <<house, labels, place, suggested, current, file, asks, applies, calm>>
  BY DEF DryRun, MqttCheck
<1>2. PICK k \in Kinds, server \in house.servers :
         /\ Resolvable(CurrentMqtt, server)
         /\ last' = [last EXCEPT ![k] = Or(server, CurrentMqtt.server)]
  BY SetupAssumption DEF DryRun, MqttCheck, SetupAssumption
<1>3. /\ CurrentMqtt \in Settings \cup {None} /\ server \in Server \cup {None}
  BY SetupAssumption DEF CurrentMqtt, SetupAssumption, IInv, TypeOK, Config
<1>4. Or(server, CurrentMqtt.server) \in Server
  BY <1>2, <1>3 DEF Or, Resolvable, Settings
<1>5. TypeOK'
  BY <1>1, <1>2, <1>4 DEF IInv, TypeOK
<1>6. InLine' /\ WasParsed' /\ NamesAdapter' /\ AsksWhereFileSays'
  BY <1>1 DEF IInv, InLine, Lined, WasParsed, NamesAdapter, Names, AsksWhereFileSays
<1>7. QED
  BY <1>5, <1>6 DEF IInv

(***************************************************************************)
(* The theorems.                                                           *)
(***************************************************************************)

\* Store and file agree whenever nothing came between, and what is suspended was
\* parsed: the invariant behind the theorems below.
THEOREM Invariance == Spec => []IInv
<1>1. IInv /\ [Next]_vars => IInv'
  <2> SUFFICES ASSUME IInv, [Next]_vars PROVE IInv'
    OBVIOUS
  <2>1. CASE UNCHANGED vars
    BY <2>1 DEF vars, IInv, TypeOK, InLine, Lined, WasParsed, NamesAdapter, Names, AsksWhereFileSays
  <2>2. CASE Next
    BY <2>2, StepDevices, StepDiscover, StepWrites, StepRender, StepApplyWrites, StepApplyEnds,
       StepAskStarts, StepAskEnds, StepAtOnce DEF Next
  <2>3. QED
    BY <2>1, <2>2
<1>2. QED
  BY <1>1, Initially, PTL DEF Spec

\* Every variable keeps its type, and the server in the file is free of
\* credentials, for any texts and requests.
THEOREM TypeCorrect == Spec => []TypeOK
BY Invariance, PTL DEF IInv

\* In every interleaving of requests and writes, a request without settings of its
\* own connects as the file tells Zigbee2MQTT (zigbee2mqtt_mqtt.py:259-273).
THEOREM AsksAreTold == Spec => []AsksWhereFileSays
BY Invariance, PTL DEF IInv

\* However many adapters are plugged and handed on ttys, a file made of a suggestion
\* opens the adapter it was made for or none (adapter_detector.py:98).
THEOREM FileKeepsItsAdapter == Spec => []FileLeadsToItsAdapter
<1>1. IInv => FileLeadsToItsAdapter
  <2> SUFFICES ASSUME IInv, file # None, file.device # Nil, labels[file.device].link # Nil
               PROVE  /\ LeadsTo(file.serial, place) \in {file.device, Nil}
                      /\ file.adapter = TypeOf(labels[file.device])
    BY DEF FileLeadsToItsAdapter
  <2>1. file.serial = <<"by-id", file.device>> /\ file.adapter = TypeOf(labels[file.device])
    BY DEF IInv, NamesAdapter, Names
  <2>2. ASSUME NEW d PROVE LeadsTo(<<"by-id", d>>, place) \in {d, Nil}
    BY DEF LeadsTo
  <2>3. QED
    BY <2>1, <2>2
<1>2. QED
  BY <1>1, Invariance, PTL

\* No answered request, broker check or apply takes GET /health down
\* (health.py:14, bridge_models.py:420).
THEOREM HealthIsKept == Spec => HealthKeepsAnswering
<1> DEFINE Broken == HealthAnswers /\ ~HealthAnswers' =>
                        \E k \in Kinds, server \in house.servers : DryRun(k, server)
<1>1. ASSUME NEW s \in Server, Endpoint(s) # None PROVE Readable(s)
  BY <1>1, MqttAssumption DEF Endpoint, Readable, MqttAssumption
<1>2. ASSUME IInv, HealthAnswers, NEW k \in Kinds, NEW s \in Server, Readable(s),
             last' = [last EXCEPT ![k] = s]
      PROVE  HealthAnswers'
  BY <1>2 DEF HealthAnswers, IInv, TypeOK
<1>3. ASSUME last' = last, HealthAnswers PROVE HealthAnswers'
  BY <1>3 DEF HealthAnswers
<1>4. IInv /\ [Next]_vars => [Broken]_vars
  <2> SUFFICES ASSUME IInv, Next, HealthAnswers PROVE HealthAnswers' \/
                    \E k \in Kinds, server \in house.servers : DryRun(k, server)
    OBVIOUS
  <2>1. ASSUME NEW a \in Applies, ApplyStores(a) PROVE HealthAnswers'
    <3>1. /\ applies[a] # None /\ applies[a].config \in Config
          /\ last' = IF applies[a].checked
                     THEN [last EXCEPT !["check"] = applies[a].config.mqtt.server] ELSE last
      BY <2>1 DEF ApplyStores, Suspended, IInv, TypeOK
    <3>2. applies[a].config.mqtt.server \in Server
      BY <3>1 DEF Config, Settings
    <3>3. QED
      BY <3>1, <3>2, <1>1, <1>2, <1>3, SetupAssumption DEF IInv, WasParsed, SetupAssumption
  <2>2. ASSUME NEW a \in Asks, AskAnswered(a) PROVE HealthAnswers'
    <3>1. asks[a] \in AskType /\ Endpoint(asks[a].settings.server) # None
      BY <2>2 DEF AskAnswered, IInv, TypeOK, WasParsed
    <3>2. asks[a].kind \in Kinds /\ asks[a].settings.server \in Server
      BY <3>1 DEF AskType, Settings
    <3>3. last' = [last EXCEPT ![asks[a].kind] = asks[a].settings.server]
      BY <2>2 DEF AskAnswered
    <3>4. QED
      BY <3>1, <3>2, <3>3, <1>1, <1>2
  <2>3. ASSUME NEW server \in house.servers, MqttCheck(server) PROVE HealthAnswers'
    <3> DEFINE s == Or(server, CurrentMqtt.server)
    <3>1. Resolvable(CurrentMqtt, server) /\ Endpoint(s) # None /\ last' = [last EXCEPT !["check"] = s]
      BY <2>3 DEF MqttCheck, Parsed
    <3>2. CurrentMqtt \in Settings \cup {None} /\ server \in Server \cup {None}
      BY SetupAssumption DEF CurrentMqtt, SetupAssumption, IInv, TypeOK, Config
    <3>3. s \in Server
      BY <3>1, <3>2 DEF Or, Resolvable, Settings
    <3> HIDE DEF s
    <3>4. QED
      BY <3>1, <3>3, <1>1, <1>2, SetupAssumption DEF SetupAssumption
  <2>4. QED
    BY <2>1, <2>2, <2>3, <1>3
       DEF Next, Plug, Unplug, Discover, Configure, WriteConfig, RenderConfig, ApplyWrites, ApplyRaises,
           AskStarts, AskFails
<1>5. QED
  BY <1>4, Invariance, PTL DEF Spec, HealthKeepsAnswering
=============================================================================
