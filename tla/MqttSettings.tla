---------------------------- MODULE MqttSettings ----------------------------
(* The MQTT settings of a configuration: what is rendered of them for       *)
(* Zigbee2MQTT, what the bridge itself connects to, and what it shows.      *)
(*                                                                          *)
(* A server is a URL taken apart by urlparse: a text without a scheme is    *)
(* read as mqtt, a user or password that is empty counts as absent.         *)
EXTENDS Naturals

CONSTANTS
    Hosts, Topics, Secrets,    \* Secrets: user names and passwords
    DefaultTopic,              \* zigbee2mqtt
    Ports,                     \* the valid ports but 0
    None                       \* absent

\* A port may be 0, false to Python, or no number from 0 to 65535 at all.
Server ==
    [scheme: {"mqtt", "mqtts", "other", "without"}, user: Secrets \cup {None},
     password: Secrets \cup {None}, host: Hosts \cup {None},
     port: Ports \cup {"0", "invalid", None}]
Settings ==
    [server: Server, user: Secrets \cup {None}, password: Secrets \cup {None}, topic: Topics]

ASSUME MqttAssumption ==
    /\ None \notin Hosts \cup Topics \cup Secrets \cup Ports \cup Server \cup Settings
    /\ {"0", "invalid", "1883", "8883"} \cap ({None} \cup Hosts) = {}
    /\ {"0", "invalid"} \cap Ports = {}
    /\ DefaultTopic \in Topics

\* Python's or.
Or(a, b) == IF a # None THEN a ELSE b

Scheme(s) == IF s.scheme = "without" THEN "mqtt" ELSE s.scheme

\* What urlparse raises for a port it cannot read, the callers find out only when
\* they read it: parse_mqtt_endpoint and redact_mqtt_server raise ValueError.
Readable(s) == s.host = None \/ s.port # "invalid"

\* Host and port to connect to, or None where ValueError is raised.
DefaultPort(s) == IF Scheme(s) = "mqtts" THEN "8883" ELSE "1883"
Endpoint(s) ==
    CASE s.host = None \/ s.port = "invalid" -> None
      [] s.host # None /\ s.port \in Ports -> <<s.host, s.port>>
      [] s.host # None /\ s.port \in {"0", None} /\ Scheme(s) # "other" -> <<s.host, DefaultPort(s)>>
      [] OTHER -> None

\* Credentials leave the server text; the port is dropped if it is 0 or invalid.
CleanPort(s) == IF s.port \in Ports THEN s.port ELSE None
SplitNamed(s) ==
    IF s.user = None THEN s
    ELSE [s EXCEPT !.scheme = Scheme(s), !.user = None, !.password = None, !.port = CleanPort(s)]
Split(s) ==
    IF s.user = None /\ s.password = None THEN s
    ELSE [s EXCEPT !.scheme = Scheme(s), !.user = None, !.password = None, !.port = CleanPort(s)]

\* The mqtt section of configuration.yaml.
Rendered(m) ==
    [server |-> Split(m.server), topic |-> m.topic,
     user |-> Or(m.user, m.server.user), password |-> Or(m.password, m.server.password)]

\* A request's server and topic go before those of the configuration, whose user
\* and password stay; without either there is nothing to ask.
Resolvable(current, server) == current # None \/ server # None
Source(current, server) ==
    IF current # None THEN current
    ELSE [server |-> server, user |-> None, password |-> None, topic |-> DefaultTopic]
ResolvedUrlOnly(current, server, topic) ==
    LET source == Source(current, server)
    IN  [server |-> Or(server, source.server), user |-> None, password |-> None,
         topic |-> Or(topic, source.topic)]
Resolved(current, server, topic) ==
    LET source == Source(current, server)
    IN  [server |-> Or(server, source.server), user |-> source.user,
         password |-> source.password, topic |-> Or(topic, source.topic)]

\* What the client connects with: _mqtt_credentials and username_pw_set, which
\* leaves out a password without a user.
Login(user, password) == [user |-> user, password |-> IF user = None THEN None ELSE password]
Connection(m) ==
    [endpoint |-> Endpoint(m.server), topic |-> m.topic,
     login |-> Login(Or(m.user, m.server.user), Or(m.password, m.server.password))]

\* What Zigbee2MQTT connects with, told so by its file.
ConnectionOf(f) ==
    [endpoint |-> Endpoint(f.server), topic |-> f.topic, login |-> Login(f.user, f.password)]
=============================================================================
