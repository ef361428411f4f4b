---------------------------- MODULE MqttExchange ----------------------------
(***************************************************************************)
(* The MQTT client calls of zigbee2mqtt_mqtt.py.  Each call runs in a      *)
(* worker thread of asyncio.to_thread with a paho client of its own, whose *)
(* network thread runs the callbacks.  The two threads share an Event, a   *)
(* list of errors and a dict with the response; nothing locks them.        *)
(*                                                                         *)
(* A call either asks (publish on .../bridge/request/..., wait for the     *)
(* answer on .../bridge/response/...) or reads the retained                *)
(* .../bridge/devices.  Answers go to every client subscribed to the       *)
(* response topic; a transaction tells them apart, and is the call here.   *)
(* A payload is known by where it comes from.                              *)
(***************************************************************************)
EXTENDS Naturals, Sequences, FiniteSets

CONSTANTS
    Calls,        \* calls handed to the thread pool
    Readers,      \* those that read bridge/devices
    Workers,      \* threads of the pool
    MaxConnects,  \* bound: connections of one client
    MaxForeign,   \* bound: messages nobody here asked for
    NoTag,        \* no "transaction" key
    Nothing,      \* an empty response dict
    Foreign,      \* the payload of an answer to someone else's untagged request
    Devices       \* the retained device list

ASSUME ExchangeAssumption ==
    /\ Readers \subseteq Calls
    /\ IsFiniteSet(Calls)
    /\ Workers \in Nat \ {0}
    /\ MaxConnects \in Nat \ {0}
    /\ MaxForeign \in Nat
    /\ NoTag \notin Calls
    /\ {Nothing, Foreign, Devices} \cap Calls = {}
    /\ Nothing \notin {Foreign, Devices}

VARIABLES
    pc,         \* the worker thread
    outcome,    \* what it will do after the finally block
    event,      \* response_event
    error,      \* the error list is not empty
    response,   \* response_payload
    value,      \* response_payload["value"] as read, for readers
    net,        \* the client's connection and subscription
    inbox,      \* what the broker has sent the client, in order
    requests,   \* call -> published requests on their way to Zigbee2MQTT
    scans,      \* call -> requests of it Zigbee2MQTT carried out
    connects,   \* call -> connections its client made
    foreigns    \* messages nobody here asked for

threads == <<pc, outcome>>
shared == <<event, error, response>>
vars == <<pc, outcome, event, error, response, value, net, inbox, requests,
          scans, connects, foreigns>>

Ended == {"returned", "raised"}
Empty == [tag |-> NoTag, body |-> Nothing]
Responses == [tag: Calls \cup {NoTag}, body: Calls \cup {Nothing, Foreign, Devices}]
Messages == [kind: {"connack", "refused", "suback", "answer", "garbage", "empty"},
             tag: Calls \cup {NoTag}, body: Calls \cup {Nothing, Foreign, Devices}]

TypeOK ==
    /\ pc \in [Calls -> {"idle", "waiting", "woken", "payload", "stopping"} \cup Ended]
    /\ outcome \in [Calls -> {"none"} \cup Ended]
    /\ event \in [Calls -> BOOLEAN]
    /\ error \in [Calls -> BOOLEAN]
    /\ response \in [Calls -> Responses]
    /\ value \in [Calls -> Responses]
    /\ net \in [Calls -> {"off", "down", "connecting", "subscribing", "subscribed", "denied"}]
    /\ inbox \in [Calls -> Seq(Messages)]
    /\ requests \in [Calls -> Nat]
    /\ scans \in [Calls -> Nat]
    /\ connects \in [Calls -> 0 .. MaxConnects]
    /\ foreigns \in 0 .. MaxForeign

Message(kind, tag, body) == [kind |-> kind, tag |-> tag, body |-> body]
Control(kind) == Message(kind, NoTag, Nothing)

Init ==
    /\ pc = [c \in Calls |-> "idle"]
    /\ outcome = [c \in Calls |-> "none"]
    /\ event = [c \in Calls |-> FALSE]
    /\ error = [c \in Calls |-> FALSE]
    /\ response = [c \in Calls |-> Empty]
    /\ value = [c \in Calls |-> Empty]
    /\ net = [c \in Calls |-> "off"]
    /\ inbox = [c \in Calls |-> <<>>]
    /\ requests = [c \in Calls |-> 0]
    /\ scans = [c \in Calls |-> 0]
    /\ connects = [c \in Calls |-> 0]
    /\ foreigns = 0

Set(f, c, x) == [f EXCEPT ![c] = x]

----------------------------------------------------------------------------
(* The worker thread.                                                      *)

Busy == {c \in Calls : pc[c] \notin {"idle"} \cup Ended}

\* A free worker takes the call; client.connect() opens the connection, on which
\* the broker will accept or refuse the client, and loop_start() starts the
\* network thread.
Connects(c) ==
    /\ pc[c] = "idle"
    /\ Cardinality(Busy) < Workers
    /\ pc' = Set(pc, c, "waiting")
    /\ net' = Set(net, c, "connecting")
    /\ connects' = Set(connects, c, connects[c] + 1)
    /\ \E kind \in {"connack", "refused"} : inbox' = Set(inbox, c, <<Control(kind)>>)
    /\ UNCHANGED <<outcome, shared, value, requests, scans, foreigns>>

\* connect() raises: no network thread was started.
ConnectRaises(c) ==
    /\ pc[c] = "idle"
    /\ Cardinality(Busy) < Workers
    /\ pc' = Set(pc, c, "raised")
    /\ outcome' = Set(outcome, c, "raised")
    /\ UNCHANGED <<shared, value, net, inbox, requests, scans, connects, foreigns>>

Decides(c, verdict) ==
    /\ pc' = Set(pc, c, "stopping")
    /\ outcome' = Set(outcome, c, verdict)

\* response_event.wait(timeout_seconds)
Wakes(c) ==
    /\ pc[c] = "waiting"
    /\ event[c]
    /\ pc' = Set(pc, c, "woken")
    /\ UNCHANGED <<outcome, shared, value, net, inbox, requests, scans, connects, foreigns>>

\* Mutant: wait() without a timeout once the client has subscribed.
TimesOutOffline(c) ==
    /\ pc[c] = "waiting"
    /\ ~event[c]
    /\ net[c] # "subscribed"
    /\ Decides(c, "raised")
    /\ UNCHANGED <<shared, value, net, inbox, requests, scans, connects, foreigns>>

TimesOut(c) ==
    /\ pc[c] = "waiting"
    /\ ~event[c]
    /\ Decides(c, "raised")
    /\ UNCHANGED <<shared, value, net, inbox, requests, scans, connects, foreigns>>

\* if error: raise
ReadsError(c) ==
    /\ pc[c] = "woken"
    /\ IF error[c] THEN Decides(c, "raised")
       ELSE pc' = Set(pc, c, "payload") /\ outcome' = outcome
    /\ UNCHANGED <<shared, value, net, inbox, requests, scans, connects, foreigns>>

\* Mutant: an empty dict is returned like any other.
ReadsPayloadUnchecked(c) ==
    /\ pc[c] = "payload"
    /\ Decides(c, "returned")
    /\ value' = Set(value, c, response[c])
    /\ UNCHANGED <<shared, net, inbox, requests, scans, connects, foreigns>>

\* An empty dict raises; otherwise the value is returned, or the dict itself.
ReadsPayload(c) ==
    /\ pc[c] = "payload"
    /\ Decides(c, IF response[c] = Empty THEN "raised" ELSE "returned")
    /\ value' = Set(value, c, response[c])
    /\ UNCHANGED <<shared, net, inbox, requests, scans, connects, foreigns>>

\* Mutant: disconnect() without loop_stop(), which leaves the network thread running.
StopsWithoutJoin(c) ==
    /\ pc[c] = "stopping"
    /\ pc' = Set(pc, c, outcome[c])
    /\ UNCHANGED <<outcome, shared, value, net, inbox, requests, scans, connects, foreigns>>

\* finally: loop_stop() waits for the network thread, then disconnect().
Stops(c) ==
    /\ pc[c] = "stopping"
    /\ pc' = Set(pc, c, outcome[c])
    /\ net' = Set(net, c, "off")
    /\ inbox' = Set(inbox, c, <<>>)
    /\ UNCHANGED <<outcome, shared, value, requests, scans, connects, foreigns>>

----------------------------------------------------------------------------
(* The network thread: one callback per message, until it is joined.        *)

Receives(c, kinds) ==
    /\ inbox[c] # <<>>
    /\ Head(inbox[c]).kind \in kinds
    /\ inbox' = Set(inbox, c, Tail(inbox[c]))

OnConnect(c) ==
    /\ Receives(c, {"connack"})
    /\ net' = Set(net, c, "subscribing")
    /\ UNCHANGED <<threads, shared, value, requests, scans, connects, foreigns>>

OnConnectFailed(c) ==
    /\ Receives(c, {"refused"})
    /\ error' = Set(error, c, TRUE)
    /\ event' = Set(event, c, TRUE)
    /\ net' = Set(net, c, "down")
    /\ UNCHANGED <<threads, response, value, requests, scans, connects, foreigns>>

\* Mutant: the request is published twice.
OnSubscribeTwice(c) ==
    /\ Receives(c, {"suback"})
    /\ requests' = Set(requests, c, requests[c] + (IF c \in Readers THEN 0 ELSE 2))
    /\ UNCHANGED <<threads, shared, value, net, scans, connects, foreigns>>

\* The request goes out, whatever the SUBACK says.
OnSubscribe(c) ==
    /\ Receives(c, {"suback"})
    /\ requests' = Set(requests, c, requests[c] + (IF c \in Readers THEN 0 ELSE 1))
    /\ UNCHANGED <<threads, shared, value, net, scans, connects, foreigns>>

\* Mutant: every answer on the topic is taken.
AcceptsAny(c, message) == TRUE

\* An answer with another transaction is left alone, one without is taken.
Accepts(c, message) == message.tag \in {NoTag, c}

\* Mutant: the message is kept as it came, not decoded.
UpdatedUndecoded(old, message) == message

\* response_payload.update(decoded): keys the message does not have stay.
Updated(old, message) ==
    [tag |-> IF message.tag = NoTag THEN old.tag ELSE message.tag, body |-> message.body]

OnMessage(c) ==
    LET message == Head(inbox[c]) IN
    /\ Receives(c, {"answer"})
    /\ IF Accepts(c, message)
       THEN /\ response' = Set(response, c, Updated(response[c], message))
            /\ event' = Set(event, c, TRUE)
       ELSE response' = response /\ event' = event
    /\ UNCHANGED <<threads, error, value, net, requests, scans, connects, foreigns>>

\* Not JSON, or not an object; or {}, which adds nothing to the dict.
OnUselessMessage(c) ==
    /\ Receives(c, {"garbage", "empty"})
    /\ error' = Set(error, c, error[c] \/ Head(inbox[c]).kind = "garbage")
    /\ event' = Set(event, c, TRUE)
    /\ UNCHANGED <<threads, response, value, net, requests, scans, connects, foreigns>>

----------------------------------------------------------------------------
(* The broker, the connection and Zigbee2MQTT: not part of the repository.  *)

\* The broker subscribes the client, or denies it; either way it sends a SUBACK.
\* A reader is sent the retained message, if there is one.
BrokerSubscribes(c) ==
    /\ net[c] = "subscribing"
    /\ \E granted \in BOOLEAN, retained \in BOOLEAN :
         /\ net' = Set(net, c, IF granted THEN "subscribed" ELSE "denied")
         /\ inbox' = Set(inbox, c, inbox[c] \o
              IF granted /\ retained /\ c \in Readers
              THEN <<Control("suback"), Message("answer", NoTag, Devices)>>
              ELSE <<Control("suback")>>)
    /\ UNCHANGED <<threads, shared, value, requests, scans, connects, foreigns>>

Broadcast(message, to) ==
    inbox' = [c \in Calls |-> IF net[c] = "subscribed" /\ c \in to
                              THEN Append(inbox[c], message) ELSE inbox[c]]

TakesUp(c) ==
    /\ requests[c] > 0
    /\ requests' = Set(requests, c, requests[c] - 1)

\* Zigbee2MQTT carries a request out, at whatever time, and answers.
Zigbee2MqttAnswers(c) ==
    /\ TakesUp(c)
    /\ scans' = Set(scans, c, scans[c] + 1)
    /\ Broadcast(Message("answer", c, c), Calls \ Readers)
    /\ UNCHANGED <<threads, shared, value, net, connects, foreigns>>

\* QoS 0: a request may be lost, and so may the answer to one carried out.
Lost(c) ==
    /\ TakesUp(c)
    /\ scans' \in {scans, Set(scans, c, scans[c] + 1)}
    /\ UNCHANGED <<threads, shared, value, net, inbox, connects, foreigns>>

\* Someone else, the Zigbee2MQTT frontend for one, asked without a transaction, or
\* published something useless on the topic; or the device list is published anew.
ForeignMessage ==
    /\ foreigns < MaxForeign
    /\ foreigns' = foreigns + 1
    /\ \/ \E kind \in {"answer", "garbage", "empty"} :
            Broadcast(Message(kind, NoTag, Foreign), Calls \ Readers)
       \/ \E kind \in {"answer", "garbage"} :
            Broadcast(Message(kind, NoTag, Foreign), Readers)
    /\ UNCHANGED <<threads, shared, value, net, requests, scans, connects>>

\* The connection breaks: what was on it is gone, and so is the subscription ...
ConnectionBreaks(c) ==
    /\ net[c] \in {"connecting", "subscribing", "subscribed", "denied"}
    /\ net' = Set(net, c, "down")
    /\ inbox' = Set(inbox, c, <<>>)
    /\ UNCHANGED <<threads, shared, value, requests, scans, connects, foreigns>>

\* ... and paho connects again, for as long as its loop runs.
Reconnects(c) ==
    /\ net[c] = "down"
    /\ pc[c] \in {"waiting", "woken", "payload"}
    /\ connects[c] < MaxConnects
    /\ net' = Set(net, c, "connecting")
    /\ connects' = Set(connects, c, connects[c] + 1)
    /\ \E kind \in {"connack", "refused"} : inbox' = Set(inbox, c, <<Control(kind)>>)
    /\ UNCHANGED <<threads, shared, value, requests, scans, foreigns>>

----------------------------------------------------------------------------

Worker(c) ==
    Wakes(c) \/ TimesOut(c) \/ ReadsError(c) \/ ReadsPayload(c) \/ Stops(c)

Network(c) ==
    OnConnect(c) \/ OnConnectFailed(c) \/ OnSubscribe(c) \/ OnMessage(c) \/ OnUselessMessage(c)

Environment(c) ==
    \/ BrokerSubscribes(c) \/ ConnectionBreaks(c) \/ Reconnects(c)
    \/ Zigbee2MqttAnswers(c) \/ Lost(c)

Next ==
    \/ \E c \in Calls :
         Connects(c) \/ ConnectRaises(c) \/ Worker(c) \/ Network(c) \/ Environment(c)
    \/ ForeignMessage

Spec == Init /\ [][Next]_vars

\* The pool serves its queue and a thread that can run runs.  The broker, the
\* network and Zigbee2MQTT owe nothing.
Fairness ==
    \A c \in Calls : WF_vars(Worker(c)) /\ WF_vars(Connects(c) \/ ConnectRaises(c))

FairSpec == Spec /\ Fairness

----------------------------------------------------------------------------
(* Properties.                                                             *)

\* What a call returns: the dict shared with the network thread, or for a reader
\* the value read from it.
Answer(c) == IF c \in Readers THEN value[c] ELSE response[c]

\* Concurrent calls never take each other's answers, though each is sent all of
\* them (zigbee2mqtt_mqtt.py:238-242).
AnswersDoNotCross ==
    \A c \in Calls : pc[c] = "returned" =>
        /\ Answer(c).tag \in {NoTag, c}
        /\ Answer(c).body \notin Calls \ {c}

\* On a topic nobody else uses, a call returns the answer to its own request,
\* which Zigbee2MQTT did carry out; reconnections, late and lost messages do not
\* change that.
OwnAnswerWhenAlone ==
    foreigns = 0 => \A c \in Calls \ Readers : pc[c] = "returned" =>
        Answer(c) = [tag |-> c, body |-> c] /\ scans[c] > 0

\* One connection publishes a request at most once, and so asks for one scan.
ScansPerConnection == \A c \in Calls : scans[c] + requests[c] <= connects[c]

\* The calls as their handlers see them: a call has ended once the worker thread is
\* through with the finally block.
Phase(c) == IF pc[c] \in {"idle"} \cup Ended THEN pc[c] ELSE "waiting"
Told(c) == IF pc[c] = "returned" THEN Answer(c).body ELSE Nothing
Client == INSTANCE MqttClient WITH
    phase <- [c \in Calls |-> Phase(c)],
    answer <- [c \in Calls |-> Told(c)],
    carried <- {c \in Calls : scans[c] > 0},
    disturbed <- foreigns > 0

\* Threads, callbacks and messages together behave as MqttClient says: among
\* concurrent calls, reconnections, late and lost messages, each call suspends once and
\* ends with an answer of its own that stands (zigbee2mqtt_mqtt.py:143-160, 291-327).
ImplementsClient == Client!Spec

\* Once a call has returned, its answer no longer changes under the caller: the
\* network thread that writes to the same dict has been joined
\* (zigbee2mqtt_mqtt.py:314, 319-323).  The client promises as much.
AnswerIsFinal ==
    [][\A c \in Calls : pc[c] \in Ended => Answer(c)' = Answer(c)]_vars

\* Every call ends, however long the pool is busy and whatever is lost.
EveryCallEnds == \A c \in Calls : <>(pc[c] \in Ended)
=============================================================================
