------------------------ MODULE MqttExchange_proofs ------------------------
(* Theorems about MqttExchange, for any calls, workers, connections and     *)
(* messages of others.                                                      *)
EXTENDS MqttExchange, FiniteSetTheorems, TLAPS

\* What a subscribed client is sent: answers, each to one call or to none here,
\* and useless messages.
Plain ==
    {m \in Messages :
        /\ m.kind \in {"answer", "garbage", "empty"} /\ m.body # Nothing
        /\ m.tag = NoTag => m.body \notin Calls
        /\ m.tag # NoTag => m.kind = "answer" /\ m.body = m.tag}

\* A client is connected, then subscribed, then sent messages, one after the other:
\* a SUBACK comes before every message and never twice on a connection.
Queue(c) ==
    /\ net[c] \in {"off", "down", "subscribing"} => inbox[c] = <<>>
    /\ net[c] = "connecting" => inbox[c] \in {<<Control("connack")>>, <<Control("refused")>>}
    /\ net[c] = "denied" => inbox[c] \in {<<>>, <<Control("suback")>>}
    /\ net[c] = "subscribed" =>
        \/ inbox[c] \in Seq(Plain)
        \/ inbox[c] # <<>> /\ Head(inbox[c]) = Control("suback") /\ Tail(inbox[c]) \in Seq(Plain)

\* A connection that may still publish the call's request.
MayPublish(c) ==
    \/ net[c] \in {"connecting", "subscribing"}
    \/ inbox[c] # <<>> /\ Head(inbox[c]).kind = "suback"

PublishesOnce(c) == scans[c] + requests[c] + (IF MayPublish(c) THEN 1 ELSE 0) <= connects[c]

\* The network thread runs only while the worker does.
Quiet(c) ==
    /\ pc[c] \in {"idle"} \cup Ended => net[c] = "off"
    /\ pc[c] = "idle" => connects[c] = 0

\* No dict holds what answers another call.
Uncrossed(c) ==
    \A r \in {response[c], value[c]} : r.tag \in {NoTag, c} /\ r.body \notin Calls \ {c}

\* While nobody else publishes, every answer under way or taken is one to a request
\* carried out.
Alone(c) ==
    foreigns = 0 /\ c \notin Readers =>
        /\ \A i \in DOMAIN inbox[c] :
                /\ inbox[c][i].kind \notin {"garbage", "empty"}
                /\ inbox[c][i].kind = "answer" =>
                        inbox[c][i].tag \in Calls /\ scans[inbox[c][i].tag] > 0
        /\ response[c] \in {Empty, [tag |-> c, body |-> c]}
        /\ response[c] # Empty => scans[c] > 0

Verdict(c) ==
    /\ pc[c] = "returned" => outcome[c] = "returned"
    /\ outcome[c] = "returned" => response[c] # Empty
    /\ pc[c] \in {"idle", "waiting", "woken", "payload"} => outcome[c] = "none"
    /\ pc[c] = "stopping" => outcome[c] \in Ended

CallInv(c) == Queue(c) /\ PublishesOnce(c) /\ Quiet(c) /\ Uncrossed(c) /\ Alone(c) /\ Verdict(c)
IInv == TypeOK /\ \A c \in Calls : CallInv(c)

(***************************************************************************)
(* Sequences of messages.                                                  *)

\* The controls of a connection are messages.
LEMMA ControlType ==
    \A kind \in {"connack", "refused", "suback"} :
        /\ Control(kind) \in Messages
        /\ Control(kind).kind = kind
BY DEF Control, Message, Messages

\* So is what the broker delivers, for whomever.
LEMMA PlainType ==
    /\ Plain \subseteq Messages
    /\ \A c \in Calls : Message("answer", c, c) \in Plain
    /\ \A kind \in {"answer", "garbage", "empty"} : Message(kind, NoTag, Foreign) \in Plain
    /\ Message("answer", NoTag, Devices) \in Plain
BY ExchangeAssumption DEF ExchangeAssumption, Plain, Message, Messages

\* One message more for a subscribed client, which leaves what comes first.
LEMMA QueueGrows ==
    ASSUME NEW c \in Calls, TypeOK, Queue(c), net[c] = "subscribed", NEW m \in Plain,
           inbox'[c] = Append(inbox[c], m), net'[c] = net[c]
    PROVE  Queue(c)' /\ (inbox'[c] # <<>> /\ Head(inbox'[c]).kind = "suback"
                            <=> inbox[c] # <<>> /\ Head(inbox[c]).kind = "suback")
<1> DEFINE q == inbox[c]
<1>1. q \in Seq(Messages) /\ m \in Messages
  BY PlainType DEF TypeOK
<1>2. inbox'[c] # <<>> /\ (q # <<>> => Head(inbox'[c]) = Head(q) /\ Tail(inbox'[c]) = Append(Tail(q), m))
  BY <1>1
<1>3. CASE q \in Seq(Plain)
  <2>1. inbox'[c] \in Seq(Plain)
    BY <1>3
  <2>2. \A s \in Seq(Plain) : s # <<>> => Head(s).kind # "suback"
    BY DEF Plain
  <2>3. QED
    BY <1>2, <1>3, <2>1, <2>2 DEF Queue
<1>4. CASE q # <<>> /\ Head(q) = Control("suback") /\ Tail(q) \in Seq(Plain)
  <2>1. Tail(inbox'[c]) \in Seq(Plain)
    BY <1>2, <1>4
  <2>2. QED
    BY <1>2, <1>4, <2>1 DEF Queue
<1>5. QED
  BY <1>3, <1>4 DEF Queue

\* What a subscribed client reads was sent to it as such.
LEMMA HeadIsPlain ==
    ASSUME NEW c \in Calls, TypeOK, Queue(c), inbox[c] # <<>>,
           Head(inbox[c]).kind \in {"answer", "garbage", "empty"}
    PROVE  net[c] = "subscribed" /\ Head(inbox[c]) \in Plain /\ Tail(inbox[c]) \in Seq(Plain)
<1>1. net[c] = "subscribed"
  BY ControlType DEF TypeOK, Queue
<1>2. inbox[c] \in Seq(Plain)
  BY <1>1, ControlType DEF Queue
<1>3. QED
  BY <1>1, <1>2

\* What comes first tells how far the connection is.
LEMMA HeadTells ==
    ASSUME NEW c \in Calls, TypeOK, Queue(c), inbox[c] # <<>>
    PROVE  /\ Head(inbox[c]).kind \in {"connack", "refused"} =>
                net[c] = "connecting" /\ Tail(inbox[c]) = <<>>
           /\ Head(inbox[c]).kind = "suback" =>
                /\ net[c] \in {"denied", "subscribed"}
                /\ net[c] = "denied" => Tail(inbox[c]) = <<>>
                /\ net[c] = "subscribed" => Tail(inbox[c]) \in Seq(Plain)
<1>1. \A s \in Seq(Plain) : s # <<>> => Head(s).kind \in {"answer", "garbage", "empty"}
  BY DEF Plain
<1>0. \A x : Head(<<x>>) = x /\ Tail(<<x>>) = <<>>
  OBVIOUS
<1>2. CASE net[c] = "connecting"
  <2>1. PICK kind \in {"connack", "refused"} : inbox[c] = <<Control(kind)>>
    BY <1>2 DEF Queue
  <2>2. Head(inbox[c]).kind = kind /\ Tail(inbox[c]) = <<>>
    BY <1>0, <2>1, ControlType
  <2>3. QED
    BY <1>2, <2>2
<1>3. CASE net[c] = "denied"
  <2>1. inbox[c] = <<Control("suback")>>
    BY <1>3 DEF Queue
  <2>2. Head(inbox[c]).kind = "suback" /\ Tail(inbox[c]) = <<>>
    BY <1>0, <2>1, ControlType
  <2>3. QED
    BY <1>3, <2>2
<1>4. CASE net[c] = "subscribed"
  BY <1>1, <1>4, ControlType DEF Queue
<1>5. QED
  BY <1>2, <1>3, <1>4 DEF Queue, TypeOK

\* None of what a subscribed client is sent is a SUBACK.
LEMMA PlainHasNoSuback == \A s \in Seq(Plain) : s # <<>> => Head(s).kind # "suback"
BY DEF Plain

(***************************************************************************)
(* The steps.                                                              *)

\* A call that a step leaves alone, while requests of others are carried out.
Untouched(c) ==
    /\ pc'[c] = pc[c] /\ outcome'[c] = outcome[c] /\ response'[c] = response[c]
    /\ value'[c] = value[c] /\ net'[c] = net[c] /\ inbox'[c] = inbox[c]
    /\ scans'[c] + requests'[c] <= scans[c] + requests[c] /\ connects'[c] = connects[c]

Monotone == (\A c \in Calls : scans'[c] >= scans[c]) /\ (foreigns' = 0 => foreigns = 0)

LEMMA StaysUntouched ==
    ASSUME TypeOK, TypeOK', Monotone, NEW c \in Calls, CallInv(c), Untouched(c)
    PROVE  CallInv(c)'
<1>1. Queue(c)' /\ Quiet(c)' /\ Uncrossed(c)' /\ Verdict(c)'
  BY DEF CallInv, Untouched, Queue, Quiet, Uncrossed, Verdict
<1>2. PublishesOnce(c)'
  BY DEF CallInv, Untouched, PublishesOnce, MayPublish, TypeOK
<1>3. Alone(c)'
  <2> SUFFICES ASSUME foreigns' = 0, c \notin Readers PROVE Alone(c)'
    BY DEF Alone
  <2>1. \A d \in Calls : scans[d] > 0 => scans'[d] > 0
    BY DEF Monotone, TypeOK
  <2>2. foreigns = 0 /\ inbox'[c] = inbox[c] /\ response'[c] = response[c]
    BY DEF Monotone, Untouched
  <2>3. QED
    BY <2>1, <2>2 DEF CallInv, Alone, Empty
<1>4. QED
  BY <1>1, <1>2, <1>3 DEF CallInv

\* Steps of one call that are not deliveries to all.
Own(c) ==
    \/ Connects(c) \/ ConnectRaises(c) \/ Worker(c) \/ Network(c)
    \/ BrokerSubscribes(c) \/ ConnectionBreaks(c) \/ Reconnects(c) \/ Lost(c)

\* The types are kept: connections are counted from none, an inbox holds messages.
LEMMA StepTyped ==
    ASSUME IInv, [Next]_vars
    PROVE  TypeOK'
<1> USE DEF TypeOK, Set, threads, shared, Ended
<1> TypeOK
  BY DEF IInv
<1>1. ASSUME NEW c \in Calls, Connects(c) PROVE TypeOK'
  <2>1. connects[c] = 0 /\ connects[c] + 1 \in 0 .. MaxConnects
    BY <1>1, ExchangeAssumption DEF IInv, CallInv, Quiet, Connects, ExchangeAssumption
  <2>2. QED
    BY <1>1, <2>1, ControlType DEF Connects
<1>2. ASSUME NEW c \in Calls, ConnectRaises(c) PROVE TypeOK'
  BY <1>2 DEF ConnectRaises
<1>3. ASSUME NEW c \in Calls, Worker(c) PROVE TypeOK'
  <2>1. CASE Wakes(c)
    BY <2>1 DEF Wakes
  <2>2. CASE TimesOut(c)
    BY <2>2 DEF TimesOut, Decides
  <2>3. CASE ReadsError(c)
    <3>1. CASE error[c]
      <4>1. Decides(c, "raised")
        BY Zenon, <2>3, <3>1 DEF ReadsError
      <4>2. QED
        BY <2>3, <4>1 DEF ReadsError, Decides
    <3>2. CASE ~error[c]
      BY <2>3, <3>2 DEF ReadsError
    <3>3. QED
      BY <3>1, <3>2
  <2>4. CASE ReadsPayload(c)
    BY <2>4 DEF ReadsPayload, Decides
  <2>5. CASE Stops(c)
    <3>1. outcome[c] \in Ended
      BY <2>5 DEF Stops, IInv, CallInv, Verdict
    <3>2. QED
      BY <2>5, <3>1 DEF Stops
  <2>6. QED
    BY <1>3, <2>1, <2>2, <2>3, <2>4, <2>5 DEF Worker
<1>4. ASSUME NEW c \in Calls, Network(c) PROVE TypeOK'
  <2>1. CASE OnConnect(c)
    BY <2>1 DEF OnConnect, Receives
  <2>2. CASE OnConnectFailed(c)
    BY <2>2 DEF OnConnectFailed, Receives
  <2>3. CASE OnSubscribe(c)
    BY <2>3 DEF OnSubscribe, Receives
  <2>4. CASE OnMessage(c)
    <3>1. Head(inbox[c]) \in Messages
      BY <2>4 DEF OnMessage, Receives
    <3>2. Updated(response[c], Head(inbox[c])) \in Responses
      BY <3>1 DEF Updated, Messages, Responses
    <3>3. response' \in [Calls -> Responses] /\ event' \in [Calls -> BOOLEAN]
      <4>1. CASE response' = response /\ event' = event
        BY <4>1
      <4>2. CASE /\ response' = Set(response, c, Updated(response[c], Head(inbox[c])))
                 /\ event' = Set(event, c, TRUE)
        BY <3>2, <4>2
      <4>3. QED
        BY <2>4, <4>1, <4>2 DEF OnMessage
    <3>4. inbox' \in [Calls -> Seq(Messages)]
      BY <2>4 DEF OnMessage, Receives
    <3>5. QED
      BY <2>4, <3>3, <3>4 DEF OnMessage
  <2>5. CASE OnUselessMessage(c)
    BY <2>5 DEF OnUselessMessage, Receives
  <2>6. QED
    BY <1>4, <2>1, <2>2, <2>3, <2>4, <2>5 DEF Network
<1>5. ASSUME NEW c \in Calls, Environment(c) PROVE TypeOK'
  <2>1. CASE BrokerSubscribes(c)
    <3>1. <<Control("suback"), Message("answer", NoTag, Devices)>> \in Seq(Messages)
      BY ControlType, PlainType
    <3>2. <<Control("suback")>> \in Seq(Messages)
      BY ControlType
    <3>3. QED
      BY <2>1, <3>1, <3>2 DEF BrokerSubscribes
  <2>2. CASE ConnectionBreaks(c)
    BY <2>2 DEF ConnectionBreaks
  <2>3. CASE Reconnects(c)
    BY <2>3, ControlType, ExchangeAssumption DEF Reconnects, ExchangeAssumption
  <2>4. CASE Zigbee2MqttAnswers(c)
    BY <2>4, PlainType DEF Zigbee2MqttAnswers, TakesUp, Broadcast
  <2>5. CASE Lost(c)
    <3>1. requests' \in [Calls -> Nat]
      BY <2>5 DEF Lost, TakesUp
    <3>2. scans' \in [Calls -> Nat]
      <4>1. CASE scans' = scans
        BY <4>1
      <4>2. CASE scans' = Set(scans, c, scans[c] + 1)
        BY <4>2
      <4>3. QED
        BY <2>5, <4>1, <4>2 DEF Lost
    <3>3. QED
      BY <2>5, <3>1, <3>2 DEF Lost
  <2>6. QED
    BY <1>5, <2>1, <2>2, <2>3, <2>4, <2>5 DEF Environment
<1>6. CASE ForeignMessage
  <2>1. foreigns' \in 0 .. MaxForeign
    BY <1>6, ExchangeAssumption DEF ForeignMessage, ExchangeAssumption
  <2>2. inbox' \in [Calls -> Seq(Messages)]
    <3>1. PICK m \in Messages, to \in SUBSET Calls : Broadcast(m, to)
      BY <1>6, PlainType, ExchangeAssumption DEF ForeignMessage, ExchangeAssumption
    <3>2. QED
      BY <3>1 DEF Broadcast
  <2>3. QED
    BY <1>6, <2>1, <2>2 DEF ForeignMessage
<1>7. CASE UNCHANGED vars
  BY <1>7 DEF vars
<1>8. QED
  BY <1>1, <1>2, <1>3, <1>4, <1>5, <1>6, <1>7 DEF Next

\* A step of one call leaves the others alone.
LEMMA OthersUntouched ==
    ASSUME TypeOK, NEW c \in Calls, Own(c)
    PROVE  Monotone /\ \A d \in Calls \ {c} : Untouched(d)
<1> USE DEF TypeOK, Set, threads, shared, Untouched, Monotone
<1>1. CASE Connects(c)
  BY <1>1 DEF Connects, Decides
<1>2. CASE ConnectRaises(c)
  BY <1>2 DEF ConnectRaises
<1>3. CASE Wakes(c)
  BY <1>3 DEF Wakes
<1>4. CASE TimesOut(c)
  BY <1>4 DEF TimesOut, Decides
<1>5. CASE ReadsError(c)
  BY <1>5 DEF ReadsError, Decides
<1>6. CASE ReadsPayload(c)
  BY <1>6 DEF ReadsPayload, Decides
<1>7. CASE Stops(c)
  BY <1>7 DEF Stops
<1>8. CASE OnConnect(c)
  BY <1>8 DEF OnConnect, Receives
<1>9. CASE OnConnectFailed(c)
  BY <1>9 DEF OnConnectFailed, Receives
<1>10. CASE OnSubscribe(c)
  BY <1>10 DEF OnSubscribe, Receives
<1>11. CASE OnMessage(c)
  BY <1>11 DEF OnMessage, Receives
<1>12. CASE OnUselessMessage(c)
  BY <1>12 DEF OnUselessMessage, Receives
<1>13. CASE BrokerSubscribes(c)
  BY <1>13 DEF BrokerSubscribes
<1>14. CASE ConnectionBreaks(c)
  BY <1>14 DEF ConnectionBreaks
<1>15. CASE Reconnects(c)
  BY <1>15 DEF Reconnects
<1>16. CASE Lost(c)
  <2>1. \A d \in Calls : scans'[d] >= scans[d] /\ (d # c => scans'[d] = scans[d])
    BY <1>16 DEF Lost
  <2>2. QED
    BY <1>16, <2>1 DEF Lost, TakesUp
<1>17. QED
  BY <1>1, <1>2, <1>3, <1>4, <1>5, <1>6, <1>7, <1>8, <1>9, <1>10, <1>11, <1>12, <1>13, <1>14, <1>15, <1>16 DEF Own, Worker, Network

\* A step of a call keeps its invariant.
LEMMA OwnKept ==
    ASSUME IInv, TypeOK', NEW c \in Calls, Own(c)
    PROVE  CallInv(c)'
<1> USE DEF TypeOK, Set, threads, shared, Ended
<1> TypeOK /\ CallInv(c)
  BY DEF IInv
<1> USE DEF CallInv
<1>1. CASE Connects(c)
  <2>1. Queue(c)'
    BY <1>1, ControlType DEF Connects, Queue
  <2>2. PublishesOnce(c)'
    BY <1>1, ControlType DEF Connects, PublishesOnce, MayPublish, Queue
  <2>3. Quiet(c)'
    BY <1>1 DEF Connects, Quiet
  <2>4. Uncrossed(c)'
    BY <1>1 DEF Connects, Uncrossed
  <2>5. Alone(c)'
    BY <1>1, ControlType DEF Connects, Alone, Empty
  <2>6. Verdict(c)'
    BY <1>1 DEF Connects, Verdict
  <2>7. QED
    BY <2>1, <2>2, <2>3, <2>4, <2>5, <2>6
<1>2. CASE ConnectRaises(c)
  <2>1. Queue(c)'
    BY <1>2 DEF ConnectRaises, Queue
  <2>2. PublishesOnce(c)'
    BY <1>2 DEF ConnectRaises, PublishesOnce, MayPublish, Queue
  <2>3. Quiet(c)'
    BY <1>2 DEF ConnectRaises, Quiet
  <2>4. Uncrossed(c)'
    BY <1>2 DEF ConnectRaises, Uncrossed
  <2>5. Alone(c)'
    BY <1>2 DEF ConnectRaises, Alone, Empty
  <2>6. Verdict(c)'
    BY <1>2 DEF ConnectRaises, Verdict
  <2>7. QED
    BY <2>1, <2>2, <2>3, <2>4, <2>5, <2>6
<1>3. CASE Wakes(c)
  <2>1. Queue(c)'
    BY <1>3 DEF Wakes, Queue
  <2>2. PublishesOnce(c)'
    BY <1>3 DEF Wakes, PublishesOnce, MayPublish, Queue
  <2>3. Quiet(c)'
    BY <1>3 DEF Wakes, Quiet
  <2>4. Uncrossed(c)'
    BY <1>3 DEF Wakes, Uncrossed
  <2>5. Alone(c)'
    BY <1>3 DEF Wakes, Alone, Empty
  <2>6. Verdict(c)'
    BY <1>3 DEF Wakes, Verdict
  <2>7. QED
    BY <2>1, <2>2, <2>3, <2>4, <2>5, <2>6
<1>4. CASE TimesOut(c)
  <2>1. Queue(c)'
    BY <1>4 DEF TimesOut, Queue
  <2>2. PublishesOnce(c)'
    BY <1>4 DEF TimesOut, PublishesOnce, MayPublish, Queue
  <2>3. Quiet(c)'
    BY <1>4 DEF TimesOut, Decides, Quiet
  <2>4. Uncrossed(c)'
    BY <1>4 DEF TimesOut, Uncrossed
  <2>5. Alone(c)'
    BY <1>4 DEF TimesOut, Alone, Empty
  <2>6. Verdict(c)'
    BY <1>4 DEF TimesOut, Decides, Verdict
  <2>7. QED
    BY <2>1, <2>2, <2>3, <2>4, <2>5, <2>6
<1>5. CASE ReadsError(c)
  <2>1. Queue(c)'
    BY <1>5 DEF ReadsError, Queue
  <2>2. PublishesOnce(c)'
    BY <1>5 DEF ReadsError, PublishesOnce, MayPublish, Queue
  <2>3. Quiet(c)'
    BY <1>5 DEF ReadsError, Decides, Quiet
  <2>4. Uncrossed(c)'
    BY <1>5 DEF ReadsError, Uncrossed
  <2>5. Alone(c)'
    BY <1>5 DEF ReadsError, Alone, Empty
  <2>6. Verdict(c)'
    BY <1>5 DEF ReadsError, Decides, Verdict
  <2>7. QED
    BY <2>1, <2>2, <2>3, <2>4, <2>5, <2>6
<1>6. CASE ReadsPayload(c)
  <2>1. Queue(c)'
    BY <1>6 DEF ReadsPayload, Queue
  <2>2. PublishesOnce(c)'
    BY <1>6 DEF ReadsPayload, PublishesOnce, MayPublish, Queue
  <2>3. Quiet(c)'
    BY <1>6 DEF ReadsPayload, Decides, Quiet
  <2>4. Uncrossed(c)'
    BY <1>6 DEF ReadsPayload, Uncrossed
  <2>5. Alone(c)'
    BY <1>6 DEF ReadsPayload, Alone, Empty
  <2>6. Verdict(c)'
    BY <1>6 DEF ReadsPayload, Decides, Verdict
  <2>7. QED
    BY <2>1, <2>2, <2>3, <2>4, <2>5, <2>6
<1>7. CASE Stops(c)
  <2>1. Queue(c)'
    BY <1>7 DEF Stops, Queue
  <2>2. PublishesOnce(c)'
    BY <1>7 DEF Stops, PublishesOnce, MayPublish, Queue
  <2>3. Quiet(c)'
    BY <1>7 DEF Stops, Quiet
  <2>4. Uncrossed(c)'
    BY <1>7 DEF Stops, Uncrossed
  <2>5. Alone(c)'
    BY <1>7 DEF Stops, Alone, Empty
  <2>6. Verdict(c)'
    BY <1>7 DEF Stops, Verdict
  <2>7. QED
    BY <2>1, <2>2, <2>3, <2>4, <2>5, <2>6
<1>8. CASE OnConnect(c)
  <2>0. net[c] = "connecting" /\ inbox'[c] = <<>>
    BY <1>8, HeadTells DEF OnConnect, Receives
  <2>1. Queue(c)'
    BY <1>8, <2>0 DEF OnConnect, Queue
  <2>2. PublishesOnce(c)'
    BY <1>8, <2>0 DEF OnConnect, PublishesOnce, MayPublish
  <2>3. Quiet(c)'
    BY <1>8, <2>0 DEF OnConnect, Quiet
  <2>4. Uncrossed(c)'
    BY <1>8 DEF OnConnect, Uncrossed
  <2>5. Alone(c)'
    BY <1>8, <2>0 DEF OnConnect, Alone, Empty
  <2>6. Verdict(c)'
    BY <1>8 DEF OnConnect, Verdict
  <2>7. QED
    BY <2>1, <2>2, <2>3, <2>4, <2>5, <2>6
<1>9. CASE OnConnectFailed(c)
  <2>0. net[c] = "connecting" /\ inbox'[c] = <<>>
    BY <1>9, HeadTells DEF OnConnectFailed, Receives
  <2>1. Queue(c)'
    BY <1>9, <2>0 DEF OnConnectFailed, Queue
  <2>2. PublishesOnce(c)'
    BY <1>9, <2>0 DEF OnConnectFailed, PublishesOnce, MayPublish
  <2>3. Quiet(c)'
    BY <1>9, <2>0 DEF OnConnectFailed, Quiet
  <2>4. Uncrossed(c)'
    BY <1>9 DEF OnConnectFailed, Uncrossed
  <2>5. Alone(c)'
    BY <1>9, <2>0 DEF OnConnectFailed, Alone, Empty
  <2>6. Verdict(c)'
    BY <1>9 DEF OnConnectFailed, Verdict
  <2>7. QED
    BY <2>1, <2>2, <2>3, <2>4, <2>5, <2>6
<1>10. CASE OnSubscribe(c)
  <2>1. Queue(c)'
    BY <1>10, ControlType DEF OnSubscribe, Receives, Queue
  <2>2. PublishesOnce(c)'
    <3>1. MayPublish(c) /\ ~MayPublish(c)'
      BY <1>10, HeadTells, PlainHasNoSuback DEF OnSubscribe, Receives, MayPublish
    <3>2. requests'[c] <= requests[c] + 1
      BY <1>10 DEF OnSubscribe
    <3>3. QED
      BY <1>10, <3>1, <3>2 DEF OnSubscribe, PublishesOnce
  <2>3. Quiet(c)'
    BY <1>10 DEF OnSubscribe, Receives, Quiet
  <2>4. Uncrossed(c)'
    BY <1>10 DEF OnSubscribe, Receives, Uncrossed
  <2>5. Alone(c)'
    BY <1>10, ControlType DEF OnSubscribe, Receives, Alone, Empty
  <2>6. Verdict(c)'
    BY <1>10 DEF OnSubscribe, Receives, Verdict
  <2>7. QED
    BY <2>1, <2>2, <2>3, <2>4, <2>5, <2>6
<1>11. CASE OnMessage(c)
  <2> DEFINE m == Head(inbox[c])
  <2>0. /\ inbox[c] # <<>> /\ inbox'[c] = Tail(inbox[c]) /\ net[c] = "subscribed"
        /\ m \in Plain /\ Tail(inbox[c]) \in Seq(Plain)
    BY <1>11, HeadIsPlain DEF OnMessage, Receives
  <2>1. Queue(c)'
    BY <1>11, <2>0 DEF OnMessage, Queue
  <2>2. PublishesOnce(c)'
    <3>1. ~MayPublish(c)'
      BY <1>11, <2>0, PlainHasNoSuback DEF OnMessage, MayPublish
    <3>2. QED
      BY <1>11, <3>1 DEF OnMessage, PublishesOnce
  <2>3. Quiet(c)'
    BY <1>11 DEF OnMessage, Receives, Quiet
  <2>4. Uncrossed(c)'
    <3>1. CASE response'[c] = response[c]
      BY <1>11, <3>1 DEF OnMessage, Uncrossed
    <3>2. CASE Accepts(c, m) /\ response'[c] = Updated(response[c], m)
      <4>1. response'[c].tag \in {NoTag, c} /\ response'[c].body \notin Calls \ {c}
        <5>1. response[c].tag \in {NoTag, c}
          BY DEF Uncrossed
        <5>2. CASE m.tag = NoTag
          BY <2>0, <3>2, <5>1, <5>2 DEF Updated, Plain
        <5>3. CASE m.tag # NoTag /\ m.tag = c
          BY <2>0, <3>2, <5>3 DEF Updated, Plain
        <5>4. QED
          BY <3>2, <5>2, <5>3 DEF Accepts
      <4>2. QED
        BY <1>11, <4>1 DEF OnMessage, Uncrossed
    <3>3. QED
      BY <1>11, <3>1, <3>2 DEF OnMessage
  <2>5. Alone(c)'
    <3> SUFFICES ASSUME foreigns' = 0, c \notin Readers PROVE Alone(c)'
      BY DEF Alone
    <3>1. foreigns = 0 /\ scans' = scans
      BY <1>11 DEF OnMessage
    <3>2. \A i \in DOMAIN inbox'[c] : inbox'[c][i] = inbox[c][i + 1] /\ i + 1 \in DOMAIN inbox[c]
      BY <2>0
    <3>3. m.tag \in Calls /\ scans[m.tag] > 0
      BY <1>11, <2>0, <3>1 DEF OnMessage, Receives, Alone
    <3>4. CASE response'[c] = response[c]
      BY <3>1, <3>2, <3>4 DEF Alone, Empty
    <3>5. CASE Accepts(c, m) /\ response'[c] = Updated(response[c], m)
      <4>1. m.tag = c /\ m.body = c
        BY <2>0, <3>3, <3>5, ExchangeAssumption DEF Accepts, Plain, ExchangeAssumption
      <4>2. response'[c] = [tag |-> c, body |-> c] /\ scans[c] > 0
        BY <3>3, <3>5, <4>1, ExchangeAssumption DEF Updated, ExchangeAssumption
      <4>3. QED
        BY <3>1, <3>2, <4>2 DEF Alone
    <3>6. QED
      BY <1>11, <3>4, <3>5 DEF OnMessage
  <2>6. Verdict(c)'
    <3>1. response[c] # Empty => response'[c] # Empty
      BY <1>11, <2>0 DEF OnMessage, Updated, Plain, Empty
    <3>2. QED
      BY <1>11, <3>1 DEF OnMessage, Verdict
  <2>7. QED
    BY <2>1, <2>2, <2>3, <2>4, <2>5, <2>6
<1>12. CASE OnUselessMessage(c)
  <2> DEFINE m == Head(inbox[c])
  <2>0. /\ inbox[c] # <<>> /\ inbox'[c] = Tail(inbox[c]) /\ net[c] = "subscribed"
        /\ m \in Plain /\ Tail(inbox[c]) \in Seq(Plain)
    BY <1>12, HeadIsPlain DEF OnUselessMessage, Receives
  <2>1. Queue(c)'
    BY <1>12, <2>0 DEF OnUselessMessage, Queue
  <2>2. PublishesOnce(c)'
    <3>1. ~MayPublish(c)'
      BY <1>12, <2>0, PlainHasNoSuback DEF OnUselessMessage, MayPublish
    <3>2. QED
      BY <1>12, <3>1 DEF OnUselessMessage, PublishesOnce
  <2>3. Quiet(c)'
    BY <1>12 DEF OnUselessMessage, Receives, Quiet
  <2>4. Uncrossed(c)'
    BY <1>12 DEF OnUselessMessage, Receives, Uncrossed
  <2>5. Alone(c)'
    BY <1>12 DEF OnUselessMessage, Receives, Alone, Empty
  <2>6. Verdict(c)'
    BY <1>12 DEF OnUselessMessage, Receives, Verdict
  <2>7. QED
    BY <2>1, <2>2, <2>3, <2>4, <2>5, <2>6
<1>13. CASE BrokerSubscribes(c)
  <2>1. Queue(c)'
    <3>1. inbox[c] = <<>>
      BY <1>13 DEF BrokerSubscribes, Queue
    <3>2. \/ inbox'[c] = <<Control("suback")>>
          \/ net'[c] = "subscribed" /\ inbox'[c] = <<Control("suback"), Message("answer", NoTag, Devices)>>
      BY <1>13, <3>1 DEF BrokerSubscribes
    <3>3. <<Message("answer", NoTag, Devices)>> \in Seq(Plain) /\ <<>> \in Seq(Plain)
      BY PlainType
    <3>4. net'[c] \in {"subscribed", "denied"}
      BY <1>13 DEF BrokerSubscribes
    <3>5. \A x, y : /\ <<x, y>> # <<>> /\ Head(<<x, y>>) = x /\ Tail(<<x, y>>) = <<y>>
                    /\ <<x>> # <<>> /\ Head(<<x>>) = x /\ Tail(<<x>>) = <<>>
      OBVIOUS
    <3>6. CASE inbox'[c] = <<Control("suback")>>
      <4>1. inbox'[c] # <<>> /\ Head(inbox'[c]) = Control("suback") /\ Tail(inbox'[c]) \in Seq(Plain)
        BY <3>3, <3>5, <3>6
      <4>2. QED
        BY <3>4, <3>6, <4>1 DEF Queue
    <3>7. CASE net'[c] = "subscribed" /\ inbox'[c] = <<Control("suback"), Message("answer", NoTag, Devices)>>
      <4>1. inbox'[c] # <<>> /\ Head(inbox'[c]) = Control("suback") /\ Tail(inbox'[c]) \in Seq(Plain)
        BY <3>3, <3>5, <3>7
      <4>2. QED
        BY <3>7, <4>1 DEF Queue
    <3>8. QED
      BY <3>2, <3>6, <3>7
  <2>2. PublishesOnce(c)'
    BY <1>13, ControlType DEF BrokerSubscribes, PublishesOnce, MayPublish, Queue
  <2>3. Quiet(c)'
    BY <1>13 DEF BrokerSubscribes, Quiet
  <2>4. Uncrossed(c)'
    BY <1>13 DEF BrokerSubscribes, Uncrossed
  <2>5. Alone(c)'
    BY <1>13, ControlType DEF BrokerSubscribes, Alone, Empty
  <2>6. Verdict(c)'
    BY <1>13 DEF BrokerSubscribes, Verdict
  <2>7. QED
    BY <2>1, <2>2, <2>3, <2>4, <2>5, <2>6
<1>14. CASE ConnectionBreaks(c)
  <2>1. Queue(c)'
    BY <1>14 DEF ConnectionBreaks, Queue
  <2>2. PublishesOnce(c)'
    BY <1>14 DEF ConnectionBreaks, PublishesOnce, MayPublish, Queue
  <2>3. Quiet(c)'
    BY <1>14 DEF ConnectionBreaks, Quiet
  <2>4. Uncrossed(c)'
    BY <1>14 DEF ConnectionBreaks, Uncrossed
  <2>5. Alone(c)'
    BY <1>14 DEF ConnectionBreaks, Alone, Empty
  <2>6. Verdict(c)'
    BY <1>14 DEF ConnectionBreaks, Verdict
  <2>7. QED
    BY <2>1, <2>2, <2>3, <2>4, <2>5, <2>6
<1>15. CASE Reconnects(c)
  <2>1. Queue(c)'
    BY <1>15, ControlType DEF Reconnects, Queue
  <2>2. PublishesOnce(c)'
    BY <1>15, ControlType DEF Reconnects, PublishesOnce, MayPublish, Queue
  <2>3. Quiet(c)'
    BY <1>15 DEF Reconnects, Quiet
  <2>4. Uncrossed(c)'
    BY <1>15 DEF Reconnects, Uncrossed
  <2>5. Alone(c)'
    BY <1>15, ControlType DEF Reconnects, Alone, Empty
  <2>6. Verdict(c)'
    BY <1>15 DEF Reconnects, Verdict
  <2>7. QED
    BY <2>1, <2>2, <2>3, <2>4, <2>5, <2>6
<1>16. CASE Lost(c)
  <2>1. Queue(c)'
    BY <1>16 DEF Lost, TakesUp, Queue
  <2>2. PublishesOnce(c)'
    BY <1>16 DEF Lost, TakesUp, PublishesOnce, MayPublish, Queue
  <2>3. Quiet(c)'
    BY <1>16 DEF Lost, TakesUp, Quiet
  <2>4. Uncrossed(c)'
    BY <1>16 DEF Lost, TakesUp, Uncrossed
  <2>5. Alone(c)'
    <3>1. \A d \in Calls : scans[d] > 0 => scans'[d] > 0
      <4>1. CASE scans' = scans
        BY <4>1
      <4>2. CASE scans' = Set(scans, c, scans[c] + 1)
        BY <4>2
      <4>3. QED
        BY <1>16, <4>1, <4>2 DEF Lost
    <3>2. inbox'[c] = inbox[c] /\ response'[c] = response[c] /\ foreigns' = foreigns
      BY <1>16 DEF Lost
    <3>3. QED
      BY <3>1, <3>2 DEF Alone, Empty
  <2>6. Verdict(c)'
    BY <1>16 DEF Lost, TakesUp, Verdict
  <2>7. QED
    BY <2>1, <2>2, <2>3, <2>4, <2>5, <2>6
<1>17. QED
  BY <1>1, <1>2, <1>3, <1>4, <1>5, <1>6, <1>7, <1>8, <1>9, <1>10, <1>11, <1>12, <1>13, <1>14, <1>15, <1>16 DEF Own, Worker, Network

\* What is broadcast reaches the subscribed clients among those it is for; an answer
\* counts only requests carried out, and others' messages are counted.
Delivers(m, to) ==
    /\ m \in Plain /\ to \subseteq Calls /\ Broadcast(m, to)
    /\ pc' = pc /\ outcome' = outcome /\ response' = response /\ value' = value
    /\ net' = net /\ connects' = connects
    /\ \A c \in Calls : scans'[c] + requests'[c] <= scans[c] + requests[c]
    /\ Monotone
    /\ foreigns' = 0 => m.kind = "answer" /\ m.tag \in Calls /\ scans'[m.tag] > 0

LEMMA DeliveryKept ==
    ASSUME IInv, TypeOK', NEW m, NEW to, Delivers(m, to), NEW c \in Calls
    PROVE  CallInv(c)'
<1> TypeOK /\ CallInv(c) /\ Monotone
  BY DEF IInv, Delivers
<1>1. CASE inbox'[c] = inbox[c]
  BY <1>1, StaysUntouched DEF Delivers, Untouched
<1>2. CASE net[c] = "subscribed" /\ inbox'[c] = Append(inbox[c], m)
  <2>1. /\ Queue(c)'
        /\ inbox'[c] # <<>> /\ Head(inbox'[c]).kind = "suback" <=> inbox[c] # <<>> /\ Head(inbox[c]).kind = "suback"
    BY <1>2, QueueGrows DEF CallInv, Delivers
  <2>2. PublishesOnce(c)'
    BY <2>1 DEF CallInv, PublishesOnce, MayPublish, Delivers, TypeOK
  <2>3. Quiet(c)' /\ Uncrossed(c)' /\ Verdict(c)'
    BY DEF CallInv, Quiet, Uncrossed, Verdict, Delivers
  <2>4. Alone(c)'
    <3> SUFFICES ASSUME foreigns' = 0, c \notin Readers PROVE Alone(c)'
      BY DEF Alone
    <3>1. foreigns = 0 /\ \A d \in Calls : scans[d] > 0 => scans'[d] > 0
      BY DEF Monotone, TypeOK
    <3>2. m.kind = "answer" /\ m.tag \in Calls /\ scans'[m.tag] > 0
      BY DEF Delivers
    <3>3. \A i \in DOMAIN inbox'[c] : inbox'[c][i] = m \/ (i \in DOMAIN inbox[c] /\ inbox'[c][i] = inbox[c][i])
      <4>1. inbox[c] \in Seq(Messages) /\ m \in Messages
        BY PlainType DEF TypeOK, Delivers
      <4>2. QED
        BY <1>2, <4>1
    <3>4. QED
      BY <3>1, <3>2, <3>3 DEF CallInv, Alone, Empty, Delivers
  <2>5. QED
    BY <2>1, <2>2, <2>3, <2>4 DEF CallInv
<1>3. QED
  BY <1>1, <1>2 DEF Delivers, Broadcast, TypeOK

\* Zigbee2MQTT's answers and what others publish are such deliveries.
LEMMA AnswersDeliver ==
    ASSUME TypeOK, NEW c \in Calls, Zigbee2MqttAnswers(c)
    PROVE  \E m, to : Delivers(m, to)
<1> USE DEF TypeOK, Set, threads, shared
<1> DEFINE m == Message("answer", c, c)
<1>1. m \in Plain /\ Calls \ Readers \subseteq Calls
  BY PlainType
<1>2. m.kind = "answer" /\ m.tag = c
  BY DEF Message
<1>3. scans'[c] > 0 /\ Monotone /\ \A d \in Calls : scans'[d] + requests'[d] <= scans[d] + requests[d]
  BY DEF Zigbee2MqttAnswers, TakesUp, Monotone
<1>4. Delivers(m, Calls \ Readers)
  BY <1>1, <1>2, <1>3 DEF Zigbee2MqttAnswers, Delivers
<1>5. QED
  BY <1>4

LEMMA ForeignDelivers ==
    ASSUME TypeOK, ForeignMessage
    PROVE  \E m, to : Delivers(m, to)
<1> USE DEF TypeOK, threads, shared
<1>1. PICK m \in Plain, to \in SUBSET Calls : Broadcast(m, to)
  BY PlainType, ExchangeAssumption DEF ForeignMessage, ExchangeAssumption
<1>2. foreigns' # 0 /\ Monotone
  BY ExchangeAssumption DEF ForeignMessage, Monotone, ExchangeAssumption
<1>3. Delivers(m, to)
  BY <1>1, <1>2 DEF ForeignMessage, Delivers
<1>4. QED
  BY <1>3

(***************************************************************************)
(* The theorems.                                                           *)

\* In every state, whatever threads, broker and network did: queues come in order, no
\* connection publishes twice, and no dict holds another call's answer.
THEOREM Invariance == Spec => []IInv
<1>1. Init => IInv
  <2> SUFFICES ASSUME Init PROVE IInv
    OBVIOUS
  <2>1. TypeOK
    BY ExchangeAssumption DEF Init, TypeOK, Responses, Empty, ExchangeAssumption, Ended
  <2>2. ASSUME NEW c \in Calls PROVE CallInv(c)
    <3>1. Queue(c) /\ Quiet(c) /\ Verdict(c) /\ PublishesOnce(c)
      BY DEF Init, Queue, Quiet, Verdict, PublishesOnce, MayPublish, Ended
    <3>2. Uncrossed(c) /\ Alone(c)
      BY ExchangeAssumption DEF Init, Uncrossed, Alone, Empty, ExchangeAssumption
    <3>3. QED
      BY <3>1, <3>2 DEF CallInv
  <2>3. QED
    BY <2>1, <2>2 DEF IInv
<1>2. IInv /\ [Next]_vars => IInv'
  <2> SUFFICES ASSUME IInv, [Next]_vars PROVE IInv'
    OBVIOUS
  <2>1. TypeOK /\ TypeOK'
    BY StepTyped DEF IInv
  <2>2. ASSUME NEW c \in Calls, Own(c), NEW d \in Calls PROVE CallInv(d)'
    <3>1. CASE d = c
      BY <2>1, <2>2, <3>1, OwnKept
    <3>2. CASE d # c
      BY <2>1, <2>2, <3>2, OthersUntouched, StaysUntouched DEF IInv
    <3>3. QED
      BY <3>1, <3>2
  <2>3. ASSUME NEW c \in Calls, Zigbee2MqttAnswers(c), NEW d \in Calls PROVE CallInv(d)'
    BY <2>1, <2>3, AnswersDeliver, DeliveryKept
  <2>4. ASSUME ForeignMessage, NEW d \in Calls PROVE CallInv(d)'
    BY <2>1, <2>4, ForeignDelivers, DeliveryKept
  <2>5. ASSUME UNCHANGED vars, NEW d \in Calls PROVE CallInv(d)'
    BY <2>1, <2>5, StaysUntouched DEF vars, Untouched, Monotone, IInv, TypeOK
  <2>6. QED
    BY <2>1, <2>2, <2>3, <2>4, <2>5 DEF IInv, Next, Own, Environment
<1>3. QED
  BY <1>1, <1>2, PTL DEF Spec

\* Threads, connections and messages keep their types, however often clients connect.
THEOREM TypeCorrect == Spec => []TypeOK
BY Invariance, PTL DEF IInv

\* For any number of concurrent calls and foreign messages: no call returns the answer
\* to another's request (zigbee2mqtt_mqtt.py:238-242).
THEOREM AnswersStayApart == Spec => []AnswersDoNotCross
<1>1. IInv => AnswersDoNotCross
  BY DEF IInv, CallInv, Uncrossed, AnswersDoNotCross, Answer
<1>2. QED
  BY <1>1, Invariance, PTL

\* For any number of reconnections: a call asks for at most one scan on each
\* (zigbee2mqtt_mqtt.py:224-225).
THEOREM ScansAreBounded == Spec => []ScansPerConnection
<1>1. IInv => ScansPerConnection
  <2> SUFFICES ASSUME IInv, NEW c \in Calls PROVE scans[c] + requests[c] <= connects[c]
    BY DEF ScansPerConnection
  <2>1. scans[c] \in Nat /\ requests[c] \in Nat /\ connects[c] \in Nat
    BY ExchangeAssumption DEF IInv, TypeOK, ExchangeAssumption
  <2>2. QED
    BY <2>1 DEF IInv, CallInv, PublishesOnce
<1>2. QED
  BY <1>1, Invariance, PTL

\* With the topic to themselves, any number of calls return their own answers, to
\* requests that were carried out (zigbee2mqtt_mqtt.py:306-318).
THEOREM OwnAnswers == Spec => []OwnAnswerWhenAlone
<1>1. IInv => OwnAnswerWhenAlone
  BY DEF IInv, CallInv, Alone, Verdict, OwnAnswerWhenAlone, Answer
<1>2. QED
  BY <1>1, Invariance, PTL

\* The joined network thread never writes to what a call has returned
\* (zigbee2mqtt_mqtt.py:319-323).
THEOREM AnswersAreFinal == Spec => AnswerIsFinal
<1> USE DEF TypeOK, Set, threads, shared, Ended
<1>1. ASSUME IInv, [Next]_vars, NEW d \in Calls, pc[d] \in Ended PROVE Answer(d)' = Answer(d)
  <2>1. inbox[d] = <<>> /\ TypeOK
    BY <1>1 DEF IInv, CallInv, Queue, Quiet
  <2>2. ASSUME NEW c \in Calls, Own(c) PROVE response'[d] = response[d] /\ value'[d] = value[d]
    <3>1. CASE c # d
      BY <2>1, <2>2, <3>1, OthersUntouched DEF Untouched
    <3>2. CASE c = d
      BY <1>1, <2>1, <2>2, <3>2 DEF Own, Worker, Network, Connects, ConnectRaises, Wakes, TimesOut,
         ReadsError, ReadsPayload, Stops, OnConnect, OnConnectFailed, OnSubscribe, OnMessage,
         OnUselessMessage, Receives, BrokerSubscribes, ConnectionBreaks, Reconnects, Lost, TakesUp
    <3>3. QED
      BY <3>1, <3>2
  <2>3. ASSUME NEW c \in Calls, Zigbee2MqttAnswers(c) PROVE response' = response /\ value' = value
    BY <2>3 DEF Zigbee2MqttAnswers
  <2>4. ASSUME ForeignMessage PROVE response' = response /\ value' = value
    BY <2>4 DEF ForeignMessage
  <2>5. ASSUME UNCHANGED vars PROVE response' = response /\ value' = value
    BY <2>5 DEF vars
  <2>6. QED
    BY <1>1, <2>2, <2>3, <2>4, <2>5 DEF Next, Own, Environment, Answer
<1>2. IInv /\ [Next]_vars => [\A c \in Calls : pc[c] \in Ended => Answer(c)' = Answer(c)]_vars
  BY <1>1
<1>3. QED
  BY <1>2, Invariance, PTL DEF Spec, AnswerIsFinal

(***************************************************************************)
(* What the client promises: every step of the threads is a step of        *)
(* MqttClient or none.                                                     *)

\* What may be told to a call at all: that a request was carried out, what others
\* have published, to a reader the list.
Genuine(c, body) ==
    \/ body \in Calls /\ c \notin Readers /\ scans[body] > 0
    \/ body = Foreign /\ foreigns > 0
    \/ body = Devices /\ c \in Readers

\* Nothing else is in an inbox or a dict, an empty dict is not returned, and readers
\* request nothing.
Sourced(c) ==
    /\ \A i \in DOMAIN inbox[c] : inbox[c][i].kind = "answer" => Genuine(c, inbox[c][i].body)
    /\ \A r \in {response[c], value[c]} : r = Empty \/ Genuine(c, r.body)
    /\ outcome[c] = "returned" => value[c] # Empty
    /\ c \in Readers => scans[c] = 0 /\ requests[c] = 0

\* What a step brings to a call: its inbox holds what it held, controls, or genuine
\* news; its dict takes what came first; only a dict that is not empty is returned.
Brings(c) ==
    /\ \A i \in DOMAIN inbox'[c] :
          \/ \E k \in DOMAIN inbox[c] : inbox'[c][i] = inbox[c][k]
          \/ inbox'[c][i].kind # "answer"
          \/ Genuine(c, inbox[c][i].body)'
    /\ \/ response'[c] = response[c]
       \/ \E k \in DOMAIN inbox[c] :
            inbox[c][k].kind = "answer" /\ response'[c].body = inbox[c][k].body
    /\ \/ value'[c] = value[c] /\ (outcome'[c] = "returned" => outcome[c] = "returned")
       \/ value'[c] = response[c] /\ (outcome'[c] = "returned" => response[c] # Empty)
    /\ c \in Readers /\ scans[c] = 0 /\ requests[c] = 0 => scans'[c] = 0 /\ requests'[c] = 0

\* Requests stay carried out, others' messages published.
Grows == (\A c \in Calls : scans[c] > 0 => scans'[c] > 0) /\ (foreigns > 0 => foreigns' > 0)

\* What was genuine stays so, and what a step brings is.
LEMMA SourcedKept ==
    ASSUME NEW c \in Calls, Sourced(c), Brings(c), Grows
    PROVE  Sourced(c)'
<1>1. \A body : Genuine(c, body) => Genuine(c, body)'
  BY DEF Genuine, Grows
<1>2. \A i \in DOMAIN inbox'[c] : inbox'[c][i].kind = "answer" => Genuine(c, inbox[c][i].body)'
  BY <1>1 DEF Brings, Sourced
<1>3. response'[c] = Empty \/ Genuine(c, response[c].body)'
  BY <1>1 DEF Brings, Sourced
<1>4. value'[c] = Empty \/ Genuine(c, value[c].body)'
  BY <1>1 DEF Brings, Sourced
<1>5. outcome'[c] = "returned" => value'[c] # Empty
  BY DEF Brings, Sourced
<1>6. c \in Readers => scans'[c] = 0 /\ requests'[c] = 0
  BY DEF Brings, Sourced
<1>7. QED
  BY <1>2, <1>3, <1>4, <1>5, <1>6 DEF Sourced, Empty

\* A call whose dict, verdict and counts a step leaves alone.
Steady(c) ==
    /\ response'[c] = response[c] /\ value'[c] = value[c]
    /\ outcome'[c] = "returned" => outcome[c] = "returned"
    /\ c \in Readers /\ scans[c] = 0 /\ requests[c] = 0 => scans'[c] = 0 /\ requests'[c] = 0

\* Appending brings one element.
LEMMA AppendBrings ==
    ASSUME NEW q \in Seq(Messages), NEW m \in Messages, NEW i \in DOMAIN Append(q, m)
    PROVE  Append(q, m)[i] = m \/ (i \in DOMAIN q /\ Append(q, m)[i] = q[i])
OBVIOUS

\* A callback reads what came first and leaves the rest.
LEMMA ReceivesBrings ==
    ASSUME TypeOK, NEW c \in Calls, NEW kinds, Receives(c, kinds)
    PROVE  /\ 1 \in DOMAIN inbox[c] /\ inbox[c][1] = Head(inbox[c])
           /\ \A d \in Calls : \A i \in DOMAIN inbox'[d] :
                \E k \in DOMAIN inbox[d] : inbox'[d][i] = inbox[d][k]
<1>1. inbox[c] \in Seq(Messages) /\ inbox[c] # <<>>
  BY DEF TypeOK, Receives
<1>2. \A i \in DOMAIN Tail(inbox[c]) : i + 1 \in DOMAIN inbox[c] /\ Tail(inbox[c])[i] = inbox[c][i + 1]
  BY <1>1
<1>3. \A d \in Calls : inbox'[d] = IF d = c THEN Tail(inbox[c]) ELSE inbox[d]
  BY DEF TypeOK, Receives, Set
<1>4. 1 \in DOMAIN inbox[c] /\ inbox[c][1] = Head(inbox[c])
  BY <1>1
<1>5. ASSUME NEW d \in Calls, NEW i \in DOMAIN inbox'[d]
      PROVE  \E k \in DOMAIN inbox[d] : inbox'[d][i] = inbox[d][k]
  <2>1. CASE d = c
    BY <1>2, <1>3, <2>1
  <2>2. CASE d # c
    BY <1>3, <2>2
  <2>3. QED
    BY <2>1, <2>2
<1>6. QED
  BY <1>4, <1>5

\* Every step brings only that, and takes nothing back.
LEMMA StepBrings ==
    ASSUME IInv, [Next]_vars
    PROVE  Grows /\ \A d \in Calls : Brings(d)
<1> USE DEF Set, threads, shared
<1> TypeOK
  BY DEF IInv
<1>1. ASSUME NEW c \in Calls, Connects(c) \/ Reconnects(c) PROVE Grows /\ \A d \in Calls : Brings(d)
  <2>1. Grows /\ \A d \in Calls : Steady(d)
    BY <1>1 DEF TypeOK, Connects, Reconnects, Grows, Steady
  <2>2. PICK kind \in {"connack", "refused"} : inbox' = Set(inbox, c, <<Control(kind)>>)
    BY <1>1 DEF Connects, Reconnects
  <2>3. \A d \in Calls : \A i \in DOMAIN inbox'[d] :
            (\E k \in DOMAIN inbox[d] : inbox'[d][i] = inbox[d][k]) \/ inbox'[d][i].kind # "answer"
    BY <2>2, ControlType DEF TypeOK
  <2>4. QED
    BY <2>1, <2>3 DEF Brings, Steady
<1>2. ASSUME NEW c \in Calls, ConnectRaises(c) \/ Wakes(c) \/ TimesOut(c) \/ ReadsError(c)
      PROVE Grows /\ \A d \in Calls : Brings(d)
  <2>1. Grows /\ inbox' = inbox /\ \A d \in Calls : Steady(d)
    BY <1>2 DEF TypeOK, ConnectRaises, Wakes, TimesOut, ReadsError, Decides, Grows, Steady
  <2>2. QED
    BY <2>1 DEF Brings, Steady
<1>3. ASSUME NEW c \in Calls, ReadsPayload(c) PROVE Grows /\ \A d \in Calls : Brings(d)
  <2>1. Grows /\ inbox' = inbox /\ response' = response /\ scans' = scans /\ requests' = requests
    BY <1>3 DEF ReadsPayload, Grows
  <2>2. \A d \in Calls : \/ value'[d] = value[d] /\ outcome'[d] = outcome[d]
                         \/ value'[d] = response[d] /\ (outcome'[d] = "returned" => response[d] # Empty)
    BY <1>3 DEF TypeOK, ReadsPayload, Decides
  <2>3. QED
    BY <2>1, <2>2 DEF Brings
<1>4. ASSUME NEW c \in Calls, Stops(c) \/ ConnectionBreaks(c) PROVE Grows /\ \A d \in Calls : Brings(d)
  <2>1. Grows /\ \A d \in Calls : Steady(d)
    BY <1>4 DEF TypeOK, Stops, ConnectionBreaks, Grows, Steady
  <2>2. \A d \in Calls : inbox'[d] = inbox[d] \/ inbox'[d] = <<>>
    BY <1>4 DEF TypeOK, Stops, ConnectionBreaks
  <2>3. QED
    BY <2>1, <2>2 DEF Brings, Steady
<1>5. ASSUME NEW c \in Calls, OnConnect(c) \/ OnConnectFailed(c) \/ OnSubscribe(c) \/ OnUselessMessage(c)
      PROVE Grows /\ \A d \in Calls : Brings(d)
  <2>1. Grows /\ \A d \in Calls : Steady(d)
    BY <1>5 DEF TypeOK, OnConnect, OnConnectFailed, OnSubscribe, OnUselessMessage, Grows, Steady
  <2>2. \E kinds : Receives(c, kinds)
    BY <1>5 DEF OnConnect, OnConnectFailed, OnSubscribe, OnUselessMessage
  <2>3. QED
    BY <2>1, <2>2, ReceivesBrings DEF Brings, Steady
<1>6. ASSUME NEW c \in Calls, OnMessage(c) PROVE Grows /\ \A d \in Calls : Brings(d)
  <2>1. /\ Grows /\ value' = value /\ outcome' = outcome /\ scans' = scans /\ requests' = requests
        /\ Receives(c, {"answer"})
    BY <1>6 DEF OnMessage, Grows
  <2>2. \A d \in Calls : \/ response'[d] = response[d]
                         \/ d = c /\ response'[d].body = Head(inbox[c]).body
    BY <1>6 DEF TypeOK, OnMessage, Updated
  <2>3. Head(inbox[c]).kind = "answer"
    BY <2>1 DEF Receives
  <2>4. QED
    BY <2>1, <2>2, <2>3, ReceivesBrings DEF Brings
<1>7. ASSUME NEW c \in Calls, BrokerSubscribes(c) PROVE Grows /\ \A d \in Calls : Brings(d)
  <2>1. Grows /\ \A d \in Calls : Steady(d)
    BY <1>7 DEF TypeOK, BrokerSubscribes, Grows, Steady
  <2>2. inbox[c] = <<>> /\ \A d \in Calls \ {c} : inbox'[d] = inbox[d]
    BY <1>7 DEF TypeOK, IInv, CallInv, Queue, BrokerSubscribes
  <2>3. \/ inbox'[c] = <<Control("suback")>>
        \/ c \in Readers /\ inbox'[c] = <<Control("suback"), Message("answer", NoTag, Devices)>>
    BY <1>7, <2>2 DEF TypeOK, BrokerSubscribes
  <2>4. \A i \in DOMAIN inbox'[c] : \/ inbox'[c][i].kind # "answer"
                                    \/ c \in Readers /\ inbox'[c][i].body = Devices
    BY <2>3, ControlType DEF Message
  <2>5. QED
    BY <2>1, <2>2, <2>4 DEF Brings, Steady, Genuine
<1>8. ASSUME NEW c \in Calls, Lost(c) PROVE Grows /\ \A d \in Calls : Brings(d)
  <2>1. /\ requests[c] > 0 /\ inbox' = inbox /\ response' = response /\ value' = value
        /\ outcome' = outcome /\ foreigns' = foreigns
        /\ \A d \in Calls \ {c} : requests'[d] = requests[d]
    BY <1>8 DEF TypeOK, Lost, TakesUp
  <2>2. \A d \in Calls : (d # c => scans'[d] = scans[d]) /\ (scans[d] > 0 => scans'[d] > 0)
    <3>1. CASE scans' = scans
      BY <3>1
    <3>2. CASE scans' = Set(scans, c, scans[c] + 1)
      BY <3>2 DEF TypeOK
    <3>3. QED
      BY <1>8, <3>1, <3>2 DEF Lost
  <2>3. QED
    BY <2>1, <2>2 DEF Brings, Grows, TypeOK
<1>9. ASSUME NEW c \in Calls, Zigbee2MqttAnswers(c) PROVE Grows /\ \A d \in Calls : Brings(d)
  <2> DEFINE m == Message("answer", c, c)
  <2>1. /\ requests[c] > 0 /\ response' = response /\ value' = value /\ outcome' = outcome
        /\ foreigns' = foreigns /\ Broadcast(m, Calls \ Readers)
        /\ \A d \in Calls \ {c} : requests'[d] = requests[d] /\ scans'[d] = scans[d]
        /\ scans'[c] > 0
    BY <1>9 DEF TypeOK, Zigbee2MqttAnswers, TakesUp
  <2>2. m.body = c
    BY DEF Message
  <2>3. \A d \in Calls : inbox'[d] = inbox[d] \/ (d \notin Readers /\ inbox'[d] = Append(inbox[d], m))
    BY <2>1 DEF TypeOK, Broadcast
  <2>4. \A d \in Calls \ Readers : Genuine(d, m.body)'
    BY <2>1, <2>2 DEF Genuine
  <2>5. ASSUME NEW d \in Calls, NEW i \in DOMAIN inbox'[d]
        PROVE  \/ \E k \in DOMAIN inbox[d] : inbox'[d][i] = inbox[d][k]
               \/ d \notin Readers /\ inbox'[d][i] = m
    <3>1. inbox[d] \in Seq(Messages) /\ m \in Messages
      BY PlainType DEF TypeOK
    <3> HIDE DEF m
    <3>2. QED
      BY <2>3, <3>1, AppendBrings
  <2>6. ASSUME NEW d \in Calls
        PROVE  /\ scans[d] > 0 => scans'[d] > 0
               /\ scans[d] = 0 /\ requests[d] = 0 => scans'[d] = 0 /\ requests'[d] = 0
    <3>1. CASE d = c
      BY <2>1, <3>1
    <3>2. CASE d # c
      BY <2>1, <3>2
    <3>3. QED
      BY <3>1, <3>2
  <2>7. ASSUME NEW d \in Calls, NEW i \in DOMAIN inbox'[d]
        PROVE  \/ \E k \in DOMAIN inbox[d] : inbox'[d][i] = inbox[d][k]
               \/ Genuine(d, inbox[d][i].body)'
    <3>1. CASE d \notin Readers /\ inbox'[d][i] = m
      BY <2>2, <2>4, <3>1 DEF Genuine
    <3>2. QED
      BY <2>5, <3>1
  <2> HIDE DEF m
  <2>8. QED
    BY <2>1, <2>6, <2>7 DEF Brings, Grows
<1>10. ASSUME ForeignMessage PROVE Grows /\ \A d \in Calls : Brings(d)
  <2>1. /\ foreigns' > 0 /\ Grows /\ scans' = scans /\ requests' = requests
        /\ response' = response /\ value' = value /\ outcome' = outcome
    BY <1>10, ExchangeAssumption DEF TypeOK, ForeignMessage, Grows, ExchangeAssumption
  <2>2. PICK kind \in {"answer", "garbage", "empty"}, to \in SUBSET Calls :
            Broadcast(Message(kind, NoTag, Foreign), to)
    BY <1>10, ExchangeAssumption DEF ForeignMessage, ExchangeAssumption
  <2> DEFINE m == Message(kind, NoTag, Foreign)
  <2>3. \A d \in Calls : inbox'[d] = inbox[d] \/ inbox'[d] = Append(inbox[d], m)
    BY <2>2 DEF TypeOK, Broadcast
  <2>4. m.body = Foreign
    BY DEF Message
  <2>5. ASSUME NEW d \in Calls, NEW i \in DOMAIN inbox'[d]
        PROVE  (\E k \in DOMAIN inbox[d] : inbox'[d][i] = inbox[d][k]) \/ inbox'[d][i] = m
    <3>1. inbox[d] \in Seq(Messages) /\ m \in Messages
      BY PlainType DEF TypeOK
    <3> HIDE DEF m
    <3>2. QED
      BY <2>3, <3>1, AppendBrings
  <2>6. QED
    BY <2>1, <2>4, <2>5 DEF Brings, Genuine
<1>11. ASSUME UNCHANGED vars PROVE Grows /\ \A d \in Calls : Brings(d)
  BY <1>11 DEF vars, Grows, Brings
<1>12. QED
  BY <1>1, <1>2, <1>3, <1>4, <1>5, <1>6, <1>7, <1>8, <1>9, <1>10, <1>11
     DEF Next, Worker, Network, Environment

\* In every state, what a call was told is genuine.
LEMMA SourceInvariance == Spec => [](\A c \in Calls : Sourced(c))
<1>1. Init => \A c \in Calls : Sourced(c)
  BY DEF Init, Sourced
<1>2. IInv /\ (\A c \in Calls : Sourced(c)) /\ [Next]_vars => (\A c \in Calls : Sourced(c))'
  BY StepBrings, SourcedKept
<1>3. QED
  BY <1>1, <1>2, Invariance, PTL DEF Spec

\* The initial states are the client's.
LEMMA InitRefines == Init => Client!Init
BY ExchangeAssumption
   DEF Init, Phase, Told, Client!Init, ExchangeAssumption

\* A step that shows nothing to any handler.
Hidden ==
    /\ \A c \in Calls : Phase(c)' = Phase(c) /\ Told(c)' = Told(c) /\ (scans'[c] > 0 <=> scans[c] > 0)
    /\ foreigns' = foreigns

LEMMA HiddenStutters == ASSUME Hidden PROVE UNCHANGED Client!vars
BY DEF Hidden, Client!vars

\* A step that lets one call start or end.
Moves(c, from, to) ==
    /\ Phase(c) \in from /\ Phase(c)' = to
    /\ \A d \in Calls \ {c} : Phase(d)' = Phase(d) /\ Told(d)' = Told(d)
    /\ scans' = scans /\ foreigns' = foreigns

LEMMA MoveShows ==
    ASSUME NEW c \in Calls, NEW from, NEW to, Moves(c, from, to)
    PROVE  /\ Client!Goes(c, from, to)
           /\ Told(c)' = Told(c) => UNCHANGED [d \in Calls |-> Told(d)]
           /\ [d \in Calls |-> Told(d)]' = [[d \in Calls |-> Told(d)] EXCEPT ![c] = Told(c)']
           /\ UNCHANGED <<{d \in Calls : scans[d] > 0}, foreigns > 0>>
BY DEF Moves, Client!Goes

\* What a call returns is among the answers the client may give it.
LEMMA ReturnsGenuine ==
    ASSUME TypeOK, NEW c \in Calls, CallInv(c), Sourced(c), pc[c] = "stopping", outcome[c] = "returned"
    PROVE  Answer(c).body \in Client!Answers(c)
<1>1. Answer(c) # Empty /\ Answer(c) \in {response[c], value[c]}
  BY DEF Answer, CallInv, Verdict, Sourced
<1>2. Genuine(c, Answer(c).body) /\ Answer(c).body \notin Calls \ {c}
  BY <1>1 DEF Sourced, CallInv, Uncrossed
<1>3. QED
  BY <1>2 DEF Genuine, Client!Answers

\* The worker thread shows its end only; while it runs, nothing.
LEMMA WorkerRefines ==
    ASSUME IInv, NEW c \in Calls, Sourced(c), Connects(c) \/ ConnectRaises(c) \/ Worker(c)
    PROVE  [Client!Next]_Client!vars
<1> USE DEF Set, threads, shared, Ended
<1> TypeOK /\ CallInv(c)
  BY DEF IInv
<1>1. CASE Connects(c)
  <2>1. Moves(c, {"idle"}, "waiting") /\ Told(c)' = Told(c)
    BY <1>1 DEF TypeOK, Connects, Moves, Phase, Told, Answer
  <2>2. QED
    BY <2>1, MoveShows DEF Client!Call, Client!Next
<1>2. CASE ConnectRaises(c)
  <2>1. Moves(c, {"idle", "waiting"}, "raised") /\ Told(c)' = Told(c)
    BY <1>2 DEF TypeOK, ConnectRaises, Moves, Phase, Told, Answer
  <2>2. QED
    BY <2>1, MoveShows DEF Client!Raise, Client!Next
<1>3. CASE Wakes(c) \/ TimesOut(c) \/ ReadsError(c) \/ ReadsPayload(c)
  <2>1. /\ pc[c] \in {"waiting", "woken", "payload"} /\ pc'[c] \in {"woken", "payload", "stopping"}
        /\ scans' = scans /\ foreigns' = foreigns
    BY <1>3 DEF TypeOK, Wakes, TimesOut, ReadsError, ReadsPayload, Decides
  <2>2. \A d \in Calls \ {c} : pc'[d] = pc[d] /\ response'[d] = response[d] /\ value'[d] = value[d]
    BY <1>3, OthersUntouched DEF Own, Worker, Untouched
  <2>3. Hidden
    BY <2>1, <2>2 DEF Hidden, Phase, Told, Answer
  <2>4. QED
    BY <2>3, HiddenStutters
<1>4. CASE Stops(c)
  <2>1. Moves(c, {"waiting"}, outcome[c]) /\ outcome[c] \in Ended
    <3>1. outcome[c] \in Ended
      BY <1>4 DEF Stops, CallInv, Verdict
    <3>2. QED
      BY <1>4, <3>1 DEF TypeOK, Stops, Moves, Phase, Told, Answer
  <2>2. CASE outcome[c] = "returned"
    <3>1. Told(c)' = Answer(c).body
      BY <1>4, <2>2 DEF TypeOK, Stops, Told, Answer
    <3>2. Told(c)' \in Client!Answers(c)
      BY <1>4, <2>2, <3>1, ReturnsGenuine DEF Stops
    <3>3. Moves(c, {"waiting"}, "returned")
      BY <2>1, <2>2
    <3>4. Client!Return(c)
      BY <3>2, <3>3, MoveShows DEF Client!Return
    <3>5. QED
      BY <3>4 DEF Client!Next
  <2>3. CASE outcome[c] = "raised"
    <3>1. Moves(c, {"idle", "waiting"}, "raised") /\ Told(c)' = Told(c)
      BY <1>4, <2>1, <2>3 DEF TypeOK, Stops, Moves, Told
    <3>2. QED
      BY <3>1, MoveShows DEF Client!Raise, Client!Next
  <2>4. QED
    BY <2>1, <2>2, <2>3
<1>5. QED
  BY <1>1, <1>2, <1>3, <1>4 DEF Worker

\* Callbacks, subscriptions and connections are hidden: no callback runs once a call
\* has ended.
LEMMA NetworkRefines ==
    ASSUME IInv, NEW c \in Calls,
           Network(c) \/ BrokerSubscribes(c) \/ ConnectionBreaks(c) \/ Reconnects(c)
    PROVE  UNCHANGED Client!vars
<1> USE DEF Set, threads, shared
<1> TypeOK /\ CallInv(c)
  BY DEF IInv
<1>1. /\ pc' = pc /\ value' = value /\ scans' = scans /\ foreigns' = foreigns
      /\ \A d \in Calls \ {c} : response'[d] = response[d]
      /\ response'[c] = response[c] \/ inbox[c] # <<>>
  BY DEF TypeOK, Network, OnConnect, OnConnectFailed, OnSubscribe, OnMessage, OnUselessMessage,
         Receives, BrokerSubscribes, ConnectionBreaks, Reconnects
<1>2. inbox[c] # <<>> => pc[c] # "returned"
  BY DEF CallInv, Queue, Quiet, Ended
<1>3. Hidden
  BY <1>1, <1>2 DEF Hidden, Phase, Told, Answer
<1>4. QED
  BY <1>3, HiddenStutters

\* Zigbee2MQTT carries out what a call has asked for, or asked for again.
LEMMA CarriesOut ==
    ASSUME IInv, NEW c \in Calls, Sourced(c), Zigbee2MqttAnswers(c) \/ Lost(c)
    PROVE  [Client!Next]_Client!vars
<1> USE DEF Set, threads, shared
<1> TypeOK /\ CallInv(c)
  BY DEF IInv
<1>1. /\ requests[c] > 0 /\ pc' = pc /\ response' = response /\ value' = value
      /\ foreigns' = foreigns /\ scans' \in {scans, Set(scans, c, scans[c] + 1)}
  BY DEF TypeOK, Zigbee2MqttAnswers, Lost, TakesUp
<1>2. (\A d \in Calls : Phase(d)' = Phase(d) /\ Told(d)' = Told(d))
  BY <1>1 DEF Phase, Told, Answer
<1>3. CASE scans' = scans
  <2>1. Hidden
    BY <1>1, <1>2, <1>3 DEF Hidden
  <2>2. QED
    BY <2>1, HiddenStutters
<1>4. CASE scans' = Set(scans, c, scans[c] + 1)
  <2>1. {d \in Calls : scans'[d] > 0} = {d \in Calls : scans[d] > 0} \cup {c}
    BY <1>4 DEF TypeOK
  <2>2. c \notin Readers
    BY <1>1 DEF Sourced
  <2>3. pc[c] # "idle"
    <3>1. requests[c] \in Nat /\ scans[c] \in Nat /\ connects[c] \in Nat
      BY ExchangeAssumption DEF TypeOK, ExchangeAssumption
    <3>2. connects[c] > 0
      BY <1>1, <3>1 DEF CallInv, PublishesOnce
    <3>3. QED
      BY <3>2 DEF CallInv, Quiet
  <2>4. Phase(c) # "idle"
    BY <2>3 DEF Phase, TypeOK
  <2>5. Client!CarryOut(c)
    BY <1>1, <1>2, <2>1, <2>2, <2>4 DEF Client!CarryOut
  <2>6. QED
    BY <2>5 DEF Client!Next
<1>5. QED
  BY <1>1, <1>3, <1>4

\* The threads, the broker and Zigbee2MQTT together implement what the client promises
\* the handlers (zigbee2mqtt_mqtt.py:143-160, 291-327).
THEOREM Refinement == Spec => ImplementsClient
<1>1. Init => Client!Init
  BY InitRefines
<1>2. IInv /\ (\A c \in Calls : Sourced(c)) /\ [Next]_vars => [Client!Next]_Client!vars
  <2> SUFFICES ASSUME IInv, \A c \in Calls : Sourced(c), [Next]_vars
               PROVE  [Client!Next]_Client!vars
    OBVIOUS
  <2>1. ASSUME ForeignMessage PROVE [Client!Next]_Client!vars
    <3>1. /\ pc' = pc /\ response' = response /\ value' = value /\ scans' = scans
          /\ foreigns' > 0
      BY <2>1, ExchangeAssumption DEF IInv, TypeOK, ForeignMessage, threads, shared, ExchangeAssumption
    <3>2. \A d \in Calls : Phase(d)' = Phase(d) /\ Told(d)' = Told(d)
      BY <3>1 DEF Phase, Told, Answer
    <3>3. Client!Disturb
      BY <3>1, <3>2 DEF Client!Disturb
    <3>4. QED
      BY <3>3 DEF Client!Next
  <2>2. ASSUME UNCHANGED vars PROVE UNCHANGED Client!vars
    <3>1. Hidden
      BY <2>2 DEF vars, Hidden, Phase, Told, Answer
    <3>2. QED
      BY <3>1, HiddenStutters
  <2>3. QED
    BY <2>1, <2>2, WorkerRefines, NetworkRefines, CarriesOut DEF Next, Environment
<1>3. QED
  BY <1>1, <1>2, Invariance, SourceInvariance, PTL DEF Spec, ImplementsClient, Client!Spec

(***************************************************************************)
(* What the end of every call rests on: a worker never goes back, each of  *)
(* its steps brings it nearer to its end, no step of another thread moves  *)
(* it, and the pool never runs more calls than it has threads.             *)
(***************************************************************************)

\* How many steps a worker can still take.
Turns(step) ==
    CASE step = "idle"     -> 5
      [] step = "waiting"  -> 4
      [] step = "woken"    -> 3
      [] step = "payload"  -> 2
      [] step = "stopping" -> 1
      [] OTHER             -> 0

\* Each step of a worker brings it nearer to its end.
LEMMA WorkerTurns ==
    ASSUME TypeOK, NEW c \in Calls, Verdict(c), Worker(c)
    PROVE  /\ Turns(pc'[c]) < Turns(pc[c]) /\ pc[c] \notin {"idle"} \cup Ended
           /\ \A d \in Calls \ {c} : pc'[d] = pc[d]
<1> USE DEF TypeOK, Set
<1>1. CASE Wakes(c)
  BY <1>1 DEF Wakes, Turns, Ended
<1>2. CASE TimesOut(c)
  BY <1>2 DEF TimesOut, Decides, Turns, Ended
<1>3. CASE ReadsError(c)
  <2>1. pc' = Set(pc, c, "stopping") \/ pc' = Set(pc, c, "payload")
    BY Zenon, <1>3 DEF ReadsError, Decides
  <2>2. QED
    BY <1>3, <2>1 DEF ReadsError, Turns, Ended
<1>4. CASE ReadsPayload(c)
  BY <1>4 DEF ReadsPayload, Decides, Turns, Ended
<1>5. CASE Stops(c)
  <2>1. outcome[c] \in Ended
    BY <1>5 DEF Stops, Verdict
  <2>2. QED
    BY <1>5, <2>1 DEF Stops, Turns, Ended
<1>6. QED
  BY <1>1, <1>2, <1>3, <1>4, <1>5 DEF Worker

\* The other threads leave the workers where they are.
LEMMA OthersWait ==
    ASSUME NEW c \in Calls, Network(c) \/ Environment(c)
    PROVE  UNCHANGED pc
<1> USE DEF threads
<1>1. CASE Network(c)
  BY <1>1 DEF Network, OnConnect, OnConnectFailed, OnSubscribe, OnMessage, OnUselessMessage
<1>2. CASE Environment(c)
  BY <1>2 DEF Environment, BrokerSubscribes, ConnectionBreaks, Reconnects, Zigbee2MqttAnswers, Lost
<1>3. QED
  BY <1>1, <1>2

\* A call that the pool takes up was idle; it is under way, or raised at once.
LEMMA Taken ==
    ASSUME TypeOK, NEW c \in Calls, Connects(c) \/ ConnectRaises(c)
    PROVE  /\ Cardinality(Busy) < Workers /\ pc[c] = "idle"
           /\ pc'[c] \in {"waiting", "raised"}
           /\ \A d \in Calls \ {c} : pc'[d] = pc[d]
BY DEF Connects, ConnectRaises, TypeOK, Set

\* A worker stays where it is or comes nearer to the end of its call.
Turned(c) == pc'[c] = pc[c] \/ Turns(pc'[c]) < Turns(pc[c])

\* No step of any thread, of the broker or of Zigbee2MQTT takes a worker back.
LEMMA StepTurns ==
    ASSUME IInv, [Next]_vars
    PROVE  \A c \in Calls : Turned(c) /\ (Worker(c) => Turns(pc'[c]) < Turns(pc[c]))
<1>a. TypeOK /\ \A c \in Calls : Verdict(c)
  BY DEF IInv, CallInv
<1>b. \A c \in Calls : Worker(c) => Turns(pc'[c]) < Turns(pc[c])
  BY <1>a, WorkerTurns
<1>1. ASSUME NEW c \in Calls, Worker(c) PROVE \A d \in Calls : Turned(d)
  BY <1>a, <1>1, WorkerTurns DEF Turned
<1>2. ASSUME NEW c \in Calls, Connects(c) \/ ConnectRaises(c) PROVE \A d \in Calls : Turned(d)
  <2>1. Turns(pc'[c]) < Turns(pc[c])
    BY <1>a, <1>2, Taken DEF Turns
  <2>2. QED
    BY <1>a, <1>2, <2>1, Taken DEF Turned
<1>3. ASSUME NEW c \in Calls, Network(c) \/ Environment(c) PROVE \A d \in Calls : Turned(d)
  BY <1>3, OthersWait DEF Turned
<1>4. ASSUME ForeignMessage \/ UNCHANGED vars PROVE \A d \in Calls : Turned(d)
  <2>1. UNCHANGED pc
    BY <1>4 DEF ForeignMessage, vars, threads
  <2>2. QED
    BY <2>1 DEF Turned
<1>5. QED
  BY <1>b, <1>1, <1>2, <1>3, <1>4 DEF Next

\* A worker never goes back, and whenever its thread runs it comes nearer to its end:
\* four steps end every call (zigbee2mqtt_mqtt.py:305-323).
THEOREM CallsAdvance ==
    Spec => [][\A c \in Calls : Turned(c) /\ (Worker(c) => Turns(pc'[c]) < Turns(pc[c]))]_vars
<1>1. IInv /\ [Next]_vars
      => [\A c \in Calls : Turned(c) /\ (Worker(c) => Turns(pc'[c]) < Turns(pc[c]))]_vars
  BY StepTurns
<1>2. QED
  BY <1>1, Invariance, PTL DEF Spec

\* The threads in use, each by one call.
PoolBounded == IsFiniteSet(Busy) /\ Cardinality(Busy) <= Workers

\* A step that takes up no call keeps the pool within its size.
LEMMA PoolShrinks ==
    ASSUME PoolBounded, Busy' \subseteq Busy
    PROVE  PoolBounded'
<1>1. IsFiniteSet(Busy') /\ Cardinality(Busy') <= Cardinality(Busy)
  BY FS_Subset DEF PoolBounded
<1>2. Cardinality(Busy) \in Nat /\ Cardinality(Busy') \in Nat
  BY <1>1, FS_CardinalityType DEF PoolBounded
<1>3. QED
  BY <1>1, <1>2, ExchangeAssumption DEF PoolBounded, ExchangeAssumption

\* The pool never runs more calls than it has threads, and a call whose connection
\* failed, timed out or broke gives its thread back (asyncio.to_thread).
THEOREM PoolIsBounded == Spec => [](Cardinality(Busy) <= Workers)
<1>1. Init => PoolBounded
  <2>1. Init => Busy = {}
    BY DEF Init, Busy
  <2>2. QED
    BY <2>1, FS_EmptySet, ExchangeAssumption DEF PoolBounded, ExchangeAssumption
<1>2. IInv /\ PoolBounded /\ [Next]_vars => PoolBounded'
  <2> SUFFICES ASSUME IInv, PoolBounded, [Next]_vars PROVE PoolBounded'
    OBVIOUS
  <2>a. TypeOK /\ \A c \in Calls : Verdict(c)
    BY DEF IInv, CallInv
  <2>1. ASSUME NEW c \in Calls, Worker(c) PROVE PoolBounded'
    <3>1. Busy' \subseteq Busy
      BY <2>a, <2>1, WorkerTurns DEF Busy
    <3>2. QED
      BY <3>1, PoolShrinks
  <2>2. ASSUME NEW c \in Calls, Connects(c) \/ ConnectRaises(c) PROVE PoolBounded'
    <3>1. /\ Cardinality(Busy) < Workers /\ c \notin Busy
          /\ Busy' = Busy \cup {c} \/ Busy' = Busy
      BY <2>a, <2>2, Taken DEF Busy, Ended
    <3>2. CASE Busy' = Busy
      BY <3>2, PoolShrinks
    <3>3. CASE Busy' = Busy \cup {c}
      <4>1. IsFiniteSet(Busy') /\ Cardinality(Busy') = Cardinality(Busy) + 1
        BY <3>1, <3>3, FS_AddElement DEF PoolBounded
      <4>2. Cardinality(Busy) \in Nat
        BY FS_CardinalityType DEF PoolBounded
      <4>3. QED
        BY <3>1, <4>1, <4>2, ExchangeAssumption DEF PoolBounded, ExchangeAssumption
    <3>4. QED
      BY <3>1, <3>2, <3>3
  <2>3. ASSUME UNCHANGED pc PROVE PoolBounded'
    <3>1. Busy' \subseteq Busy
      BY <2>3 DEF Busy
    <3>2. QED
      BY <3>1, PoolShrinks
  <2>4. QED
    <3>1. ASSUME ForeignMessage \/ UNCHANGED vars PROVE UNCHANGED pc
      BY <3>1 DEF ForeignMessage, threads, vars
    <3>2. QED
      BY <2>1, <2>2, <2>3, <3>1, OthersWait DEF Next
<1>3. QED
  BY <1>1, <1>2, Invariance, PTL DEF Spec, PoolBounded

\* Nothing of a call outlives it: when its worker has ended, its connection is closed
\* and its network thread has nothing left to run on (zigbee2mqtt_mqtt.py:319-323).
THEOREM CallsLeaveNothing ==
    Spec => [](\A c \in Calls : pc[c] \in Ended => net[c] = "off" /\ inbox[c] = <<>>)
<1>1. IInv => \A c \in Calls : pc[c] \in Ended => net[c] = "off" /\ inbox[c] = <<>>
  BY DEF IInv, CallInv, Quiet, Queue
<1>2. QED
  BY <1>1, Invariance, PTL
=============================================================================
