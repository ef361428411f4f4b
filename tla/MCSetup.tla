------------------------------ MODULE MCSetup ------------------------------
(* Two houses: one with two adapters, two ttys and two sockets, where PiPhi *)
(* configures what is suggested; one without adapters, whose clients send   *)
(* configurations and ask under every kind of server text.                  *)
EXTENDS Setup

CONSTANTS d1, d2, t1, t2, s1, s2, h1, h2, z, w, u1, u2, p1

Says(product, link, byPath) == [product |-> product, link |-> link, byPath |-> byPath]
Ember == [hint |-> "ember", score |-> 94]
Chip == [hint |-> Nil, score |-> 48]
Plus == [hint |-> "zstack", score |-> 88]
MCLabels == {Says(Ember, NoRule, TRUE), Says(Chip, Plus, TRUE), Says(Plus, Chip, FALSE), Says(Chip, Nil, TRUE)}

Text(scheme, user, password, host, port) ==
    [scheme |-> scheme, user |-> user, password |-> password, host |-> host, port |-> port]
Plain == Text("mqtt", None, None, h1, p1)
Secured == Text("without", u1, u2, h2, "0")
Halved == Text("mqtts", None, u2, h1, None)
Broken == Text("mqtt", None, None, h1, "invalid")
BrokenNamed == Text("mqtt", u1, None, h1, "invalid")

Mqtt(server, user, password, topic) ==
    [server |-> server, user |-> user, password |-> password, topic |-> topic]
Body(m) == [mqtt |-> m, serial |-> <<"tty", t1>>, adapter |-> Nil]
MCOrders == {Body(Mqtt(Secured, None, None, w)), Body(Mqtt(Halved, u2, None, z)),
             Body(Mqtt(BrokenNamed, None, None, z))}
MCPiPhiMqtt == {Mqtt(Plain, None, None, z)}
MCAskServers == {None, Secured, Broken}

MCInputs == {[port |-> Nil, adapter |-> Nil], [port |-> <<"tty", t1>>, adapter |-> Nil],
             [port |-> Nil, adapter |-> "ember"]}
MCHouses == {[devices |-> Devices, orders |-> {}, servers |-> {}],
             [devices |-> {}, orders |-> Orders, servers |-> AskServers]}
=============================================================================
