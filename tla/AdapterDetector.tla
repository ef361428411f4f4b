-------------------------- MODULE AdapterDetector --------------------------
(* Zigbee adapters found at the serial ports and what is suggested of them. *)
(* Linux names a port by a tty that the next device may get, and may link   *)
(* it by what the device is and by the socket it is plugged into.           *)
EXTENDS Naturals, FiniteSets

CONSTANTS
    Devices, Ttys, Sockets,
    Labels,        \* what a device says of itself and its by-id link of it
    Nil            \* no device, path, link or adapter type

\* What infer_adapter_hint makes of a text: the first rule that fits, with its
\* confidence in hundredths; the link by socket fits none.
Rules ==
    {[hint |-> "ember", score |-> 94], [hint |-> "zstack", score |-> 92],
     [hint |-> "zstack", score |-> 88], [hint |-> "ember", score |-> 90],
     [hint |-> "deconz", score |-> 86], [hint |-> "zigate", score |-> 86],
     [hint |-> "zboss", score |-> 82], [hint |-> "zstack", score |-> 72],
     [hint |-> Nil, score |-> 48], [hint |-> Nil, score |-> 35]}
NoRule == [hint |-> Nil, score |-> 35]

Paths == ({"tty"} \X Ttys) \cup ({"by-id"} \X Devices) \cup ({"by-path"} \X Sockets)
Places == [tty: Ttys, socket: Sockets] \cup {Nil}
LabelType == [product: Rules, link: Rules \cup {Nil}, byPath: BOOLEAN]

ASSUME AdapterAssumption ==
    /\ Labels \subseteq LabelType
    /\ Nil \notin Devices \cup Paths \cup Ttys \cup Sockets \cup Rules
                \cup [tty: Ttys, socket: Sockets] \cup {"ember", "zstack", "deconz", "zigate", "zboss"}

\* The device a path leads to, with the devices at their places.
LeadsTo(path, place) ==
    LET there == {d \in DOMAIN place : place[d] # Nil /\
                    CASE path[1] = "tty" -> place[d].tty = path[2]
                      [] path[1] = "by-id" -> d = path[2]
                      [] path[1] = "by-path" -> place[d].socket = path[2]}
    IN  IF there = {} THEN Nil ELSE CHOOSE d \in there : TRUE

Bounded(score) == IF score > 100 THEN 100 ELSE score
Greater(a, b) == IF a > b THEN a ELSE b
FromPort(label, place) ==
    [path |-> <<"tty", place.tty>>, hint |-> label.product.hint,
     confidence |-> label.product.score, stable |-> FALSE]

\* A link is worth 12 more than the better of the two texts.
LinkScoreOwn(label, rule) == Bounded(rule.score + 12)
LinkScore(label, rule) == Bounded(Greater(label.product.score, rule.score) + 12)
FromLink(path, label, rule) ==
    [path |-> path, hint |-> IF label.product.hint # Nil THEN label.product.hint ELSE rule.hint,
     confidence |-> LinkScore(label, rule), stable |-> TRUE]

\* All a device is found by, and the order in which that is found.
Found(d, label, place) ==
    {FromPort(label, place)}
      \cup (IF label.link # Nil THEN {FromLink(<<"by-id", d>>, label, label.link)} ELSE {})
      \cup (IF label.byPath THEN {FromLink(<<"by-path", place.socket>>, label, NoRule)} ELSE {})
Before(a, b) == <<a.path[1], b.path[1]>> \in
    {<<"tty", "by-id">>, <<"tty", "by-path">>, <<"by-id", "by-path">>}

\* By confidence, then stability.
Better(a, b) == a.confidence > b.confidence \/ (a.confidence = b.confidence /\ a.stable /\ ~b.stable)

\* One candidate for each device: the best, the first of equals.
Candidate(d, label, place) ==
    CHOOSE c \in Found(d, label, place) :
        \A o \in Found(d, label, place) \ {c} : ~Better(o, c) /\ (Better(c, o) \/ Before(c, o))

\* What may head the sorted list; its last key, the display name, is left open.
Heads(label, place) ==
    LET candidates == {[device |-> d, candidate |-> Candidate(d, label[d], place[d])] :
                        d \in {e \in DOMAIN place : place[e] # Nil}}
    IN  {h \in candidates : \A o \in candidates : ~Better(o.candidate, h.candidate)}
=============================================================================
