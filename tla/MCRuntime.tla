----------------------------- MODULE MCRuntime -----------------------------
(* Three requests of every kind for two configurations and two brokers.    *)
EXTENDS Runtime, TLC

CONSTANTS a, b, m1, m2

C(server, hasSerial) == [broker |-> server, serial |-> hasSerial]

Configured ==
    {[op |-> "configure", id |-> a, config |-> C(m1, TRUE)],
     [op |-> "configure", id |-> a, config |-> C(m2, FALSE)],
     [op |-> "configure", id |-> b, config |-> C(m2, TRUE)]}

Synced ==
    {[op |-> "sync", configs |-> [i \in {} |-> C(m1, TRUE)]],
     [op |-> "sync", configs |-> [i \in {a} |-> C(m2, TRUE)]],
     [op |-> "sync", configs |-> [i \in {a, b} |-> C(m1, TRUE)]]}

ForId == {[op |-> op, id |-> a] : op \in {"deconfigure", "refresh"}}

Asked ==
    {[op |-> "map", broker |-> m1, dry |-> dry] : dry \in BOOLEAN}
    \cup {[op |-> "devices", broker |-> None, dry |-> FALSE],
          [op |-> "permit", broker |-> m2, dry |-> TRUE]}

AllOrders == Configured \cup Synced \cup ForId \cup Asked

Symmetry == Permutations(Requests)
=============================================================================
