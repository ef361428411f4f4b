----------------------------- MODULE MqttClient -----------------------------
(***************************************************************************)
(* What the MQTT client promises the handlers that await its calls: a call *)
(* suspends once and ends once, with an exception or with an answer that   *)
(* stands from then on, and the answer is what it asked for.  To a request *)
(* it is what Zigbee2MQTT answered once it had carried that request out,   *)
(* to a reader the retained list; only where others publish on the topic   *)
(* may it be theirs.  Calls have nothing to do with each other.            *)
(*                                                                         *)
(* Little is promised of a call that raised: its request may have been     *)
(* carried out, or may be later.                                           *)
(***************************************************************************)
CONSTANTS
    Calls,      \* calls, and the answers to their requests
    Readers,    \* those that read bridge/devices, and request nothing
    Foreign,    \* what others' messages hold
    Devices,    \* the retained device list
    Nothing     \* no answer

VARIABLES
    phase,      \* call -> "idle", "waiting", "returned" or "raised"
    answer,     \* call -> what it returned
    carried,    \* the calls whose request Zigbee2MQTT has carried out
    disturbed   \* others have published

vars == <<phase, answer, carried, disturbed>>

Init ==
    /\ phase = [c \in Calls |-> "idle"]
    /\ answer = [c \in Calls |-> Nothing]
    /\ carried = {}
    /\ disturbed = FALSE

Goes(c, from, to) ==
    /\ phase[c] \in from
    /\ phase' = [phase EXCEPT ![c] = to]

Call(c) == Goes(c, {"idle"}, "waiting") /\ UNCHANGED <<answer, carried, disturbed>>

\* A request on its way is carried out whether or not its call still waits.
CarryOut(c) ==
    /\ phase[c] # "idle"
    /\ c \notin Readers
    /\ carried' = carried \cup {c}
    /\ UNCHANGED <<phase, answer, disturbed>>

Disturb ==
    /\ disturbed' = TRUE
    /\ UNCHANGED <<phase, answer, carried>>

Answers(c) ==
    (IF c \in Readers THEN {Devices} ELSE {c} \cap carried)
        \cup (IF disturbed THEN {Foreign} ELSE {})

Return(c) ==
    /\ Goes(c, {"waiting"}, "returned")
    /\ \E a \in Answers(c) : answer' = [answer EXCEPT ![c] = a]
    /\ UNCHANGED <<carried, disturbed>>

\* No connection, no answer in time, or no use in what came.
Raise(c) == Goes(c, {"idle", "waiting"}, "raised") /\ UNCHANGED <<answer, carried, disturbed>>

Next ==
    \/ \E c \in Calls : Call(c) \/ CarryOut(c) \/ Return(c) \/ Raise(c)
    \/ Disturb

Spec == Init /\ [][Next]_vars
=============================================================================
