---------------------------- MODULE BridgeService ----------------------------
(***************************************************************************)
(* What the bridge promises whoever applies a configuration.  A request is *)
(* taken once; it changes configuration.yaml when it is taken or never;    *)
(* and it is told that Zigbee2MQTT was restarted only when Zigbee2MQTT was *)
(* started after that.  A started Zigbee2MQTT runs on what the file holds  *)
(* when it comes to read it.                                               *)
(*                                                                         *)
(* Nothing is promised of a request that was not told so: Zigbee2MQTT may  *)
(* be stopped and started for it, or for nobody, at any time.              *)
(***************************************************************************)
CONSTANTS
    Requests,
    Configs,    \* what the file may hold
    Unread      \* what Zigbee2MQTT runs on before it has read the file

VARIABLES
    phase,      \* request -> "new", "open", "confirmed" or "closed"
    file,       \* what configuration.yaml holds
    writer,     \* the request that last changed it
    armed,      \* requests that have written, or asked for a restart
    up,         \* Zigbee2MQTT runs
    shows,      \* what it runs on
    since       \* those that were armed when it was last started

vars == <<phase, file, writer, armed, up, shows, since>>

files == <<file, writer>>
machine == <<up, shows, since>>

Init ==
    /\ phase = [r \in Requests |-> "new"]
    /\ file \in Configs
    /\ writer \notin Requests
    /\ armed = {}
    /\ up \in BOOLEAN
    /\ shows = Unread
    /\ since = {}

\* r is armed; a write of what the file holds already does not change it.
Arms(r) ==
    /\ armed' = armed \cup {r}
    /\ \/ UNCHANGED files
       \/ file' \in Configs \ {file} /\ writer' = r

\* A request is taken, with whatever it writes.
Take(r) ==
    /\ phase[r] = "new"
    /\ \E next \in {"open", "closed"} : phase' = [phase EXCEPT ![r] = next]
    /\ Arms(r) \/ UNCHANGED <<files, armed>>
    /\ UNCHANGED machine

\* Its client is told that Zigbee2MQTT was restarted.
Confirm(r) ==
    /\ phase[r] = "open"
    /\ r \in since
    /\ phase' = [phase EXCEPT ![r] = "confirmed"]
    /\ UNCHANGED <<files, armed, machine>>

\* It ends in any other way.
Close(r) ==
    /\ phase[r] = "open"
    /\ phase' = [phase EXCEPT ![r] = "closed"]
    /\ UNCHANGED <<files, armed, machine>>

\* The service dies, and with it what is open and the request it was just writing for.
Lose(also) == phase' = [r \in Requests |-> IF r \in also \/ phase[r] = "open"
                                           THEN "closed" ELSE phase[r]]

Die == Lose({}) /\ UNCHANGED <<files, armed, machine>>

DieWriting(r) ==
    /\ phase[r] = "new"
    /\ Lose({r})
    /\ Arms(r)
    /\ UNCHANGED machine

\* Zigbee2MQTT is started, reads its file, and stops, on request or of itself.
Start ==
    /\ ~up
    /\ up' = TRUE /\ shows' = Unread /\ since' = armed
    /\ UNCHANGED <<phase, files, armed>>

Read ==
    /\ up /\ shows = Unread
    /\ shows' = file
    /\ UNCHANGED <<phase, files, armed, up, since>>

Stop ==
    /\ up' = FALSE /\ shows' = Unread
    /\ UNCHANGED <<phase, files, armed, since>>

Next ==
    \/ \E r \in Requests : Take(r) \/ Confirm(r) \/ Close(r) \/ DieWriting(r)
    \/ Die \/ Start \/ Read \/ Stop

Spec == Init /\ [][Next]_vars
=============================================================================
