----------------------------- MODULE ConfigFile -----------------------------
(***************************************************************************)
(* What write_config_atomic promises its callers: configuration.yaml is a  *)
(* register that changes in ONE step, from one whole text to another whole *)
(* text, and only between the call and its end.  A call that fails leaves  *)
(* the register alone, and "changed" is answered exactly by the calls that *)
(* installed their text.                                                   *)
(***************************************************************************)
CONSTANTS
    Texts,      \* the configurations a caller may ask for
    Absent      \* the file does not exist

VARIABLES
    file,       \* what a reader of the path finds
    phase,      \* "idle", "called", "installed" or "kept"
    request,    \* the text of the call under way
    outcome     \* how the last call ended

vars == <<file, phase, request, outcome>>

Outcomes == {"none", "changed", "unchanged", "failed", "lost"}

Init ==
    /\ file \in Texts \cup {Absent}
    /\ phase = "idle"
    /\ request \in Texts
    /\ outcome = "none"

Call(text) ==
    /\ phase = "idle"
    /\ phase' = "called"
    /\ request' = text
    /\ outcome' = "none"
    /\ UNCHANGED file

\* The one step in which the file takes the new text.
Install ==
    /\ phase = "called"
    /\ file' = request
    /\ phase' = "installed"
    /\ UNCHANGED <<request, outcome>>

\* The file holds the text already.
Keep ==
    /\ phase = "called"
    /\ file = request
    /\ phase' = "kept"
    /\ UNCHANGED <<file, request, outcome>>

Return ==
    /\ \/ phase = "installed" /\ outcome' = "changed"
       \/ phase = "kept"      /\ outcome' = "unchanged"
    /\ phase' = "idle"
    /\ UNCHANGED <<file, request>>

\* An exception: before the text is installed, never after.
Fail ==
    /\ phase = "called"
    /\ phase' = "idle"
    /\ outcome' = "failed"
    /\ UNCHANGED <<file, request>>

\* The process dies: the caller hears nothing.
Lose ==
    /\ phase # "idle"
    /\ phase' = "idle"
    /\ outcome' = "lost"
    /\ UNCHANGED <<file, request>>

\* Another writer of the shared data directory.
Foreign(content) ==
    /\ file' = content
    /\ UNCHANGED <<phase, request, outcome>>

Next ==
    \/ \E text \in Texts : Call(text)
    \/ Install \/ Keep \/ Return \/ Fail \/ Lose
    \/ \E content \in Texts \cup {Absent} : Foreign(content)

Spec == Init /\ [][Next]_vars
=============================================================================
