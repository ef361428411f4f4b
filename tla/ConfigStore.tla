---------------------------- MODULE ConfigStore -----------------------------
(***************************************************************************)
(* config_store.write_config_atomic, one file-system operation per step.   *)
(*                                                                         *)
(* The function runs on the event loop without an await, so there is one   *)
(* call at a time; what interleaves with it is the rest of the machine:    *)
(* the sidecar process may die between any two operations, any operation   *)
(* may raise OSError, and the data directory is shared with Zigbee2MQTT    *)
(* and with the user, who may replace or delete configuration.yaml.        *)
(*                                                                         *)
(* A hash stands for the text it is the hash of.  Opening a file for       *)
(* writing truncates it: until the data is out, its content is Torn.       *)
(***************************************************************************)
EXTENDS Naturals

CONSTANTS
    Texts,      \* rendered configurations
    Absent,     \* no such file
    Torn,       \* a truncated or half-written file
    MaxForeign  \* bound: writes by other programs

ASSUME StoreAssumption ==
    /\ Absent \notin Texts
    /\ Torn \notin Texts
    /\ Absent # Torn
    /\ MaxForeign \in Nat

VARIABLES
    target,     \* configuration.yaml
    backup,     \* configuration.yaml.bak
    temporary,  \* configuration.yaml.tmp
    pc,         \* the next operation of the call under way
    request,    \* yaml_text
    previous,   \* the content behind previous_hash
    copied,     \* target.read_bytes(), on its way to the backup
    outcome,    \* how the last call ended
    \* History:
    held,       \* every content configuration.yaml has had
    replaced,   \* what the last replace() overwrote
    tampered,   \* another program wrote during this call
    foreigns    \* how often other programs wrote

files == <<target, backup, temporary>>
call == <<request, previous, copied>>
history == <<held, replaced, tampered, foreigns>>
vars == <<target, backup, temporary, pc, request, previous, copied, outcome,
          held, replaced, tampered, foreigns>>

Contents == Texts \cup {Absent, Torn}
Whole == Texts \cup {Absent}
Outcomes == {"none", "changed", "unchanged", "failed", "lost"}
Steps == {"idle", "hash", "compare", "exists", "open_bak", "write_bak",
          "open_tmp", "write_tmp", "replace", "return"}

TypeOK ==
    /\ target \in Contents
    /\ backup \in Contents
    /\ temporary \in Contents
    /\ pc \in Steps
    /\ request \in Texts
    /\ previous \in Contents
    /\ copied \in Contents
    /\ outcome \in Outcomes
    /\ held \subseteq Contents
    /\ replaced \in Contents
    /\ tampered \in BOOLEAN
    /\ foreigns \in 0 .. MaxForeign

Init ==
    /\ target \in Whole
    /\ backup = Absent
    /\ temporary = Absent
    /\ pc = "idle"
    /\ request \in Texts
    /\ previous = Absent
    /\ copied = Absent
    /\ outcome = "none"
    /\ held = {target}
    /\ replaced = Absent
    /\ tampered = FALSE
    /\ foreigns = 0

Goto(step) == pc' = step /\ UNCHANGED outcome

----------------------------------------------------------------------------
(* One call.                                                               *)

\* write_config_atomic(yaml_text, config_path) is called; its first operation
\* makes the parent directory.
Call(text) ==
    /\ pc = "idle"
    /\ pc' = "hash"
    /\ request' = text
    /\ outcome' = "none"
    /\ tampered' = FALSE
    /\ UNCHANGED <<files, previous, copied, held, replaced, foreigns>>

\* previous_hash = file_sha256(target) if target.exists() else None
Hash ==
    /\ pc = "hash"
    /\ previous' = target
    /\ Goto("compare")
    /\ UNCHANGED <<files, request, copied, history>>

\* if previous_hash == next_hash: nothing is written
Compare ==
    /\ pc = "compare"
    /\ IF previous = request THEN pc' = "return" ELSE pc' = "exists"
    /\ UNCHANGED <<files, call, outcome, history>>

\* Mutant: nothing is backed up.
ReadTargetNoBackup ==
    /\ pc = "exists"
    /\ Goto("open_tmp")
    /\ UNCHANGED <<files, call, history>>

\* if target.exists(): the bytes to back up are read
ReadTarget ==
    /\ pc = "exists"
    /\ IF target = Absent
       THEN Goto("open_tmp") /\ UNCHANGED copied
       ELSE Goto("open_bak") /\ copied' = target
    /\ UNCHANGED <<files, request, previous, history>>

\* backup.write_bytes(...): open for writing, which truncates ...
OpenBackup ==
    /\ pc = "open_bak"
    /\ backup' = Torn
    /\ Goto("write_bak")
    /\ UNCHANGED <<target, temporary, call, history>>

\* Mutant: the new text is written to the backup.
WriteBackupOfRequest ==
    /\ pc = "write_bak"
    /\ backup' = request
    /\ Goto("open_tmp")
    /\ UNCHANGED <<target, temporary, call, history>>

\* ... then write and close.
WriteBackup ==
    /\ pc = "write_bak"
    /\ backup' = copied
    /\ Goto("open_tmp")
    /\ UNCHANGED <<target, temporary, call, history>>

\* Mutant: the file is renamed before its text is out.
OpenTemporaryUnflushed ==
    /\ pc = "open_tmp"
    /\ temporary' = Torn
    /\ Goto("replace")
    /\ UNCHANGED <<target, backup, call, history>>

\* temporary.write_text(yaml_text): open for writing ...
OpenTemporary ==
    /\ pc = "open_tmp"
    /\ temporary' = Torn
    /\ Goto("write_tmp")
    /\ UNCHANGED <<target, backup, call, history>>

\* ... then write and close.
WriteTemporary ==
    /\ pc = "write_tmp"
    /\ temporary' = request
    /\ Goto("replace")
    /\ UNCHANGED <<target, backup, call, history>>

\* temporary.replace(target): rename(2), one step of the file system
Replace ==
    /\ pc = "replace"
    /\ target' = temporary
    /\ temporary' = Absent
    /\ replaced' = target
    /\ held' = held \cup {temporary}
    /\ Goto("return")
    /\ UNCHANGED <<backup, call, tampered, foreigns>>

\* Mutant: the previous hash where the flag belongs.
ReturnPrevious ==
    /\ pc = "return"
    /\ outcome' = previous
    /\ pc' = "idle"
    /\ UNCHANGED <<files, call, history>>

\* Mutant: changed=True in both results.
ReturnAlwaysChanged ==
    /\ pc = "return"
    /\ outcome' = "changed"
    /\ pc' = "idle"
    /\ UNCHANGED <<files, call, history>>

\* The two ConfigWriteResults.
Return ==
    /\ pc = "return"
    /\ outcome' = IF previous = request THEN "unchanged" ELSE "changed"
    /\ pc' = "idle"
    /\ UNCHANGED <<files, call, history>>

\* Any operation may raise OSError; what it has done so far stays.
OSError ==
    /\ pc \in Steps \ {"idle", "compare", "return"}
    /\ pc' = "idle"
    /\ outcome' = "failed"
    /\ UNCHANGED <<files, call, history>>

----------------------------------------------------------------------------
(* The rest of the machine.                                                *)

\* The sidecar process is killed: the files stay as they are.
Crash ==
    /\ pc # "idle"
    /\ pc' = "idle"
    /\ outcome' = "lost"
    /\ UNCHANGED <<files, call, history>>

\* Zigbee2MQTT or the user replaces or deletes configuration.yaml.
Foreign(content) ==
    /\ foreigns < MaxForeign
    /\ target' = content
    /\ held' = held \cup {content}
    /\ tampered' = TRUE
    /\ foreigns' = foreigns + 1
    /\ UNCHANGED <<backup, temporary, pc, call, outcome, replaced>>

Next ==
    \/ \E text \in Texts : Call(text)
    \/ Hash \/ Compare \/ ReadTarget \/ OpenBackup \/ WriteBackup
    \/ OpenTemporary \/ WriteTemporary \/ Replace \/ Return
    \/ OSError \/ Crash
    \/ \E content \in Whole : Foreign(content)

Spec == Init /\ [][Next]_vars

----------------------------------------------------------------------------
(* Properties.                                                             *)

\* configuration.yaml is whole whenever anyone looks, whatever step the call
\* is at, failed at or died at: the point of writing beside the file and
\* renaming (config_store.py:27-29).
TargetNeverTorn == target \in Whole

\* A call that replaced a file leaves the replaced text, whole, in the
\* backup, unless another program wrote in between the copy and the rename
\* (config_store.py:22-29).
BackupOfReplaced ==
    (pc = "return" /\ previous # request /\ ~tampered /\ replaced # Absent)
        => backup = replaced

\* The backup is never something that was not once in force: it is missing,
\* cut short by a failure, or a text configuration.yaml has held.
BackupWasInForce == backup \in held \cup {Absent, Torn}

\* The steps implement the one-step register: phases are read off pc, and the
\* outcome of Compare is known as soon as the file has been read.
Register == INSTANCE ConfigFile WITH
    file <- target,
    phase <- CASE pc = "idle" -> "idle"
               [] pc \in {"compare", "return"} /\ previous = request -> "kept"
               [] pc = "return" /\ previous # request -> "installed"
               [] OTHER -> "called"

\* To every caller and every reader, write_config_atomic behaves as the
\* register of ConfigFile: one installing step, none on failure, and a truthful
\* "changed" (config_store.py:9-36).
ImplementsRegister == Register!Spec
=============================================================================
