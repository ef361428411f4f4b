------------------------- MODULE ConfigStore_proofs -------------------------
(***************************************************************************)
(* write_config_atomic, proved for every set of texts and every number of  *)
(* foreign writes: configuration.yaml is never torn, the backup is what    *)
(* was replaced, and the steps implement the one-step register ConfigFile. *)
(***************************************************************************)
EXTENDS ConfigStore, TLAPS

(***************************************************************************)
(* The inductive invariant: what each step of a call may rely on.          *)
(***************************************************************************)

\* The temporary file is whole when it is renamed.
TemporaryComplete == pc = "replace" => temporary = request

\* What is on its way to the backup is a content configuration.yaml has had.
CopyWasHeld == pc \in {"open_bak", "write_bak"} => copied \in held

\* The text has to be installed from the comparison on.
ToInstall ==
    pc \in {"exists", "open_bak", "write_bak", "open_tmp", "write_tmp", "replace"}
        => previous # request

TargetHeld == target \in held /\ held \subseteq Whole

\* As long as nobody else writes: what is being copied, and then the backup, is
\* the file that will be replaced.
BackupInStep ==
    ~tampered =>
        /\ pc \in {"open_bak", "write_bak"} => copied = target
        /\ pc \in {"open_tmp", "write_tmp", "replace"} =>
               (target = Absent \/ backup = target)

IInv ==
    /\ TypeOK
    /\ TargetNeverTorn
    /\ TemporaryComplete
    /\ CopyWasHeld
    /\ ToInstall
    /\ TargetHeld
    /\ BackupInStep
    /\ BackupOfReplaced
    /\ BackupWasInForce

\* The invariant holds before the first call.
LEMMA InitIInv == Init => IInv
<1> SUFFICES ASSUME Init PROVE IInv
  OBVIOUS
<1> USE StoreAssumption DEF StoreAssumption, Init, Contents, Whole, Outcomes, Steps
<1>1. held \subseteq Contents /\ TargetHeld
  BY DEF TargetHeld
<1>2. TypeOK
  <2>1. foreigns \in 0 .. MaxForeign
    OBVIOUS
  <2>2. target \in Contents /\ backup \in Contents /\ temporary \in Contents
    OBVIOUS
  <2>3. previous \in Contents /\ copied \in Contents /\ replaced \in Contents
    OBVIOUS
  <2>4. QED
    BY <1>1, <2>1, <2>2, <2>3 DEF TypeOK
<1>3. TargetNeverTorn /\ BackupWasInForce
  BY DEF TargetNeverTorn, BackupWasInForce
<1>4. TemporaryComplete /\ CopyWasHeld /\ ToInstall /\ BackupInStep /\ BackupOfReplaced
  BY DEF TemporaryComplete, CopyWasHeld, ToInstall, BackupInStep, BackupOfReplaced
<1>5. QED
  BY <1>1, <1>2, <1>3, <1>4 DEF IInv

\* Every step of the call and of its environment preserves the invariant.
LEMMA StepIInv == IInv /\ [Next]_vars => IInv'
<1> SUFFICES ASSUME IInv, [Next]_vars PROVE IInv'
  OBVIOUS
<1> USE StoreAssumption DEF StoreAssumption, IInv, TypeOK, TargetNeverTorn, TemporaryComplete,
        CopyWasHeld, ToInstall, TargetHeld, BackupInStep, BackupOfReplaced,
        BackupWasInForce, Contents, Whole, Outcomes, Steps, Goto,
        files, call, history
<1>1. CASE \E text \in Texts : Call(text)
  BY <1>1 DEF Call
<1>2. CASE Hash
  BY <1>2 DEF Hash
<1>3. CASE Compare
  BY <1>3 DEF Compare
<1>4. CASE ReadTarget
  BY <1>4 DEF ReadTarget
<1>5. CASE OpenBackup
  BY <1>5 DEF OpenBackup
<1>6. CASE WriteBackup
  <2>1. backup' = copied /\ pc' = "open_tmp" /\ UNCHANGED target
    BY <1>6 DEF WriteBackup
  <2>2. BackupWasInForce' /\ BackupInStep'
    BY <1>6, <2>1 DEF WriteBackup
  <2>3. QED
    BY <1>6, <2>2 DEF WriteBackup
<1>7. CASE OpenTemporary
  BY <1>7 DEF OpenTemporary
<1>8. CASE WriteTemporary
  BY <1>8 DEF WriteTemporary
<1>9. CASE Replace
  <2>1. target' = request /\ replaced' = target /\ held' = held \cup {request}
    BY <1>9 DEF Replace
  <2>2. TypeOK'
    BY <1>9, <2>1 DEF Replace
  <2>3. TargetNeverTorn' /\ TargetHeld'
    BY <1>9, <2>1 DEF Replace
  <2>4. BackupOfReplaced'
    \* BackupInStep said so of the file before it was replaced.
    BY <1>9, <2>1 DEF Replace
  <2>5. BackupWasInForce'
    BY <1>9, <2>1 DEF Replace
  <2>6. TemporaryComplete' /\ CopyWasHeld' /\ ToInstall' /\ BackupInStep'
    BY <1>9 DEF Replace
  <2>7. QED
    BY <2>2, <2>3, <2>4, <2>5, <2>6
<1>10. CASE Return
  BY <1>10 DEF Return
<1>11. CASE OSError
  BY <1>11 DEF OSError
<1>12. CASE Crash
  BY <1>12 DEF Crash
<1>13. CASE \E content \in Whole : Foreign(content)
  <2>1. PICK content \in Whole : Foreign(content)
    BY <1>13
  <2>2. TypeOK'
    BY <2>1 DEF Foreign
  <2>3. TargetNeverTorn' /\ TargetHeld'
    BY <2>1 DEF Foreign
  <2>4. CopyWasHeld' /\ BackupWasInForce'
    \* held only grows.
    BY <2>1 DEF Foreign
  <2>5. BackupInStep' /\ BackupOfReplaced'
    \* The call is tampered with: neither claims anything.
    BY <2>1 DEF Foreign
  <2>6. TemporaryComplete' /\ ToInstall'
    BY <2>1 DEF Foreign
  <2>7. QED
    BY <2>2, <2>3, <2>4, <2>5, <2>6
<1>14. CASE UNCHANGED vars
  BY <1>14 DEF vars
<1>15. QED
  BY <1>1, <1>2, <1>3, <1>4, <1>5, <1>6, <1>7, <1>8, <1>9, <1>10, <1>11,
     <1>12, <1>13, <1>14 DEF Next

\* IInv holds in every state of every behaviour.
THEOREM Invariance == Spec => []IInv
<1>1. Init => IInv
  BY InitIInv
<1>2. IInv /\ [Next]_vars => IInv'
  BY StepIInv
<1>3. QED
  BY <1>1, <1>2, PTL DEF Spec

\* Every variable keeps its type.
THEOREM TypeCorrect == Spec => []TypeOK
<1>1. IInv => TypeOK
  BY DEF IInv
<1>2. QED
  BY <1>1, Invariance, PTL

\* Nobody ever reads a truncated or half-written configuration.yaml, whatever
\* fails and whenever the sidecar dies.
THEOREM NeverTorn == Spec => []TargetNeverTorn
<1>1. IInv => TargetNeverTorn
  BY DEF IInv
<1>2. QED
  BY <1>1, Invariance, PTL

\* A call that replaced a file undisturbed leaves it in the backup.
THEOREM BackupCorrect == Spec => []BackupOfReplaced
<1>1. IInv => BackupOfReplaced
  BY DEF IInv
<1>2. QED
  BY <1>1, Invariance, PTL

\* The backup is never a text that was not once in force.
THEOREM BackupWasHeld == Spec => []BackupWasInForce
<1>1. IInv => BackupWasInForce
  BY DEF IInv
<1>2. QED
  BY <1>1, Invariance, PTL

(***************************************************************************)
(* The refinement.                                                         *)
(***************************************************************************)

\* The initial states are initial states of the register.
LEMMA InitRefines == Init => Register!Init
BY StoreAssumption DEF StoreAssumption, Init, Whole, Register!Init

\* Every step is a step of the register or leaves it as it was: Hash decides that
\* a text is kept, Replace installs, Return answers, OSError fails before the
\* text is installed.
LEMMA StepRefines == IInv /\ IInv' /\ [Next]_vars => [Register!Next]_Register!vars
<1> SUFFICES ASSUME IInv, IInv', [Next]_vars
             PROVE [Register!Next]_Register!vars
  OBVIOUS
<1> USE DEF IInv, TypeOK, Steps, Goto, files, call, history,
        Register!Next, Register!vars
<1>1. CASE \E text \in Texts : Call(text)
  BY <1>1 DEF Call, Register!Call
<1>2. CASE Hash
  BY <1>2 DEF Hash, Register!Keep
<1>3. CASE Compare
  BY <1>3 DEF Compare
<1>4. CASE ReadTarget
  BY <1>4 DEF ReadTarget
<1>5. CASE OpenBackup
  BY <1>5 DEF OpenBackup
<1>6. CASE WriteBackup
  BY <1>6 DEF WriteBackup
<1>7. CASE OpenTemporary
  BY <1>7 DEF OpenTemporary
<1>8. CASE WriteTemporary
  BY <1>8 DEF WriteTemporary
<1>9. CASE Replace
  BY <1>9 DEF Replace, Register!Install, TemporaryComplete, ToInstall
<1>10. CASE Return
  BY <1>10 DEF Return, Register!Return
<1>11. CASE OSError
  BY <1>11 DEF OSError, Register!Fail, ToInstall
<1>12. CASE Crash
  BY <1>12 DEF Crash, Register!Lose
<1>13. CASE \E content \in Whole : Foreign(content)
  BY <1>13 DEF Foreign, Whole, Register!Foreign
<1>14. CASE UNCHANGED vars
  BY <1>14 DEF vars
<1>15. QED
  BY <1>1, <1>2, <1>3, <1>4, <1>5, <1>6, <1>7, <1>8, <1>9, <1>10, <1>11,
     <1>12, <1>13, <1>14 DEF Next

\* write_config_atomic implements the register that changes in one step.
THEOREM Refinement == Spec => ImplementsRegister
<1>1. Init => Register!Init
  BY InitRefines
<1>2. IInv /\ IInv' /\ [Next]_vars => [Register!Next]_Register!vars
  BY StepRefines
<1>3. QED
  BY <1>1, <1>2, Invariance, PTL DEF Spec, ImplementsRegister, Register!Spec
=============================================================================
