SPECIFICATION Spec
CONSTANTS
    Texts = {t1, t2, t3}
    Absent = Absent
    Torn = Torn
    MaxForeign = 2
INVARIANTS
    TypeOK
    TargetNeverTorn
    BackupOfReplaced
    BackupWasInForce
PROPERTIES
    ImplementsRegister
