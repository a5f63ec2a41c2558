SPECIFICATION Spec
CONSTANTS
    Keys = {k1, k2}
    Callers = {c1, c2}
    MaxCrashes = 1
    MaxPowerLosses = 1
INVARIANTS TypeOK NeverTorn PutSurvives
PROPERTIES ImplementsStore
