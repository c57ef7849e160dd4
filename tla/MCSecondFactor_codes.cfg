\* Two requests at a time; a step is forgotten within the time.
SPECIFICATION Spec
CONSTANTS
    MaxTime = 4
    r1 = r1
    r2 = r2
    Requests = {r1, r2}
    MaxUses = 2
    MaxSecrets = 2
    MaxSets = 2
SYMMETRY Symmetry
INVARIANTS TypeOK SecretIsProven RecoveryBounded FactorWhole
PROPERTY OnlyOnce
CHECK_DEADLOCK FALSE
