\* Two requests in flight, two runs that end sessions, remembered and ordinary
\* sessions, with and without a second factor.
SPECIFICATION Spec
CONSTANTS
    r1 = r1  r2 = r2  e1 = e1  e2 = e2
    Requests = {r1, r2}
    Endings = {e1}
    SessionTtl = 1
    RememberTtl = 2
    CliUsed = TRUE
    MaxSids = 2
    MaxPasswords = 1
SYMMETRY Symmetry
INVARIANTS TypeOK IndexOutlives EndingsEnd LifetimeBounded
PROPERTY OverForGood
CHECK_DEADLOCK FALSE
