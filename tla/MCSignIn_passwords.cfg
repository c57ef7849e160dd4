\* Two requests at a time; windows, locks and links that end within the time.
SPECIFICATION Spec
CONSTANTS
    Limit = 1
    Window = 2
    MaxTime = 4
    r1 = r1
    r2 = r2
    Requests = {r1, r2}
    MaxFailed = 2
    LockTime = 2
    LinkTime = 2
    OldHash = TRUE
    MaxChanges = 1
    MaxLinks = 2
SYMMETRY Symmetry
INVARIANTS TypeOK TwiceAtMost PasswordStays OneWorkingReset
PROPERTY LockStands
CHECK_DEADLOCK FALSE
