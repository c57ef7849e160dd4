\* One sign-in and one reset of the password.
SPECIFICATION Spec
CONSTANTS
    r1 = r1  r2 = r2  e1 = e1  e2 = e2
    Requests = {r1}
    Endings = {e1}
    SessionTtl = 1
    RememberTtl = 0
    CliUsed = FALSE
    MaxSids = 1
    MaxPasswords = 1
INVARIANT ResetEndsSessions
CHECK_DEADLOCK FALSE
