\* Two requests in flight, one address beside the administrator's, two invitations
\* and one more token to send one of them again.
SPECIFICATION Spec
CONSTANTS
    r1 = r1  r2 = r2  root = root  anna = anna
    Requests = {r1, r2}
    Addresses = {root, anna}
    Root = root
    MaxInvites = 2
    MaxTokens = 3
SYMMETRY Symmetry
INVARIANTS TypeOK OneWorkingLink AdminRemains AcceptedMadeAccount LettersKept
PROPERTY OverForGood
CHECK_DEADLOCK FALSE
