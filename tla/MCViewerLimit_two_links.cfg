\* Two links on one camera, each with a limit of one: l1 has a password that only one
\* of the two viewers knows, though both were sent it; the other one works the panel.
SPECIFICATION LimitSpec
CONSTANTS
    v1 = v1  v2 = v2  l1 = l1  l2 = l2  c1 = c1  c2 = c2  home = home  away = away
    Viewers = {v1, v2}
    Links = {l1, l2}
    Cameras = {c1}
    Addresses = {home}
    None = None
    Operator = Operator
    LinkCamera <- OneCamera
    MaxConcurrent <- LimitOne
    AllowedFrom <- HomeOnly
    PasswordLinks = {l1}
    Invited <- Everyone
    Informed = {}
    PasswordKnown = {v1}
    Operators = {v2}
    ViewTtl = 1
    OperatorTtl = 1
    CacheTtl = 1
    NegativeTtl = 1
    RequestTicks = 0
    PanelOps = {}
    MtxFails = FALSE
    MaxSessions = 0
    MaxRotations = 0
    MaxToggles = 0
INVARIANTS GrantOnlyToInvited LimitKept
CHECK_DEADLOCK FALSE
