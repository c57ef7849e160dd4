\* One link and one browser, every way a link can die, a new address, a media
\* server that may fail, and handlers that last as long as a cached verdict; the browser
\* has the link's address and, in the panel, an operator's account.
SPECIFICATION Spec
CONSTANTS
    v1 = v1  v2 = v2  l1 = l1  l2 = l2  c1 = c1  c2 = c2  home = home  away = away
    Viewers = {v1}
    Links = {l1}
    Cameras = {c1}
    Addresses = {home}
    None = None
    Operator = Operator
    LinkCamera <- OneCamera
    MaxConcurrent <- LimitOne
    AllowedFrom <- HomeOnly
    PasswordLinks = {}
    Invited <- Everyone
    Informed = {}
    PasswordKnown = {}
    Operators = {v1}
    ViewTtl = 2
    OperatorTtl = 1
    CacheTtl = 1
    NegativeTtl = 1
    RequestTicks = 1
    PanelOps = {"revoke", "linkDelete", "cameraDelete", "cameraDisable", "cameraEnable", "rotate"}
    MtxFails = TRUE
    MaxSessions = 1
    MaxRotations = 1
    MaxToggles = 1
INVARIANTS TypeOK StaleVerdictBounded LateGrantBounded
PROPERTY WatchedByRight
CHECK_DEADLOCK FALSE
