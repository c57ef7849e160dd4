\* Three cameras, one of them unreadable, in batches of two; one request at a time
\* beside the worker, which may fail or be restarted once.
SPECIFICATION Spec
CONSTANTS
    r1 = r1  r2 = r2
    MaxCameras = 3
    Lost = {1}
    Requests = {r1}
    Limit = 2
    Down = {2}
    MaxEdits = 1
    MaxMishaps = 1
INVARIANTS TypeOK ProbeOfItsUrl MetaOfItsSettings
PROPERTY EventuallyProbed
CHECK_DEADLOCK FALSE
