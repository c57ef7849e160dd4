\* A Dahua camera that takes every command at once or a tick later, one that never fails.
SPECIFICATION Spec
CONSTANTS
    h1 = h1  h2 = h2  r1 = r1  r2 = r2
    nobody = nobody  still = still  left = left  up = up
    Holders = {h1, h2}
    Requests = {r1, r2}
    Directions = {left, up}
    Nobody = nobody
    Still = still
    Drivers = {"dahua"}
    MoveTicks = 1
    HoldTicks = 3
    RequestTicks = 1
    MaxSent = 4
    MaxMishaps = 0
SYMMETRY Symmetry
INVARIANTS StopsInTime
CHECK_DEADLOCK FALSE
