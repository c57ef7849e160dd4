\* Drivers with and without a limit of their own, two holders, two requests in flight.
SPECIFICATION Spec
CONSTANTS
    h1 = h1  h2 = h2  r1 = r1  r2 = r2
    nobody = nobody  still = still  left = left  up = up
    Holders = {h1, h2}
    Requests = {r1, r2}
    Directions = {left, up}
    Nobody = nobody
    Still = still
    Drivers = {"axis", "hikvision"}
    MoveTicks = 1
    HoldTicks = 4
    RequestTicks = 2
    MaxSent = 5
    MaxMishaps = 2
SYMMETRY Symmetry
INVARIANTS TypeOK StopsInTime LockMeansControl
CHECK_DEADLOCK FALSE
