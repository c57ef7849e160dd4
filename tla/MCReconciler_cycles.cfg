\* Two cameras, one of which cannot be decrypted at first, two requests of the panel in
\* flight, two edits or diagnoses, and two requests that fail or processes that restart.
SPECIFICATION FairSpec
CONSTANTS
    c1 = c1  c2 = c2  h1 = h1  h2 = h2
    Cameras = {c1, c2}
    Handlers = {h1, h2}
    Unreadable = {c2}
    Repushing = TRUE
    MaxEdits = 2
    MaxMishaps = 2
INVARIANTS TypeOK PathsFollowRows
PROPERTY Converges
CHECK_DEADLOCK FALSE
