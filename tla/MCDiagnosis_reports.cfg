\* One codec of every kind, and one edit of the camera.
SPECIFICATION DiagnosisSpec
CONSTANTS
    Videos = {"h264", "vp9", "hevc", "mjpeg"}
    Audios = {"aac"}
    MaxChanges = 1
INVARIANTS GreenMeansServed NeverNeedless
PROPERTY PathFollows
CHECK_DEADLOCK FALSE
