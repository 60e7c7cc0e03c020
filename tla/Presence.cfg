CONSTANTS
    h1 = h1
    h2 = h2
    Handlers = {h1, h2}
    TTL = 2
    Threshold = 2
    Timeout = 7
    MaxDelay = 0
    MaxUpsets = 1
SPECIFICATION PresenceLiveSpec
PROPERTIES
    SweepSparesTheLive
    RunningBecomesActive
    GoneBecomesInactive
