CONSTANTS
    MaxFaults = 1
SPECIFICATION PackSpec
INVARIANT NoStuckBuild
