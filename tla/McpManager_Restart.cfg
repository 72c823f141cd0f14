SPECIFICATION Spec
CONSTANTS
    Servers = {"fetch", "filesystem"}
    Enabled <- MCEnabled
    MaxStarts = 2
INVARIANT
    StartedMeansRunning
