SPECIFICATION FairSpec
CONSTANTS
    Servers = {"fetch", "filesystem"}
    Enabled <- MCEnabled
    MaxStarts = 2
INVARIANTS
    TypeOK
    NoOrphans
    StopEndsEverything
    ServesEveryServer
    ToolsAreLive
PROPERTY
    StopCompletes
