\* One file, two failures, room for one report.
SPECIFICATION FairSpec
CONSTANTS
    Files = {f1}
    Servers = {s1}
    QueCap = 2
    RepCap = 1
    MaxFault = 2
PROPERTIES
    Arrives
    Linked
CHECK_DEADLOCK FALSE
