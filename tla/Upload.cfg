\* Two files for two servers, one failure.
SPECIFICATION Spec
CONSTANTS
    Files = {f1, f2}
    Servers = {s1, s2}
    QueCap = 1
    RepCap = 1
    MaxFault = 1
INVARIANTS
    NotForgotten
    ListAgrees
    ReportsToOpen
    ReportTrue
CHECK_DEADLOCK FALSE
