SPECIFICATION Spec
CONSTANTS
    s1 = s1
    p1 = p1
    p2 = p2
    p3 = p3
    noPid = noPid
    NoPid <- noPid
    Shells <- OneShell
    Pids <- ThreePids
    Polls = 2
    HasLsof = TRUE
INVARIANTS
    TypeOK
    AgentsAreFindable
PROPERTIES
    ReadyIsTrue
