SPECIFICATION Spec
CONSTANTS
    a1 = a1
    a2 = a2
    NoAgent = NoAgent
    Agents <- MCAgents
    Pods = {1, 2}
    Links <- OneEach
    Memory <- TwoCards
    Kilo = 2
    Percent = 2
    Faults = {"query"}
INVARIANTS
    AllResourcesOffered
CHECK_DEADLOCK FALSE
