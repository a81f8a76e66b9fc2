SPECIFICATION FairSpec
CONSTANTS
    a1 = a1
    a2 = a2
    NoAgent = NoAgent
    Agents <- OneAgentAtATime
    Pods = {1, 2}
    Links <- TwoAndOne
    Memory <- TwoCards
    Kilo = 2
    Percent = 2
    Faults = {"drop"}
PROPERTIES
    EventsSuffice
    CollectedUnlessHeadless
CHECK_DEADLOCK FALSE
