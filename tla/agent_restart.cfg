SPECIFICATION Spec
CONSTANTS
    h1 = h1
    h2 = h2
    Nil = Nil
    Bad = Bad
    Pods = {1}
    Containers = {"a", "b"}
    GPUs = {0, 1, 9}
    Present = {0, 1}
    Lists <- TwoLists
    Hashes = {"a", "b"}
    Hash <- TwoHash
    Percent = 2
    MaxLinks = 2
    Claims <- SharedPod
    Annotations <- Faulty
    PerDevice = TRUE
    Handlers <- MCHandlers
    Faults = {"crash", "timeout", "link", "list", "hook", "api", "mismatch"}
SYMMETRY HandlerSymmetry
INVARIANTS
    RunningRecorded
CHECK_DEADLOCK FALSE
