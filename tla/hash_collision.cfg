SPECIFICATION Spec
CONSTANTS
    h1 = h1
    h2 = h2
    Nil = Nil
    Bad = Bad
    Pods = {1, 2}
    Containers = {"a", "b"}
    GPUs = {0, 1}
    Present = {0, 1}
    Lists <- OneList
    Hashes = {"a"}
    Hash <- OneHash
    Percent = 2
    MaxLinks = 1
    Claims <- MixedPods
    Annotations <- OneEach
    PerDevice = TRUE
    Handlers <- MCHandlers
    Faults = {"collide"}
SYMMETRY HandlerSymmetry
INVARIANTS
    NoForeignGPU
CHECK_DEADLOCK FALSE
