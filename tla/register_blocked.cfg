SPECIFICATION FairSpec
CONSTANT MaxKubeletStarts = 2
PROPERTY
    EventuallyRegistered
CHECK_DEADLOCK FALSE
