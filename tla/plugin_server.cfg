SPECIFICATION FairSpec
CONSTANT MaxKubeletStarts = 4
INVARIANTS
    TypeOK
    QuietMeansRegistered
PROPERTY
    RegisteredUnlessBlocked
CHECK_DEADLOCK FALSE
