SPECIFICATION FairSpec
CONSTANTS
    Worker = {w1, w2}
    s1 = s1
    s2 = s2
    s3 = s3
    Shard = {s1, s2, s3}
    shards <- MCShards
    num_workers = 2
    max_epochs = 2
    Nil = Nil
    MaxFaults = 2
    MaxCrashes = 1
CHECK_DEADLOCK FALSE
INVARIANTS
    StepAtCurrentWeights
    StepCoversShards
PROPERTY
    TrainingCompletes
