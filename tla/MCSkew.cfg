SPECIFICATION FairSpec
CONSTANTS
    Invocations <- MCInvocations
    TopicPartitions = 3
    QueueLimit = 2
    Crc32 <- MCCrc32
    Partitioner <- MCPartitioner
INVARIANTS
    TypeOK
    ObservationsAreTrue
    ReportIsTheTopic
    HotKeyIsNotSplit
PROPERTIES
    Terminates
CHECK_DEADLOCK FALSE
