SPECIFICATION Spec
CONSTANTS
    Invocations <- MCInvocations
    TopicPartitions = 3
    QueueLimit = 2
    Crc32 <- MCCrc32
    Partitioner <- MCPartitioner
INVARIANTS
    HotLineIsObserved
CHECK_DEADLOCK FALSE
