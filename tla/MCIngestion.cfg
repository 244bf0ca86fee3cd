SPECIFICATION FairSpec
CONSTANTS
    Texts <- MCTexts
    Records <- MCRecords
    TopicLength = 2
    MaxCrashes = 1
INVARIANTS
    TypeOK
    CommittedIsAnswered
    LaterChecksPass
    ProducedIsValid
PROPERTIES
    HandledTopicIsAnswered
CHECK_DEADLOCK FALSE
