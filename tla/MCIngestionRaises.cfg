SPECIFICATION FairSpec
CONSTANTS
    Texts <- MCTexts
    Records <- MCRaising
    TopicLength = 2
    MaxCrashes = 1
PROPERTIES
    EveryRecordAnswered
CHECK_DEADLOCK FALSE
