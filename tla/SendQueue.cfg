SPECIFICATION FairSpec
CONSTANTS
    Sends = {s1, s2}
    Kinds <- AllKinds
    Workers = 1
    MaxPanics = 1
INVARIANTS AnswerIsTrue GivenUpNotSent FreedAfterLastSend
PROPERTIES DroppedNotSent EverySendAnswered InstanceFreed
CHECK_DEADLOCK FALSE
