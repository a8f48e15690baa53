CONSTANTS
    c1 = c1
    c2 = c2
    Calls <- MCCalls
SPECIFICATION HttpFairSpec
INVARIANTS SentMeansAnswered EndIsComplete
PROPERTIES AnswerResolvesCall IteratorComesToEnd
CHECK_DEADLOCK FALSE
