\* Turns of three events each; a queue that holds two.
SPECIFICATION TraceFairSpec
CONSTANTS
    m1 = m1
    m2 = m2
    v1 = v1
    v2 = v2
    Messages <- MCMessages
    Ends <- MCEnds
    Viewers <- MCViewers
    Steps = 1
    QueueSize = 2
INVARIANTS TraceIsFaithful SessionFollowsTurns
PROPERTIES MessagesAnswered
CHECK_DEADLOCK FALSE
