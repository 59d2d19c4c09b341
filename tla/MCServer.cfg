CONSTANTS
    Streams = {"s1"}
    Plains = {"p1"}
    Wipes = {"w1"}
    MaxTokens = 2
SPECIFICATION FairSpec
INVARIANTS
    WipedIsGone
    ServedAloneAndWhole
PROPERTIES
    EveryRequestEnds
CHECK_DEADLOCK FALSE
