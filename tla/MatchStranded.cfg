SPECIFICATION FairSpec
CONSTANTS
    Host = h
    Guests = {g1}
CHECK_DEADLOCK FALSE
PROPERTIES CancelledCanQueueAgain
