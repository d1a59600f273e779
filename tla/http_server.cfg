SPECIFICATION FairSpec
CONSTANTS
    Clients = {1, 2}
    Requests <- McRequests
    None = None
    Backlog = 2
INVARIANTS TypeOK AnswerReachesClient FreezeIsCurrent
PROPERTIES Served
