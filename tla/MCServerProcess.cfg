SPECIFICATION FairSpec
CONSTANTS
    Workers = {w1, w2}
    Descriptors = {1, 2}
    c1 = c1
    c2 = c2
    c3 = c3
    Clients = {c1, c2, c3}
    NoClient = NoClient
    MaxBody = 1
    HeadRoom = 2
    Chunk = 2
    Requests <- SampleRequests
INVARIANTS
    TypeOK
    DescriptorsOwned
    AnswerFitsRequest
PROPERTIES
    RequestsEnd
    ExitFollows
CHECK_DEADLOCK FALSE
