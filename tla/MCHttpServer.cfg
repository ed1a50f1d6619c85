CONSTANTS
    Conn = {c1, c2}
    NoConn = NoConn
    Backlog = 1
    HeaderLens = {1}
    BodyLens = {2}
    ContentLens <- MCContentLens
    RecvMax = 5
    MaxRequest = 6
    Addresses = {8, 60}
    W = 128
SPECIFICATION FairSpec
INVARIANTS OnePlaceEach AnsweredOnce  BodyIsFramed
PROPERTIES RequestsEnd StopEnds
