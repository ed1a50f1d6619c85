CONSTANTS
    Routes = {chat, malformed}
    Malformed = malformed
    HeaderLens = {1, 3}
    BodyLens = {0, 2, 3, 5}
    ContentLens <- MCContentLens
    RecvMax = 3
    MaxRequest = 8
    Addresses = {8, 60}
    W = 128
SPECIFICATION Spec
INVARIANT BodyIntoRaw
