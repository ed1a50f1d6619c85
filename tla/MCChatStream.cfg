CONSTANTS
    Byte <- MCByte
    Pieces <- MCPieces
    StopLists <- MCStopLists
    MaxStop = 3
    Ctx = 6
    MaxTokens = 4
SPECIFICATION FairSpec
INVARIANTS NothingToTakeBack  StreamInv ReplyArrives ContextBound
 
