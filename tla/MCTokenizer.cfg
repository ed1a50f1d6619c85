CONSTANTS
    Letters = {"s", "r", "e"}
    Digits = {"1"}
    Marks = {"'", "<", ">"}
    Blanks = {" "}
    Newlines = {"nl"}
    Space = " "
    Quote = "'"
    Contractions <- MCContractions
    Specials <- MCSpecials
    Merges <- MCMerges
    SymCap = 4
    MaxText = 5
    MinCap = 4
    Hash <- MCHash
    HashIds <- MCHashIds
    SpBytes <- MCSpBytes
    Lead <- MCLead
    Pieces <- MCPieces
    MaxSpText = 4
SPECIFICATION TSpec
INVARIANTS NothingIsLost PiecesFollowExpression MergesAreBpe SpecialsBehindBoundaries
INVARIANTS MapIsDictionary TextComesBack
