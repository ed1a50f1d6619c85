CONSTANTS
    ShortLen = 4
    StringLen = 4
    Texts <- MCTexts
SPECIFICATION ParseSpec
INVARIANTS  DecodedFits NothingLeaks 
