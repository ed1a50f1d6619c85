CONSTANTS
    N = 3
    MaxWindow = 3
    Logits <- MCLogits
    Penalties <- MCPenalties
    Filters <- MCFilters
    MinPs = {0, 40}
    Exp <- MCExp
    MaxDrop = 11
    Foreign = {7}
    Junk = junk
SPECIFICATION Spec
INVARIANTS PrefixIsValid PenaltiesFollowWindow KeptIsHead
PROPERTIES RingIsWindow DrawPasses
