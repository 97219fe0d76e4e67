SPECIFICATION Spec
CONSTANTS
    v1 = v1
    v2 = v2
    N = 4
    Regions = {1, 2}
    Data <- MCData
    Cookies = 5
    Coalesced = TRUE
    Timely = TRUE
INVARIANTS TypeOK CompletionMatches HeadInStep DmaOnRing
