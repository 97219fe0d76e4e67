SPECIFICATION Spec
CONSTANTS
    v1 = v1
    v2 = v2
    N = 2
    Regions = {1, 2}
    Data <- OneDatum
    Cookies = 2
    Coalesced = TRUE
    Timely = FALSE
INVARIANTS CompletionMatches
