CONSTANTS
    Tasks = {t1, t2}
    Urls <- MCUrls
    Responses <- MCResponses
    Versions = {"tcp", "quic"}
    MaxEntries = 2
    MaxCookies = 2
    MaxPerDomain = 1
    Addresses <- MCAddresses
    Horizon = 8
    MaxClock = 2
    MaxFetches = 3
SYMMETRY Symmetry
SPECIFICATION Spec
INVARIANT Insistence
INVARIANT CookiesRight
PROPERTY KeptUntilFull
CHECK_DEADLOCK FALSE
