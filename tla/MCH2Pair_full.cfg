SPECIFICATION Spec
CONSTANTS
    Endpoints <- Ends
    IsClient <- Roles
    MaxConcurrent <- Two
    MaxBody = 5
    MaxMessage = 8
    MaxBuffered = 8
    MaxPrematureResets = 3
    MaxIdleFrames = 5
    MaxHeaderCount = 2
    InitialWindow = 2
    MaximumWindow = 4
    MaxFrame = 1
    Asked <- Uploads
    Answer <- LongAnswer
    MaxResets = 1
INVARIANT Intact
INVARIANT CreditConserved
INVARIANT NoFalseAlarm
INVARIANT StreamsAgree
PROPERTY AllAnswered
