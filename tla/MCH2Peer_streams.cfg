SPECIFICATION Spec
CONSTANTS
    Endpoints <- Either
    IsClient <- AsEither
    MaxConcurrent <- Two
    MaxBody = 2
    MaxMessage = 3
    MaxBuffered = 2
    MaxPrematureResets = 1
    MaxIdleFrames = 1
    MaxHeaderCount = 1
    InitialWindow = 2
    MaximumWindow = 3
    MaxFrame = 2
    Frames <- EitherFrames
    Messages <- EitherMessages
    MaxStreams = 3
INVARIANT NeverReopened
PROPERTY SilentOnceGone
CHECK_DEADLOCK FALSE
