\* CHECK_DEADLOCK FALSE: a response that reached who asked, or a hop that failed, is the end.
CONSTANTS
    Requests <- MCRequests
    Foreign <- MCForeign
    Edits <- MCEdits
    Answers <- MCAnswers
    ForeignAnswers <- MCForeignAnswers
    Families = {"h1", "binary"}
    Authority = "here"
    MaxEdits = 1
    MaxHops = 2
    MaxDecoded = 8
SPECIFICATION Spec
INVARIANT SectionsTrue
PROPERTY Delivered
PROPERTY Readable
PROPERTY Carried
CHECK_DEADLOCK FALSE
