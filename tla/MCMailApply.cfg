\* Bulk apply meets a message that cannot be matched.
CONSTANTS
    Messages = {m1, m2}
    Folders = {src, dst, trash}
    Source = src
    Dest = dst
    Trash = trash
    Nowhere = nowhere
    Sessions = {s1}
    Startup = s1
    NoSession = nosession
    Ticker = tick
    Applies = {apply}
    Testers = {}
    MCPSeeders = {}
    WebSeeders = {}
    Nobody = nobody
    NoMessage = nomessage
    Outcomes <- MoveOrError
    BatchSizes = {2}
    ApplyLimit = 2
    MaxUID = 3
    UIDPlus = {TRUE, FALSE}
    HidesSeen = {TRUE}
    Fails = {FALSE}
SPECIFICATION FairSpec
PROPERTY ApplyEnds
