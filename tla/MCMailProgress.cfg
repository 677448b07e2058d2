\* Ticks and a reconnect, every kind of rule, both kinds of server.
CONSTANTS
    Messages = {m1, m2}
    Folders = {src, dst, trash}
    Source = src
    Dest = dst
    Trash = trash
    Nowhere = nowhere
    Sessions = {s1, s2}
    Startup = s1
    NoSession = nosession
    Ticker = tick
    Applies = {}
    Testers = {}
    MCPSeeders = {}
    WebSeeders = {}
    Nobody = nobody
    NoMessage = nomessage
    Outcomes <- AllOutcomes
    BatchSizes = {1, 2}
    ApplyLimit = 2
    MaxUID = 3
    UIDPlus = {TRUE, FALSE}
    HidesSeen = {TRUE, FALSE}
    Fails = {FALSE}
SPECIFICATION FairSpec
INVARIANT ActedOnce
PROPERTIES
    TickEnds
    SourceDrains
    EveryMessageChecked
