\* A dashboard seeding during a tick.
CONSTANTS
    Messages = {m1, m2}
    Folders = {src, dst, trash}
    Source = src
    Dest = dst
    Trash = trash
    Nowhere = nowhere
    Sessions = {s1}
    Startup = s1
    NoSession = nosession
    Ticker = tick
    Applies = {}
    Testers = {}
    MCPSeeders = {}
    WebSeeders = {seed}
    Nobody = nobody
    NoMessage = nomessage
    Outcomes <- FewOutcomes
    BatchSizes = {2}
    ApplyLimit = 2
    MaxUID = 3
    UIDPlus = {TRUE, FALSE}
    HidesSeen = {FALSE}
    Fails = {FALSE}
SPECIFICATION Spec
INVARIANT NoStrays
