\* Locked operations on one session, every command allowed to fail.
CONSTANTS
    Messages = {m1, m2}
    Folders = {src, dst, trash}
    Source = src
    Dest = dst
    Trash = trash
    Nowhere = nowhere
    Sessions = {s1}
    Startup = s1
    NoSession = nosession
    Ticker = tick
    Applies = {apply}
    Testers = {h}
    MCPSeeders = {h}
    WebSeeders = {}
    Nobody = nobody
    NoMessage = nomessage
    Outcomes <- FewOutcomes
    BatchSizes = {2}
    ApplyLimit = 1
    MaxUID = 3
    UIDPlus = {TRUE, FALSE}
    HidesSeen = {FALSE}
    Fails = {TRUE}
SPECIFICATION Spec
SYMMETRY Symmetry
INVARIANTS
    TypeOK
    LockHeld
    NoStrays
