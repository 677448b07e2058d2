\* Two rule forms and crashes; a form with enable_rule, the MCP tools, and a form
\* with an import and a tick.  Rule trees, lists of rules and schedules.
CONSTANTS
    Web = {w1, w2}
    Mcp = {m1}
    Enablers = {e1}
    Importers = {i1}
    Ticks = {t1}
    Names = {a, b}
    CatchAll = catchall
    Forms <- FormsOf
    MaxId = 3
    MaxGid = 2
    Setups <- AllSetups
    Layers <- AllLayers
    Cases <- AllCases
    Week = 3
    DayLength = 4
    Block = 2
    MaxDepth = 2
    MaxConditions = 3
    Refused <- Malformed
SPECIFICATION RulesSpec
SYMMETRY Symmetry
INVARIANTS
    StoreTypeOK
    CatchAllCatches
    ListedRulesComplete
    TypeOK
    ScheduleCovers
    FirstMatchWins
    FetchedOnce
    CapturesAreTheRules
    TestAgrees
    LoadInvertsSave
    RestoreKeepsMeaning
CHECK_DEADLOCK FALSE
