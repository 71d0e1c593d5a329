SPECIFICATION WebSpec
CONSTANTS
    Others = {}
    ApproveCount = 1
    DisableRetry = FALSE
    MaxCommands = 1
    MaxAsks = 2
    Names = 4
    Gets = {"git", "img"}
    Pipelines <- MCPipelines
    MaxVersion = 4
    VersionPage = 2
    Pinnable = {3}
    MaxFetches = 3
    MaxRenders = 3
    MinZoom = 1
    MaxZoom = 2
    Places = {0, 1}
    MaxEdits = 3
    Invalid = {1}
    MaxPreviews = 3
    EditorPanels = {"docs"}
    Tabs = {t1, t2}
    MustChange = TRUE
    MaxGen = 1
    MaxCalls = 2
    Searches = {"all", "word"}
    NoSearch = "all"
    Matching <- MCMatching
    GridPage = 2
    MaxGridReqs = 2
    MaxGridEdits = 1
    GridLinks <- MCGridLinks
    EntryNames = {"x", "y"}
    TeamEntries = {"x"}
    StartEntries = {{}, {"x", "y"}}
    MaxAdmin = 2
    MaxChanges = 2
INVARIANTS
    WebTypeOK
    ContentSettled
    RowsOnce
    VersionsWhole
    GraphKept
    PreviewCurrent
    SessionSound
    GridCurrent
    AdminListTrue
