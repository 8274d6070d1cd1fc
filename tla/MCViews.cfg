INIT Init
NEXT Next
CONSTANTS
  None = None
  Views = {"diff", "cache", "table-compare", "workspace", "files", "editor", "terminal",
           "sidebar", "rows", "edits", "pages", "transfer", "console",
           "structure"}
  Openable <- MCOpenable
  Broken <- MCBroken
  MaxTabs = 3
  MaxActs = 3
  BoxSizes = {0, 1}
  MaxGens = 3
  MaxTyped = 1
  Formats = {"csv", "sql"}
  Files = {"f", "h"}
  LargeFiles = {"h"}
  Scopes = {"all", "page"}
  MaxDialogs = 2
  Statements = {"s"}
  Placeholder = "placeholder"
  Empty = ""
  DriverAnswers <- MCAnswers
  CanExplain = TRUE
  MaxHistory = 1
  MaxRuns = 2
  MinWidth = 2
  MaxWidth = 4
  WorkspaceWidth = 3
  DefaultWidth = 3
  RailWidth = 1
  Viewports = {4, 6}
INVARIANTS
  
  TabsAgree
  RemoteViewsAgree
  
  ImportsAreShown
  ResultsAreInOrder
PROPERTIES
  DeletesWhatWasAsked
  UnsavedTabsStay
  
CHECK_DEADLOCK FALSE
