CONSTANTS
  MaxConns = 2
  Backlog = 2
  Handles = {"web", "ui"}
  Keys = {1, 2}
  Values = {1, 12}
  Steps = 2
  MaxCommands = 2
  Lines = {"touch"}
  Levels = {"wifi"}
  WebHandle = "web"
  UiHandle = "ui"
  WebKey = 1
  UiKey = 2
SPECIFICATION Spec
CHECK_DEADLOCK FALSE
INVARIANTS
  TypeOK
  ReportedIsDone
  StoredSurvives

