SPECIFICATION Spec
CONSTANTS
  ed = ed
  view = view
  config = config
  launcher = launcher
  edName = edName
  viewName = viewName
  o1 = o1
  o2 = o2
  o3 = o3
  o4 = o4
  Nothing = Nothing
  NoScan = NoScan
  Paths <- MCPaths
  Layout <- MCLayout
  Precedes <- MCPrecedes
  Objects <- LauncherObjects
  Home <- LauncherHome
  Entries = {k1}
  Tokens <- MCTokens
  Apps <- MCApps
  Known <- MCKnown
  DesktopIds <- MCDesktopIds
  Package <- MCPackage
  Scans = {s1}
  Executions = {e1}
  ShowLow = FALSE
  MaxChanges = 3
CHECK_DEADLOCK FALSE
PROPERTIES ReplacedAndOthersIsSpared
