SPECIFICATION Spec
CONSTANTS
  ed = ed
  view = view
  config = config
  launcher = launcher
  edName = edName
  viewName = viewName
  o1 = o1
  o2 = o2
  o3 = o3
  o4 = o4
  Nothing = Nothing
  NoScan = NoScan
  Paths <- MCPaths
  Layout <- MCLayout
  Precedes <- MCPrecedes
  Objects <- MCObjects
  Home <- MCHome
  Entries = {k1}
  Tokens <- MCTokens
  Apps <- MCApps
  Known <- MCKnown
  DesktopIds <- MCDesktopIds
  Package <- MCPackage
  Scans = {s1, s2}
  Executions = {e1, e2}
  ShowLow = FALSE
  MaxChanges = 1
CHECK_DEADLOCK FALSE
INVARIANTS TypeOK OnlyCheckedAreTouched OnlyUnseenAreHurt TouchesAreReported QuarantineLosesNothing UnlistedIsAtHandOrFailed
SYMMETRY Sym
VIEW LiveState
