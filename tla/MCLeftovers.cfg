SPECIFICATION Spec
CONSTANTS
  a = a
  b = b
  c = c
  Apps <- MCApps
  Words <- MCWords
  Lower <- MCLower
  Worlds <- MCWorlds
CHECK_DEADLOCK FALSE
INVARIANTS
  TypeOK
  OnlyGapsInSharing
  OnlyEntryDirectoriesHoldOthers
  VetoesAreMonotone
