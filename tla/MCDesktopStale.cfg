SPECIFICATION Spec
CONSTANTS
  a = a
  b = b
  c = c
  d = d
  v = v
  Unversioned = Unversioned
  NoName = NoName
  Names <- SharedNames
  Virtuals = {}
  Versions = {v}
  World <- SharedWorld
  Removals = {r1}
  Boot = Boot
  NoRemoval = NoRemoval
  Free = Free
  Pacman = Pacman
  MaxPacman = 1
CHECK_DEADLOCK FALSE
PROPERTIES NeverApproveAExecuteB
