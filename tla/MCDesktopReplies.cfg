SPECIFICATION Spec
CONSTANTS
  a = a
  b = b
  c = c
  d = d
  v = v
  Unversioned = Unversioned
  NoName = NoName
  Names <- PairNames
  Virtuals = {}
  Versions = {v}
  World <- PairWorld
  Removals = {r1, r2}
  Boot = Boot
  NoRemoval = NoRemoval
  Free = Free
  Pacman = Pacman
  MaxPacman = 0
CHECK_DEADLOCK FALSE
INVARIANTS RepliesReachTheirRemoval
