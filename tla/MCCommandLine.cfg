SPECIFICATION FairSpec
CONSTANTS
  a = a
  b = b
  c = c
  x = x
  y = y
  v = v
  c1 = c1
  c2 = c2
  Unversioned = Unversioned
  NoName = NoName
  Names <- MCNames
  Virtuals <- MCVirtuals
  Versions = {v}
  World <- MCWorld
  Commands = {c1, c2}
  Lines <- MCLines
  Free = Free
  Pacman = Pacman
  MaxNames = 1
  MaxPacman = 1
CHECK_DEADLOCK FALSE
INVARIANTS TypeOK SentAsPrinted ZeroMeansRemoved OnlyLateOrLongRepliesHideSuccess LossesWerePrinted OnlyProvidedNamesAreUncaught
PROPERTIES CommandsEnd
