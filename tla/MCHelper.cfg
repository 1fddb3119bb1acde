SPECIFICATION FairSpec
CONSTANTS
  Pkgs = {p1, p2}
  Calls = {c1, c2}
  Handles = {h1, h2, h3}
  Free = Free
  Pacman = Pacman
  NoCall = NoCall
  NoHandle = NoHandle
  Forms = {"good", "bad-digest", "malformed"}
  MaxRuns = 2
INVARIANTS
  TypeOK
  LockHeldExactlyInTransaction
  TransactionFieldIsLive
  CurrentHandleIsFresh
  OnlySharingHidesErrors
PROPERTIES
  ImplementsContract
  AnsweredIfHeard
VIEW LiveState
