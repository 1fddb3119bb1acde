SPECIFICATION FairSpec
CONSTANTS
  Pkgs = {p1, p2}
  Calls = {c1}
  Handles = {h1, h2}
  Free = Free
  Pacman = Pacman
  NoCall = NoCall
  NoHandle = NoHandle
  Forms = {"good", "bad-digest", "malformed"}
  MaxRuns = 2
PROPERTIES CallerNeverHangs
