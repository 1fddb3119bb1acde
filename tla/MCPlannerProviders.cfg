SPECIFICATION Spec
CONSTANTS
  a = a
  b = b
  c = c
  d = d
  x = x
  v1 = v1
  v2 = v2
  Unversioned = Unversioned
  NoName = NoName
  Names <- MCNames
  Virtuals <- MCVirtuals
  Versions <- MCVersions
  Worlds <- AmbiguousWorlds
  Requests <- MCRequests
CHECK_DEADLOCK FALSE
INVARIANTS FirstProviderIsHarmless
