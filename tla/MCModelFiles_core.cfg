\* One file; two messages and two downloads at a time; edge-main restarts.
CONSTANTS
  f1 = f1
  f2 = f2
  u1 = u1
  u2 = u2
  r1 = r1
  r2 = r2
  d1 = d1
  d2 = d2
  None = None
  Files = {f1}
  Uuids = {u1}
  UuidOf <- MCUuidOf
  Reqs = {r1, r2}
  Downloads = {d1, d2}
  Asked = {"update", "effect", "deleteTemp", "deleteAll", "deleteBoth", "clear"}
  MaxVersion = 2
  MaxFailReport = 1
  EventBuffer = 1
  MaxMessages = 3
  MaxSyncs = 2
  MayRestart = TRUE
SPECIFICATION FairSpec
INVARIANTS
  TypeOK
  FilesAreWhole
  FileHasOneUser
PROPERTIES
  RestartKeepsActivated
  DownloadEnds
