\* Two toplevels of one client and a surface of a second client that may use wl_shell.
CONSTANTS
  c1 = c1
  c2 = c2
  s1 = s1
  s2 = s2
  s3 = s3
  Client = {c1, c2}
  Surface = {s1, s2, s3}
  Owner <- MCOwner
  Id <- MCId
  WlShell = {s3}
  Restless = {s2}
  sfc_fullscreen = TRUE
  MaxIdle = 1
  NULL = NULL
SPECIFICATION FairSpec
CHECK_DEADLOCK FALSE
INVARIANTS
  FocusValid
  FocusedIsActivated
  ConfiguredAfterBatch
  IdleTasksBounded
PROPERTIES
  InitialCommitAnswered
  StackingImplemented
