CONSTANTS
  a = a  b = b
  s1 = s1  s2 = s2  s3 = s3
  Client = {a, b}
  Surface = {s1, s2, s3}
  Owner <- MCOwner
  Orderly = {a}
  Wants <- MCWants
  WantsOfA = {"pointer", "keyboard", "touch"}
  WantsOfB = {"keyboard"}
  NULL = NULL
SPECIFICATION Spec
CONSTRAINT Defined
CHECK_DEADLOCK FALSE
INVARIANTS
  CallbackSound
  MotionWhereEntered
  KeyAfterEnter
  ModifiersTold
