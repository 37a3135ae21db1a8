\* Two devices that are keyboards, mice and touchscreens at once, as far as their events go.
CONSTANTS
  d1 = d1
  d2 = d2
  l1 = l1
  l2 = l2
  gone = gone
  Udev <- MCUdev
  Environment <- MCEnvironment
  Device = {d1, d2}
  Key = {k}
  Slot = {i}
  Width = 2
  Height = 1
  Delta <- MCDelta
  Absolute <- MCAbsolute
  MAX_DEVICES = 2
  MaxStray = 2
  NULL = NULL
SPECIFICATION Spec
CONSTRAINT Followed
CHECK_DEADLOCK FALSE
INVARIANTS
  DevicesChosen
  KeysAgree
  TouchesAgree
PROPERTY StaysOnScreen
