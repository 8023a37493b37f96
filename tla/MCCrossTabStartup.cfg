SPECIFICATION Spec
CONSTANTS
  t1 = t1
  t2 = t2
  a1 = a1
  v1 = v1
  v2 = v2
  s1 = s1
  Tab <- MCTab
  Area <- MCArea
  FirstSkipped = {}
  ForeignArea <- MCArea
  ContextChecked <- MCArea
  Value <- MCValue
  Default = v1
  Stamp = {s1}
  NoRaw = null
  Unreadable = unreadable
  NoConflict = noConflict
  NoUndo = noUndo
  Idle = idle
  Undoer = {}
  MaxEvents = 1
  Exclusive = TRUE
  QuietBoot = FALSE
PROPERTIES
  NoSilentOverwrite
