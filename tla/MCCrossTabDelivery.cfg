SPECIFICATION Spec
CONSTANTS
  t1 = t1
  t2 = t2
  a1 = a1
  v1 = v1
  v2 = v2
  s1 = s1
  Tab <- MCTab
  Area <- MCArea
  FirstSkipped = {}
  ForeignArea = {}
  ContextChecked = {}
  Value <- MCValue
  Default = v1
  Stamp = {s1}
  NoRaw = null
  Unreadable = unreadable
  NoConflict = noConflict
  NoUndo = noUndo
  Idle = idle
  Undoer = {t1}
  MaxEvents = 2
  Exclusive = TRUE
  QuietBoot = TRUE
PROPERTIES
  NoSilentOverwrite
  ExternalChangeSurfaces
