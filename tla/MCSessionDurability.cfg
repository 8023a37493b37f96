SPECIFICATION Spec
CONSTANTS
  a1 = a1
  v1 = v1
  v2 = v2
  Area = {a1}
  ContextChecked = {a1}
  Value = {v1, v2}
  Default = v1
  NoRaw = null
  Unreadable = unreadable
  Unusable = unusable
  NoAck = noAck
  NoUndo = noUndo
  NoOffer = noOffer
  External = {v1, v2, null, unreadable}
INVARIANTS
  TypeOK
  EditsAreProtected
PROPERTIES
  UnreadableIsKept
  ClearedStaysCleared
