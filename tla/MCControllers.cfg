SPECIFICATION PartsSpec
CONSTANTS
  f1 = f1
  f2 = f2
  f3 = f3
  i1 = i1
  i2 = i2
  w1 = w1
  w2 = w2
  v1 = v1
  v2 = v2
  v3 = v3
  Form = {f1, f2, f3}
  Inputs = {i1, i2}
  Task = {w1, w2}
  NoForm = noForm
  NoTask = noTask
  NoSource = noSource
  NoContext = noContext
  PaneInputs = {i1, i2, i3}
  Value = {v1, v2}
  Default = v1
  NoRaw = null
  Unreadable = unreadable
  NoRequest = noRequest
  NoRecord = noRecord
  MaxEvents = 1
  ImportValue = {v1, v2, v3}
  Kinds = {"setup", "duel", "workspace"}
  MaxAttempts = 2
  MaxApplies = 2
  NoReview = noReview
  NothingToUndo = nothing
INVARIANTS
  PartsTypeOK
  OneWorker
  BuildingHasTask
  SlotBuildingHasTask
  LatestReview
  AppliedOnce
PROPERTIES
  StoredIsCurrent
  CurrentInputsAreAnswered
  ImplementsLatestAnswer
  BuildingEnds
  UndoIsOfLastChange
  UnknownIsKept
  SkipIsForItsChange
