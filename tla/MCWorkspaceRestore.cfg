SPECIFICATION Spec
CONSTANTS
  Kinds = {"workspace"}
  Value = {v1, v2, v3}
  MaxAttempts = 1
  MaxApplies = 1
  NoReview = noReview
  NothingToUndo = nothing
INVARIANT
  WorkspaceUndoIsComplete
