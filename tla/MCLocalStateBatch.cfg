SPECIFICATION Spec
CONSTANTS
  k1 = k1
  k2 = k2
  k3 = k3
  Key <- MCKey
  Order <- MCOrder
  Raw = {r1, r2}
  NoRaw = null
INVARIANTS
  TypeOK
  WrittenHoldsTargets
  RolledBackExactly
  OldOrNew
PROPERTIES
  Returns
  ImplementsAtomicBatch
CHECK_DEADLOCK FALSE
