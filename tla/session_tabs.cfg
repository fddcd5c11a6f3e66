SPECIFICATION Spec
CONSTANTS
  None = None
  Apps = {"tenant", "platform"}
  Tabs = {t1, t2}
  Calls = {c1, c2}
  MaxSessions = 3
  MaxSignIns = 1
  MaxLoads = 1
SYMMETRY MCSymmetry
INVARIANTS
  SessionInv
  DeadKeyExplained
PROPERTIES
  StoresLiveKey
CHECK_DEADLOCK FALSE
