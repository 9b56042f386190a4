SPECIFICATION Spec
CONSTANTS
  Keys = {k1, k2}
  MaxAction = 1
  ActionTasks = {"read", "write"}
  MaxLen = 2
  MaxSteps = 1
  MaxOps = 3
INVARIANTS TypeOK MutexDiscipline KeysOwned FrameAligned
SYMMETRY Symmetry
