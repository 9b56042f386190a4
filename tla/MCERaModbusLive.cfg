SPECIFICATION FairSpec
CONSTANTS
  Keys = {k1}
  MaxAction = 1
  ActionTasks = {"write"}
  MaxLen = 1
  MaxSteps = 1
  MaxOps = 2
PROPERTIES ActionsDrain CommandReturns WriteAllEnds
