SPECIFICATION Spec
CONSTANTS Packages = {1, 2, 3} Shapes <- MCShapes Versions <- MCVersions
  BumpTypes = {"minor", "patch"} MaxRuns = 2
CHECK_DEADLOCK FALSE
INVARIANT ChangesWritten
