CONSTANTS
  Ids = {i1, i2, i3}
  None = None
SPECIFICATION Spec
SYMMETRY IdSymmetry
INVARIANTS NothingDangles FailureRestores InstallShows
