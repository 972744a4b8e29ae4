SPECIFICATION Spec
CONSTANTS
  a = a
  b = b
  u1 = u1
  u2 = u2
  first = first
  second = second
  Folder <- Folders
  Root <- Libraries
  RootOf <- Places
  Uid <- Uids
  MaxEvents = 3
SYMMETRY Alike
INVARIANTS StaleIsRefused KeySourceIsTheOnlyOne
CHECK_DEADLOCK FALSE
