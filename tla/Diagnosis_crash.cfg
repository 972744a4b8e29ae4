SPECIFICATION Spec
CONSTANTS
  Tags <- FewTags
  Ports = {"AUTO"}
  Versions = {"match"}
  CheckSets <- MCCheckSets
INVARIANTS EveryRunReports
