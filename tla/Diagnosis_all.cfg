SPECIFICATION Spec
CONSTANTS
  Tags <- MCTags
  Ports = {auto, com3}
  Versions = {"match", "mismatch"}
  CheckSets <- MCCheckSets
SYMMETRY PortSymmetry
INVARIANTS VerdictIsRight OnlyItsProtocol
