SPECIFICATION Spec
CONSTANTS
  Sources <- ControlAndCommands
  Broken <- Nothing
INVARIANTS ErrorsAreExact  SemicolonEnds AssignmentsRecognised
