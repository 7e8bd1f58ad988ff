SPECIFICATION Spec
CONSTANTS
  Sources <- Literals
  Broken <- Unterminable
INVARIANT ReportedIsReturned
