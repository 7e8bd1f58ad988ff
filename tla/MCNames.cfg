SPECIFICATION Spec
CONSTANTS
  Sources <- Options
  Broken <- Nothing
INVARIANT NamesAreNames
