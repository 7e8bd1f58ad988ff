SPECIFICATION Spec
CONSTANTS
  Sources <- NoScroll
  Broken <- Nothing
INVARIANT NoIsPartOfType
