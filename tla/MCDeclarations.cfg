SPECIFICATION Spec
CONSTANTS
  Sources <- DeclarationsAndCursors
  Broken <- Nothing
INVARIANTS ErrorsAreExact  DeclarationFields ExecuteFields
