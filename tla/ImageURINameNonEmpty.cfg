\* Does the code keep spec.md's NameNonEmpty?
CONSTANTS
  Chars <- MCChars
  MaxLen = 6
SPECIFICATION Spec
INVARIANTS
  NameNonEmpty
