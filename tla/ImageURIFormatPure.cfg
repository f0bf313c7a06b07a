\* Does the code keep spec.md's FormatPure?
CONSTANTS
  Chars <- MCChars
  MaxLen = 6
SPECIFICATION Spec
INVARIANTS
  FormatPure
