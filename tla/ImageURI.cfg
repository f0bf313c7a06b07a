\* parse, String and StringNoTag on every input of up to 6 characters.
CONSTANTS
  Chars <- MCChars
  MaxLen = 6
SPECIFICATION Spec
INVARIANTS
  TypeOK
  ParseCorrect
  RoundTrip
