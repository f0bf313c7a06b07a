\* Is "down" the strict reverse of "up", as spec.md 4.4 says?
CONSTANTS
  EnvFaults = FALSE
  MaxFaults = 2
  SettingsEditable = FALSE
SPECIFICATION Spec
PROPERTIES
  StrictReverseTeardown
