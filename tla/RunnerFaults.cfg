\* The runner while containers die and are removed behind its back.
CONSTANTS
  EnvFaults = TRUE
  MaxFaults = 2
  SettingsEditable = FALSE
SPECIFICATION Spec
INVARIANTS
  CleanDown
PROPERTIES
  Termination
