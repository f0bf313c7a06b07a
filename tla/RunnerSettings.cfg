\* Does "down" clean up when the Disabled flags changed since "up"?
CONSTANTS
  EnvFaults = FALSE
  MaxFaults = 2
  SettingsEditable = TRUE
SPECIFICATION Spec
INVARIANTS
  CleanDown
