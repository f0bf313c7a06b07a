\* Does "down" tolerate a container that vanishes after its lookup?
CONSTANTS
  EnvFaults = TRUE
  MaxFaults = 2
  SettingsEditable = FALSE
SPECIFICATION Spec
PROPERTIES
  DownNotFoundIsNoError
