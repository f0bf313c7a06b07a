\* Does a migration job that exits non-zero keep its service from being
\* created, as spec.md 4.4 says?
CONSTANTS
  EnvFaults = FALSE
  MaxFaults = 0
  SettingsEditable = FALSE
SPECIFICATION Spec
PROPERTIES
  MigrationGate
