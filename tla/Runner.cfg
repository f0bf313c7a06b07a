\* The runner on a host where only the CLI, the operator (who may edit the
\* Disabled flags between commands) and the migration jobs act.
CONSTANTS
  EnvFaults = FALSE
  MaxFaults = 0
  SettingsEditable = TRUE
SPECIFICATION Spec
INVARIANTS
  TypeOK
PROPERTIES
  MigrationFinishedFirst
  ProxyConfiguredFirst
  Termination
  StackRefined
