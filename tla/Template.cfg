\* Two concurrent imports, two rejected awaits or registry deletions;
\* the database refuses a second registry of one name or accepts it.
\* The service stops when both requests are answered.
CONSTANTS
  r1 = r1
  r2 = r2
  g1 = g1
  g2 = g2
  Requests <- MCRequests
  TemplateRegs <- MCTemplateRegs
  NImages = 2
  RegOf <- MCRegOf
  MaxFaults = 2
SPECIFICATION Spec
CHECK_DEADLOCK FALSE
INVARIANTS
  TypeOK
  DoneComplete
