\* Three containers, a running and an exited state, page sizes 1 and 2 besides
\* the default 10 and page numbers up to one past the last page.
CONSTANTS
  n1 = n1
  n2 = n2
  n3 = n3
  Names <- MCNames
  ContainerStates = {"running", "exited"}
  Restartable = {"running"}
  Startable = {"exited"}
  Stopable = {"running"}
  PageSizes = {1, 2}
  MaxPage = 3
  None = None
SYMMETRY MCSymmetry
SPECIFICATION Spec
INVARIANTS
  PagesPartition
