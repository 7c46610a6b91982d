CONSTANTS
  v1 = v1  v2 = v2  v3 = v3  v4 = v4
  NPages = 5
  FANOUT = 2
  LEVELS = 2
  FreePages = 9
  Slack = 2
  Vmr <- Regions
  VMRS_PER_PAGE = 2
  Paging <- AnyPaging
  ElfPages <- Low
  StackPages <- High
  Prots <- Whole
  MapFds <- Anonymous
  UsesFiles = FALSE
  MAX_FDS = 3
  MAX_FILES = 3
SPECIFICATION Spec
INVARIANTS TypeOK PromisesExact PromiseKept PagesConserved BrkRoomClear
SYMMETRY RegionSymmetry
\* A panic stops the machine.
CHECK_DEADLOCK FALSE
