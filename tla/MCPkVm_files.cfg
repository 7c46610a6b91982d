CONSTANTS
  v1 = v1  v2 = v2  v3 = v3  v4 = v4
  NPages = 2
  FANOUT = 2
  LEVELS = 3
  FreePages = 6
  Slack = 0
  Vmr <- ThreeRegions
  VMRS_PER_PAGE = 3
  Paging = {TRUE}
  ElfPages = {0}
  StackPages <- High
  Prots <- AllRights
  MapFds <- OneFile
  UsesFiles = TRUE
  MAX_FDS = 3
  MAX_FILES = 3
SPECIFICATION Spec
 
PROPERTIES FilesSpec
SYMMETRY ThreeSymmetry
\* A panic stops the machine.
CHECK_DEADLOCK FALSE
