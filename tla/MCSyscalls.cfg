CONSTANTS
  MAX_FDS = 3
  MAX_FILES = 4
  MaxHeld = 2
  MAX_BUF = 2
  SSIZE_MAX = 4
  MaxLen = 3
  MaxIov = 2
  Called = {3}
  MaxRoom = 4
SPECIFICATION SysSpec
INVARIANTS TypeOK RefcntExact HostExact  ReferencesReturned
PROPERTIES CallReturns
