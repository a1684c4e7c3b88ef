SPECIFICATION Spec
CONSTANTS
  MAX_FILE = 4
  FOURKB = 2
  NAMELEN = 3
  DATB_SIZE = 3
  data_count = 6
  Dentries <- SmallDentries
  Inodes <- SmallInodes
  Sizes = {0, 1, 3}
  MinPosition = 2
INVARIANTS
  TypeOK
  ReadsAreContents
  DirectoryListed
  StandardStreams
PROPERTIES
  ReadsAreFull
