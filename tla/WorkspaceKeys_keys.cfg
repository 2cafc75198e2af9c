CONSTANTS
  ann = ann
  bea = bea
  Users <- MC_Users
  Founder = ann
  Minters <- MC_Users
  MaxVersion = 2
  MaxIdentity = 2
  MaxJoins = 2
  MaxAsks = 2
  MaxDraws = 3
  MaxFiles = 1
SPECIFICATION Spec
CHECK_DEADLOCK FALSE
INVARIANTS
  TypeOK
  OneActiveVersion
  NoFork
  NoWrapStranded
PROPERTIES
  FilesStayPrivate
