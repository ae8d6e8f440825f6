SPECIFICATION Spec
CONSTANTS
  Reviewers = {r1, r2}
  ProgramDocs <- ProgramDocs_cfg
  Participants <- Participants_cfg
  Requests <- Requests_cfg
  AwardIDs = {"a1", "a2"}
  InitPrograms <- NoDocuments
  InitParticipants <- NoDocuments
  InitAwards <- NoDocuments
  Accounts = {1, 2, 3}
  MaxCredits = 3
  NetRange <- NetRange_cfg
  CarryRange <- CarryRange_cfg
  PoolBps = 5000
  None = None
  Clerks = {c1, c2}
  Packages <- TwoCases
  Files <- SomeFiles
  Edits <- SomeEdits
  Reports <- OneClosed
  AutoIncrementMaxRetries = 3
  MaxCreates = 2
  MaxCommands = 3
  MaxRounds = 2
SYMMETRY Symmetry
INVARIANTS
  AllocationIsFair
  PublicationIsTamperEvident
  NumbersAreSound
  BotIsCurrent
PROPERTIES
  AwardTermsHold
  EditsAreSafe
CHECK_DEADLOCK FALSE
