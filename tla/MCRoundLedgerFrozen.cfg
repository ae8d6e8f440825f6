SPECIFICATION LiveSpec
CONSTANTS
  Reviewers = {r1}
  ProgramDocs <- NewPolicy
  Participants <- Enrolled
  Requests <- Proposals
  AwardIDs = {"a1", "a2"}
  InitPrograms <- OnePolicy
  InitParticipants <- NoDocuments
  InitAwards <- OneAward
  Closers = {c1, c2}
  Months = {1, 2}
  ReceiptDocs <- TwoBills
  MaxFailures = 1
  PayoutStates = {"owed"}
  FreezeInputs = TRUE
PROPERTIES ImplementsRoundBook StartedCloseCompletes
CHECK_DEADLOCK FALSE
