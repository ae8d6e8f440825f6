SPECIFICATION Spec
CONSTANTS
  Reviewers = {r1}
  ProgramDocs <- NoInput
  Participants <- NoInput
  Requests <- NoInput
  AwardIDs = {"a1", "a2"}
  InitPrograms <- OnePolicy
  InitParticipants <- NoDocuments
  InitAwards <- TwoAwards
  Closers = {c1}
  Months = {1, 2}
  ReceiptDocs <- Bills
  MaxFailures = 1
  PayoutStates = {"owed"}
  FreezeInputs = FALSE
INVARIANT LeftoverIsIdentical
CHECK_DEADLOCK FALSE
