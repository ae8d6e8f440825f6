SPECIFICATION Spec
CONSTANTS
  Reviewers = {r1}
  ProgramDocs <- NewPolicy
  Participants <- NoInput
  Requests <- NoInput
  AwardIDs = {"a1", "a2"}
  InitPrograms <- OnePolicy
  InitParticipants <- NoDocuments
  InitAwards <- TwoAwards
  Closers = {c1, c2}
  Months = {1, 2}
  ReceiptDocs <- TwoBills
  MaxFailures = 1
  PayoutStates = {"owed"}
  FreezeInputs = FALSE
SYMMETRY Symmetry
INVARIANTS TypeOK ObligationsBackRound RoundsAddUp
PROPERTIES LedgerAppendOnly BalancesAreCarried
CHECK_DEADLOCK FALSE
