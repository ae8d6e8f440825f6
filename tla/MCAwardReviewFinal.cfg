SPECIFICATION ReviewSpec
CONSTANTS
  Reviewers = {r1, r2}
  ProgramDocs <- ProgramDocs_cfg
  Participants <- Participants_cfg
  Requests <- Requests_cfg
  AwardIDs = {"a1", "a2"}
  InitPrograms <- NoDocuments
  InitParticipants <- NoDocuments
  InitAwards <- NoDocuments
PROPERTY DecisionsAreFinal
