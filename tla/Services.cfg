SPECIFICATION SmallSpec
CONSTANTS
  p1 = p1 p2 = p2 d1 = d1 d2 = d2 m1 = m1 m2 = m2 a = a b = b
  v1 = v1 v2 = v2 k = k o1 = o1 o2 = o2
  r1 = r1 r2 = r2 e1 = e1 w1 = w1 w2 = w2 c1 = c1
  Procs <- TwoProcs
  Docs <- TwoDocs
  Models <- TwoModels
  Texts <- SomeTexts
  Slices <- OneSlice
  Revisions <- SomeRevisions
  Nothing = Nothing
  Absent = Absent
  Unrevised = Unrevised
  AllFiles = AllFiles
  Workers = 2
  MaxEdits = 1
  MaxOps = 2
  MaxStops = 1
  Vaults <- TwoVaults
  Portables <- OnePortable
  Ops <- TwoOps
  Selections <- NeverSelected
  Operator = Operator
  MaxConnectStops = 1
  MaxResumes = 1
  Requests <- TwoRequests
  Edits <- OneEdit
  MaxNoteEdits = 2
  MaxTemplates = 1
  MaxTries = 1
  Recorders <- TwoWriters
  Choices <- OneChoice
  Other = Other
  CutLine = CutLine
  Window = 1
  MaxLines = 2
  MaxFiles = 2
  MaxGapCrashes = 1
  Interviewers <- TwoWriters
  NoFile = NoFile
  MaxEvents = 5
  MaxLogCrashes = 2
CHECK_DEADLOCK FALSE
INVARIANTS RowsAgree LinksPointToConnections OnlyGluedChoicesAreHidden InterviewIsWhole
PROPERTIES DequeuedNotesHaveVectors IdentityMeansComplete ConnectionsStay
  OnlyTheNamedRevisionIsReplaced
