------------------------------ MODULE Services ------------------------------
(***************************************************************************)
(* Five services over files that share no state: the embedding index, the  *)
(* connections of vaults and projects, the write of a note, the gap ledger *)
(* and the interview log.  A behaviour is one of the service that focus    *)
(* names, and the others stay where they start.                            *)
(***************************************************************************)
EXTENDS EmbeddingIndex

CONSTANTS
  Vaults, Portables, Ops, Selections, Operator, MaxConnectStops, MaxResumes,  \* of the connections
  Requests, Edits, MaxNoteEdits, MaxTemplates, MaxTries,                \* of the note write
  Recorders, Choices, Other, CutLine, Window,                           \* of the gap ledger
  MaxLines, MaxFiles, MaxGapCrashes,
  Interviewers, NoFile, MaxEvents, MaxLogCrashes                        \* of the interview log

VARIABLES
  focus,
  cnSettings, cnRegistry, cnLock, cnReserved, cnFiles, cnLink, cnLinkLock, cnProjection,
  cnRun, cnRemoval, cnStops, cnResumes,
  nwNote, nwHardLinks, nwTemplates, nwReq, nwTries, nwEdits,
  glFiles, glCurrent, glMarkers, glProc, glCrashes,
  ilIssued, ilFile, ilStage, ilKey, ilPlan, ilSeen, ilHistory, ilCrashes

cnVars == <<cnSettings, cnRegistry, cnLock, cnReserved, cnFiles, cnLink, cnLinkLock,
            cnProjection, cnRun, cnRemoval, cnStops, cnResumes>>
nwVars == <<nwNote, nwHardLinks, nwTemplates, nwReq, nwTries, nwEdits>>
glVars == <<glFiles, glCurrent, glMarkers, glProc, glCrashes>>
ilVars == <<ilIssued, ilFile, ilStage, ilKey, ilPlan, ilSeen, ilHistory, ilCrashes>>
serviceVars == <<focus, vars, cnVars, nwVars, glVars, ilVars>>

Connection == INSTANCE Connections WITH
  MaxStops <- MaxConnectStops,
  settings <- cnSettings, registry <- cnRegistry, lock <- cnLock, reserved <- cnReserved,
  files <- cnFiles, link <- cnLink, linkLock <- cnLinkLock, projection <- cnProjection,
  run <- cnRun, removal <- cnRemoval, stops <- cnStops, resumes <- cnResumes

Write == INSTANCE NoteWrite WITH
  MaxEdits <- MaxNoteEdits,
  note <- nwNote, hardLinks <- nwHardLinks, templates <- nwTemplates, req <- nwReq,
  tries <- nwTries, edits <- nwEdits

Gaps == INSTANCE GapLedger WITH
  Writers <- Recorders, Torn <- CutLine, MaxCrashes <- MaxGapCrashes,
  files <- glFiles, current <- glCurrent, markers <- glMarkers, proc <- glProc,
  crashes <- glCrashes

Interview == INSTANCE InterviewLog WITH
  Writers <- Interviewers, MaxCrashes <- MaxLogCrashes,
  issued <- ilIssued, file <- ilFile, stage <- ilStage, key <- ilKey, plan <- ilPlan,
  seen <- ilSeen, history <- ilHistory, crashes <- ilCrashes

ServicesInit ==
  /\ focus \in {"index", "connections", "write", "gaps", "interview"}
  /\ Init /\ Connection!Init /\ Write!Init /\ Gaps!Init /\ Interview!Init

ServicesNext ==
  /\ UNCHANGED focus
  /\ \/ focus = "index" /\ Next /\ UNCHANGED <<cnVars, nwVars, glVars, ilVars>>
     \/ focus = "connections" /\ Connection!Next /\ UNCHANGED <<vars, nwVars, glVars, ilVars>>
     \/ focus = "write" /\ Write!Next /\ UNCHANGED <<vars, cnVars, glVars, ilVars>>
     \/ focus = "gaps" /\ Gaps!Next /\ UNCHANGED <<vars, cnVars, nwVars, ilVars>>
     \/ focus = "interview" /\ Interview!NextApart /\ UNCHANGED <<vars, cnVars, nwVars, glVars>>

ServicesSpec == ServicesInit /\ [][ServicesNext]_serviceVars

\* What Connections, NoteWrite, GapLedger and InterviewLog state under these names.
LinksPointToConnections == Connection!LinksPointToConnections
ConnectionsStay == Connection!ConnectionsStay
OnlyTheNamedRevisionIsReplaced == Write!OnlyTheNamedRevisionIsReplaced
OnlyGluedChoicesAreHidden == Gaps!OnlyGluedChoicesAreHidden
InterviewIsWhole == Interview!InterviewIsWhole
=============================================================================
