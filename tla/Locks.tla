------------------------------- MODULE Locks -------------------------------
(***************************************************************************)
(* Three lock protocols of the program: the evolution lock, the writer     *)
(* lock of the engine and the lock of the contract index.  They share no   *)
(* state, so a behaviour is one of the protocol that focus names, and the  *)
(* others stay where they start.                                           *)
(***************************************************************************)
EXTENDS EvolutionLock, FiniteSets

CONSTANTS
  Older, NoText, MaxTexts, MaxWriterFaults,             \* of the writer lock
  Registrars, Vault, Standing, NoLock, Unread, Aged, LocksAge, Leaving, MaxIndexFaults  \* of the contract index

VARIABLES
  focus,
  wlOwners, wlLock, wlAside, wlProc, wlDead, wlTexts, wlFaults,
  ciEntries, ciLock, ciProc, ciTaken, ciFaults

wlVars == <<wlOwners, wlLock, wlAside, wlProc, wlDead, wlTexts, wlFaults>>
ciVars == <<ciEntries, ciLock, ciProc, ciTaken, ciFaults>>
lockVars == <<focus, vars, wlVars, ciVars>>

Writer == INSTANCE WriterLock WITH
  MaxFaults <- MaxWriterFaults,
  owners <- wlOwners, lock <- wlLock, aside <- wlAside, proc <- wlProc, dead <- wlDead,
  texts <- wlTexts, faults <- wlFaults

Index == INSTANCE ContractIndex WITH
  Procs <- Registrars, MaxFaults <- MaxIndexFaults,
  entries <- ciEntries, lock <- ciLock, proc <- ciProc, taken <- ciTaken,
  faults <- ciFaults

LocksInit ==
  /\ focus \in {"evolution", "writer", "index"}
  /\ Init /\ Writer!Init /\ Index!Init

LocksNext ==
  /\ UNCHANGED focus
  /\ \/ focus = "evolution" /\ Next /\ UNCHANGED <<wlVars, ciVars>>
     \/ focus = "writer" /\ Writer!Next /\ UNCHANGED <<vars, ciVars>>
     \/ focus = "index" /\ Index!Next /\ UNCHANGED <<vars, wlVars>>

LocksSpec == LocksInit /\ [][LocksNext]_lockVars

\* What WriterLock and ContractIndex state under these names.
OneWriter == Writer!OneWriter
EntriesStay == Index!EntriesStay
=============================================================================
