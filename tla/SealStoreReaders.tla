--------------------------- MODULE SealStoreReaders ---------------------------
(***************************************************************************)
(* Readers of the contract (readResolved, readContractDirectory) beside    *)
(* the processes of SealStore.  A reader takes no lock: it resolves the    *)
(* link, looks at the generation directory and reads its files, and while  *)
(* it does seals may swap the link and collect what it is reading.         *)
(***************************************************************************)
EXTENDS SealStore

CONSTANTS Readers

VARIABLE reader   \* each reader's read in progress, and the last result

readerVars == <<vars, reader>>

Results == {"none", "absent", "ok", "link-dangling", "manifest-mismatch"}

\* `swaps` and `linkedSince` are observations for the properties: the swaps
\* (counted to two) and the contracts linked since the link was resolved.
NotReading == [pc |-> "idle", attempt |-> 0, at |-> NoLink, result |-> "none",
               digest |-> NoDigest, swaps |-> 0, linkedSince |-> {}]

ReaderInit == Init /\ reader = [r \in Readers |-> NotReading]

Report(r, result, digest) ==
  reader' = [reader EXCEPT ![r].pc = "done", ![r].result = result, ![r].digest = digest]

StartRead(r) ==
  /\ reader[r].pc \in {"idle", "done"}
  /\ reader' = [reader EXCEPT ![r] = [NotReading EXCEPT !.pc = "resolve", !.attempt = 1]]
  /\ UNCHANGED vars

\* resolveGeneration: a real directory is no link to a generation.
ResolveGeneration(r) ==
  /\ reader[r].pc = "resolve"
  /\ \/ Linked = NoLink /\ Report(r, "absent", NoDigest)
     \/ Linked = DirectoryLink /\ Report(r, "link-dangling", NoDigest)
     \/ /\ Linked \notin {NoLink, DirectoryLink}
        /\ reader' = [reader EXCEPT ![r].pc = "look", ![r].at = link, ![r].swaps = 0,
                                    ![r].linkedSince = {gens[link]} \cap Digests]
  /\ UNCHANGED vars

\* The lstat of the directory.  One that has gone is resolved once more.
LookAtGeneration(r) ==
  /\ reader[r].pc = "look"
  /\ \/ /\ gens[reader[r].at] # Absent
        /\ reader' = [reader EXCEPT ![r].pc = "read"]
     \/ /\ gens[reader[r].at] = Absent /\ reader[r].attempt = 1
        /\ reader' = [reader EXCEPT ![r].pc = "resolve", ![r].attempt = 2]
     \/ /\ gens[reader[r].at] = Absent /\ reader[r].attempt = 2
        /\ Report(r, "link-dangling", NoDigest)
  /\ UNCHANGED vars

\* The files, each checked against the manifest; a directory that went away
\* since the lstat no longer verifies and is not resolved again.
ReadGeneration(r) ==
  LET found == gens[reader[r].at] IN
  /\ reader[r].pc = "read"
  /\ IF found \in Digests
     THEN Report(r, "ok", found)
     ELSE Report(r, "manifest-mismatch", NoDigest)
  /\ UNCHANGED vars

ReaderStep(r) ==
  StartRead(r) \/ ResolveGeneration(r) \/ LookAtGeneration(r) \/ ReadGeneration(r)

\* A step of the store, and what the observations make of it.
Watched(w) ==
  IF w.pc \in {"look", "read"} /\ link' # link /\ link' # NoLink
  THEN [w EXCEPT !.swaps = IF @ < 2 THEN @ + 1 ELSE @,
                 !.linkedSince = @ \cup ({gens'[link']} \cap Digests)]
  ELSE w

StoreStep == Next /\ reader' = [r \in Readers |-> Watched(reader[r])]

ReaderNext == StoreStep \/ \E r \in Readers : ReaderStep(r)

ReaderSpec == ReaderInit /\ [][ReaderNext]_readerVars

-----------------------------------------------------------------------------
(* Properties *)

\* A read that is not overtaken by two seals finds a contract: the one seal it
\* may overlap leaves the generation it resolved in place as N-1.
OneSealCannotBreakARead ==
  \A r \in Readers :
    reader[r].result \in {"link-dangling", "manifest-mismatch"} => reader[r].swaps >= 2

\* What a read returns was the vault's contract at some moment of the read,
\* never a generation half written, rolled back or not yet linked.
ReadReturnsALinkedContract ==
  \A r \in Readers : reader[r].result = "ok" => reader[r].digest \in reader[r].linkedSince
=============================================================================
