------------------------- MODULE MCSealStoreReaders -------------------------
(***************************************************************************)
(* Two small instances of SealStoreReaders in one run: two processes that  *)
(* seal with two failures, or one of them with one failure and a reader.   *)
(***************************************************************************)
EXTENDS SealStoreReaders, TLC

CONSTANTS p1, p2, r1, a, b

BothProcs == {p1, p2}
OneReader == {r1}
OneAtTerminal == {p1}
TwoDigests == {a, b}

SealedStarts == {"empty", "pre-lineage"}
Failures == {"crash", "error"}

VARIABLE focus  \* who shares the store: "sealers" or "reader"

SmallInit == ReaderInit /\ focus \in {"sealers", "reader"}

SmallNext ==
  /\ UNCHANGED focus
  /\ \/ focus = "sealers" /\ StoreStep
     \/ focus = "reader" /\ ReaderNext /\ proc'[p2] = proc[p2] /\ faults' <= 1

SmallSpec == SmallInit /\ [][SmallNext]_<<readerVars, focus>>

DigestSymmetry == Permutations(TwoDigests)
=============================================================================
