----------------------------- MODULE MCServices -----------------------------
(* A small instance of Services, in which a service that is not in focus     *)
(* starts in one way only.                                                   *)
EXTENDS Services

CONSTANTS p1, p2, d1, d2, m1, m2, a, b, v1, v2, k, o1, o2, r1, r2, e1, w1, w2, c1

TwoProcs == {p1, p2}
TwoDocs == {d1, d2}
TwoModels == {m1, m2}
SomeTexts == {<<a>>, <<a, b>>}
OneSlice == {{d1}}
SomeRevisions == 1..7
TwoVaults == {v1, v2}
OnePortable == {k}
TwoOps == {o1, o2}
NeverSelected == {FALSE}
TwoRequests == {r1, r2}
OneEdit == {e1}
TwoWriters == {w1, w2}
OneChoice == {c1}

\* The vaults are alike: what names one of them at the start names the first.
NamesTheFirst(document) ==
  CASE document.kind = "pointer" -> document.vault = v1
    [] document.kind = "connections" -> DOMAIN document.entries = {v1}
    [] OTHER -> TRUE

SomeStart ==
  /\ ServicesInit
  /\ focus = "index" \/ (note = [d \in Docs |-> <<a>>] /\ db = EmptyDb)
  /\ IF focus = "connections" THEN NamesTheFirst(cnRegistry)
     ELSE cnSettings = [v \in {v1, v2} |-> Nothing] /\ {cnRegistry, cnLink} = {Connection!Missing}
  /\ focus = "write" \/ (nwNote = Absent /\ nwHardLinks)

SmallSpec == SomeStart /\ [][ServicesNext]_serviceVars
=============================================================================
