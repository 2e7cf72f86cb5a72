--------------------------- MODULE MCDisputeViewer ---------------------------
(* A form with at most one file and a panel of one or two models; what may *)
(* fail lies between the browser and apps/api, or between panel and it.    *)
EXTENDS DisputeViewer

CONSTANTS m1, m2, f1, f2

OneModel == {m1}
TwoModels == {m1, m2}
Mirror(faults) == [keeper |-> FALSE, numericID |-> FALSE, faults |-> faults]
DirectMirror == {Mirror({})}
LossyMirror == {Mirror({"unreachable"})}
FinalVote == {VoteUpdate(m1, "VOTED")}
AllFaults == {"fetch", "attach", "stream"}
NoFaults == {}
OneFile == <<f1>>
NoFile == <<>>
JustOne == {f1}
SeededDisputes == SeededRows
NoSeeds == {}
=============================================================================
