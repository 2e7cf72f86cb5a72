------------------------- MODULE MCDisputeLifecycle -------------------------
(* The panel always has three members; two are enough where many faults    *)
(* are possible and the interleavings of one call with another matter.     *)
EXTENDS DisputeLifecycle, TLC

CONSTANTS m1, m2, m3

MCPanel == {m1, m2, m3}
MCPair == {m1, m2}
PanelSymmetry == Permutations(MCPanel)

Setting(keeper, numericID, faults) ==
  [keeper |-> keeper, numericID |-> numericID, faults |-> faults]

(* Both adapters, disputes filed with apps/api and on chain.               *)
AnyAdapter ==
  {Setting(k, n, {"unreachable", "storage", "keeper", "crash", "models"}) :
     k \in BOOLEAN, n \in BOOLEAN}
(* Calls that never arrive, handlers that outlive the call, writes that    *)
(* fail.                                                                   *)
LossyOrLate == {Setting(FALSE, FALSE, {"unreachable", "storage"}),
                Setting(FALSE, FALSE, {"responseLost", "storage"}),
                Setting(FALSE, FALSE, {"database"})}
KeeperAndUuid == {Setting(TRUE, FALSE, {})}
=============================================================================
