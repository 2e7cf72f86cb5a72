--------------------------- MODULE PanelRegistry ---------------------------
(***************************************************************************)
(* PanelRegistry.sol: the owner-managed set of panel addresses that may    *)
(* write a verdict on chain.  A transaction that reverts changes nothing,  *)
(* so each revert condition of the contract is a guard here.               *)
(***************************************************************************)

CONSTANT Panels      \* addresses the owner may authorise

VARIABLE authorized  \* _authorized, as the set of addresses mapped to true

RegistryTypeOK == authorized \subseteq Panels

RegistryInit == authorized = {}

IsAuthorized(panel) == panel \in authorized

Authorize(panel) ==
  /\ ~IsAuthorized(panel)             \* else AlreadyAuthorized
  /\ authorized' = authorized \cup {panel}

Revoke(panel) ==
  /\ IsAuthorized(panel)              \* else NotAuthorized
  /\ authorized' = authorized \ {panel}
=============================================================================
