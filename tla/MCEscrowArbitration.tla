------------------------ MODULE MCEscrowArbitration ------------------------
(* One escrow, one foreign arbitrable, a buyer and a seller who may swap   *)
(* roles, two transactions and two disputes.                               *)
EXTENDS EscrowArbitration, TLC

CONSTANTS p1, escrow, foreign, alice, bob, h1, zero

MCPanels == {p1}
MCArbitrables == {escrow, foreign}
MCAcceptsEther == {foreign}
MCChoices == {2}
MCAmounts == {0, 1}
MCRulings == 0..3
MCBundles == {h1, zero}
MCUsers == {alice, bob}
MCTokenAmounts == {0, 3}
MCSymmetry == Permutations(MCUsers)
MCDisputeIDs == 0..(MaxDisputes - 1)
=============================================================================
