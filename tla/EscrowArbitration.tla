------------------------- MODULE EscrowArbitration -------------------------
(***************************************************************************)
(* The contracts on one chain: TribuneArbitrator, PanelRegistry, the       *)
(* ExampleEscrow whose arbitrator it is, and foreign arbitrables.  A call  *)
(* from one contract into another is one action: the transaction either    *)
(* does what both sides do or reverts and does nothing.                    *)
(***************************************************************************)
EXTENDS TribuneArbitrator, ExampleEscrow

(* ExampleEscrow has no receive(): a refund to it reverts.                 *)
ASSUME CompositionAssumption ==
  /\ Escrow \in Arbitrables /\ Escrow \notin AcceptsEther
  /\ 2 \in Choices
  /\ DisputeIDs = 0..(MaxDisputes - 1)

vars == <<arbitratorVars, escrowVars>>

Init == ArbitratorInit /\ EscrowInit

(* disputeTransaction{value}: createDispute(2, "") and the escrow's writes.*)
Dispute(sender, t, value) ==
  /\ CreateDispute(Escrow, 2, value)
  /\ DisputeTransaction(sender, t, nextDisputeID)

(* A dispute raised by a contract other than the escrow.                   *)
ForeignDispute(a, choices, value) ==
  /\ a # Escrow
  /\ CreateDispute(a, choices, value)
  /\ UNCHANGED escrowVars

(* executeRuling with the callback into the escrow ...                     *)
RuleEscrow(panel, d, ruling, bundleHash) ==
  /\ ExecuteRuling(panel, d, ruling, bundleHash)
  /\ disputes[d].arbitrable = Escrow
  /\ Rule(d, ruling)

(* ... and into a foreign arbitrable, when its rule() returns.             *)
RuleForeign(panel, d, ruling, bundleHash) ==
  /\ ExecuteRuling(panel, d, ruling, bundleHash)
  /\ disputes[d].arbitrable # Escrow
  /\ UNCHANGED escrowVars

Raise ==
  \/ \E sender \in Users, t \in KnownTx, value \in Amounts :
       Dispute(sender, t, value)
  \/ \E a \in Arbitrables, choices \in Choices, value \in Amounts :
       ForeignDispute(a, choices, value)

Resolve ==
  \E panel \in Panels, d \in KnownDisputes, ruling \in Rulings,
     bundleHash \in Bundles :
    \/ RuleEscrow(panel, d, ruling, bundleHash)
    \/ RuleForeign(panel, d, ruling, bundleHash)

Next ==
  \/ Raise
  \/ Resolve
  \/ Administer /\ UNCHANGED escrowVars
  \/ Trade /\ UNCHANGED arbitratorVars

Spec == Init /\ [][Next]_vars

-----------------------------------------------------------------------------
TypeOK == ArbitratorTypeOK /\ EscrowTypeOK

EscrowDisputes == {d \in KnownDisputes : disputes[d].arbitrable = Escrow}

(* The two contracts agree on which dispute decides which transaction: the *)
(* escrow's disputes and its disputed transactions name one another, and a *)
(* waiting dispute's transaction is open with two choices on offer, so     *)
(* that any ruling the arbitrator admits goes through rule() as well.      *)
DisputeMatchesTransaction ==
  /\ \A d \in EscrowDisputes :
       LET t == arbitratorToTxId[d]
       IN
       /\ t \in KnownTx
       /\ transactions[t].arbitratorDisputeID = d
       /\ disputes[d].choices = 2
       /\ transactions[t].state =
            IF disputes[d].status = "Waiting" THEN "Open" ELSE "Closed"
  /\ \A t \in KnownTx :
       transactions[t].state = "Open" =>
         LET d == transactions[t].arbitratorDisputeID
         IN d \in EscrowDisputes /\ arbitratorToTxId[d] = t

(* A transaction pays out nothing before it closes and its whole amount    *)
(* when it does, whichever of the four ways of closing it comes first.     *)
PaidOnceInFull ==
  \A t \in KnownTx :
    paid[t].buyer + paid[t].seller =
      IF transactions[t].state = "Closed" THEN transactions[t].amount ELSE 0

(* The ruling recorded by the arbitrator is the one the money followed: 1  *)
(* refunds the buyer, 2 pays the seller, 0 splits, the odd unit being the  *)
(* seller's.                                                               *)
RulingDecidesPayout ==
  \A d \in EscrowDisputes :
    LET t == arbitratorToTxId[d]
    IN
    disputes[d].status = "Solved" =>
      /\ disputes[d].ruling = 1 => paid[t].seller = 0
      /\ disputes[d].ruling = 2 => paid[t].buyer = 0
      /\ disputes[d].ruling = 0 => paid[t].seller - paid[t].buyer \in {0, 1}

(* The escrow owns the tokens of every unsettled transaction, and nothing  *)
(* stays behind when one settles, except at a seller that is the escrow.   *)
EscrowBacked ==
  tokens[Escrow] =
    SumFunction([t \in KnownTx |->
      IF transactions[t].state # "Closed" THEN transactions[t].amount
      ELSE IF transactions[t].seller = Escrow THEN paid[t].seller
      ELSE 0])

(* Once a transaction is disputed, nothing moves its money but the step    *)
(* that solves its dispute.                                                *)
OnlyRulingSettlesDisputed ==
  [][\A t \in KnownTx :
       LET d == transactions[t].arbitratorDisputeID
       IN
       transactions[t].state = "Open" /\
       (transactions'[t] # transactions[t] \/ paid'[t] # paid[t]) =>
         /\ disputes[d].status = "Waiting" /\ disputes'[d].status = "Solved"
         /\ transactions'[t].state = "Closed"
    ]_vars

(* The contracts implement the promise of EscrowCustody.                   *)
CustodyOf(t) ==
  [amount   |-> transactions[t].amount,
   phase    |-> CASE transactions[t].state = "None" -> "held"
                  [] transactions[t].state = "Open" -> "contested"
                  [] transactions[t].state = "Closed" -> "settled",
   toBuyer  |-> paid[t].buyer,
   toSeller |-> paid[t].seller]

Custody == INSTANCE EscrowCustody WITH
  Deposits       <- 0..(MaxTx - 1),
  DepositAmounts <- TokenAmounts \ {0},
  custody        <- [t \in KnownTx |-> CustodyOf(t)]

(* Every behaviour of the contracts is one the custody promise allows.     *)
ImplementsCustody == Custody!Spec
=============================================================================
