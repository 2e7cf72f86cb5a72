----------------------- MODULE EscrowArbitrationProofs -----------------------
(***************************************************************************)
(* Proofs about the contracts, for every set of users, arbitrables and     *)
(* panels, every amount, every bound.                                      *)
(***************************************************************************)
EXTENDS EscrowArbitration, TribuneArbitratorProofs

USE ArbitratorAssumption, EscrowAssumption, CompositionAssumption

(* A covered transfer leaves every balance a natural number, and takes at  *)
(* most the amount transferred from any of them.                           *)
LEMMA TransferredType ==
  ASSUME NEW balances \in [Holders -> Nat],
         NEW from \in Holders, NEW to \in Holders, NEW amount \in Nat,
         balances[from] >= amount
  PROVE  /\ Transferred(balances, from, to, amount) \in [Holders -> Nat]
         /\ Transferred(balances, from, to, amount)[from]
              >= balances[from] - amount
<1> DEFINE debited == [balances EXCEPT ![from] = balances[from] - amount]
<1>1. debited \in [Holders -> Nat] /\ debited[from] = balances[from] - amount
  OBVIOUS
<1>2. Transferred(balances, from, to, amount)
        = [debited EXCEPT ![to] = debited[to] + amount]
  BY DEF Transferred, Debited
<1> HIDE DEF debited
<1> QED
  BY <1>1, <1>2

(* Tokens paid out of the escrow leave every balance a natural number.     *)
LEMMA PayOutType ==
  ASSUME EscrowTypeOK, NEW t \in KnownTx,
         NEW toBuyer \in Nat, NEW toSeller \in Nat,
         PayOut(t, toBuyer, toSeller)
  PROVE  /\ tokens' \in [Holders -> Nat]
         /\ paid' \in [KnownTx -> [buyer : Nat, seller : Nat]]
<1> DEFINE tx == transactions[t]
<1>1. /\ tx.buyer \in Users /\ tx.seller \in Holders
      /\ tokens \in [Holders -> Nat]
      /\ paid \in [KnownTx -> [buyer : Nat, seller : Nat]]
  BY DEF EscrowTypeOK, Transaction
<1>2. /\ Escrow \in Holders /\ tx.buyer \in Holders /\ tx.buyer # Escrow
  BY <1>1 DEF Holders
<1>3. tokens[Escrow] \in Nat /\ tokens[Escrow] >= toBuyer + toSeller
  BY <1>1, <1>2 DEF PayOut
<1> DEFINE first == Transferred(tokens, Escrow, tx.buyer, toBuyer)
<1>4. first \in [Holders -> Nat] /\ first[Escrow] >= toSeller
  <2>1. tokens[Escrow] >= toBuyer
    BY <1>3
  <2>2. first \in [Holders -> Nat] /\ first[Escrow] >= tokens[Escrow] - toBuyer
    BY <1>1, <1>2, <2>1, TransferredType
  <2> HIDE DEF first
  <2> QED
    BY <1>2, <1>3, <2>2
<1>5. tokens' = Transferred(first, Escrow, tx.seller, toSeller)
  BY DEF PayOut
<1> HIDE DEF first
<1>6. tokens' \in [Holders -> Nat]
  BY <1>1, <1>2, <1>4, <1>5, TransferredType
<1> DEFINE receipt == [buyer |-> paid[t].buyer + toBuyer,
                       seller |-> paid[t].seller + toSeller]
<1>7. receipt \in [buyer : Nat, seller : Nat]
  BY <1>1
<1>8. paid' = [paid EXCEPT ![t] = receipt]
  BY <1>1 DEF PayOut
<1> HIDE DEF receipt
<1> QED
  BY <1>1, <1>6, <1>7, <1>8

(* Closing a transaction keeps the set of transactions well typed.         *)
LEMMA CloseType ==
  ASSUME EscrowTypeOK, NEW t \in KnownTx, Close(t)
  PROVE  transactions' \in [KnownTx -> Transaction]
<1>1. transactions \in [KnownTx -> Transaction]
  BY DEF EscrowTypeOK
<1>2. [transactions[t] EXCEPT !.state = "Closed"] \in Transaction
  BY <1>1 DEF Transaction
<1> QED
  BY <1>1, <1>2 DEF Close

(* The buyer's share never exceeds the amount, so the seller's is natural. *)
LEMMA ShareBounds ==
  ASSUME NEW amount \in Nat, NEW ruling \in 0..2
  PROVE  /\ BuyerShare(amount, ruling) \in 0..amount
         /\ SellerShare(amount, BuyerShare(amount, ruling)) \in 0..amount
<1>1. amount \div 2 \in 0..amount
  OBVIOUS
<1>2. CASE ruling = 0
  BY <1>1, <1>2 DEF BuyerShare, SellerShare
<1>3. CASE ruling = 1
  BY <1>3 DEF BuyerShare, SellerShare
<1>4. CASE ruling = 2
  BY <1>4 DEF BuyerShare, SellerShare
<1> QED
  BY <1>2, <1>3, <1>4

(* What closing transaction t does, whoever closes it.                     *)
Settle(t, toBuyer, toSeller) ==
  /\ Close(t)
  /\ PayOut(t, toBuyer, toSeller)
  /\ UNCHANGED <<arbitratorToTxId, nextTxId, now>>

LEMMA SettleType ==
  ASSUME EscrowTypeOK, NEW t \in KnownTx,
         NEW toBuyer \in Nat, NEW toSeller \in Nat,
         Settle(t, toBuyer, toSeller)
  PROVE  EscrowTypeOK'
<1>1. transactions' \in [KnownTx -> Transaction]
  BY CloseType DEF Settle
<1>2. tokens' \in [Holders -> Nat] /\ paid' \in [KnownTx -> [buyer : Nat, seller : Nat]]
  BY PayOutType DEF Settle
<1> QED
  BY <1>1, <1>2 DEF EscrowTypeOK, KnownTx, Settle

(* The buyer's confirmation and the seller's withdrawal settle for the     *)
(* seller a transaction nobody disputed.                                   *)
LEMMA ReleaseSettles ==
  ASSUME EscrowTypeOK, NEW sender, NEW t,
         ConfirmDelivery(sender, t) \/ Withdraw(sender, t)
  PROVE  /\ t \in KnownTx /\ Unsettled(t)
         /\ transactions[t].amount \in Nat
         /\ Settle(t, 0, transactions[t].amount)
BY DEF ConfirmDelivery, Withdraw, Settle, EscrowTypeOK, Transaction

(* A ruling that goes through settles the disputed transaction.            *)
LEMMA RuleSettles ==
  ASSUME EscrowTypeOK, NEW d \in DisputeIDs, NEW ruling \in Nat,
         Rule(d, ruling)
  PROVE  LET t     == arbitratorToTxId[d]
             share == BuyerShare(transactions[t].amount, ruling)
         IN
         /\ t \in KnownTx /\ transactions[t].state = "Open"
         /\ ruling \in 0..2
         /\ transactions[t].amount \in Nat
         /\ share \in Nat /\ transactions[t].amount - share \in Nat
         /\ Settle(t, share, transactions[t].amount - share)
<1> DEFINE t     == arbitratorToTxId[d]
           amount == transactions[t].amount
           share == BuyerShare(amount, ruling)
<1>1. t \in KnownTx /\ transactions[t].state = "Open" /\ ruling \in 0..2
  BY DEF Rule
<1>2. amount \in Nat
  BY <1>1 DEF EscrowTypeOK, Transaction
<1>3. share \in 0..amount /\ amount - share \in 0..amount
  BY <1>1, <1>2, ShareBounds DEF SellerShare
<1>4. Settle(t, share, amount - share)
  BY DEF Rule, Settle, SellerShare
<1> QED
  BY <1>1, <1>2, <1>3, <1>4

LEMMA CreateTransactionType ==
  ASSUME EscrowTypeOK,
         NEW buyer \in Users, NEW seller \in Holders, NEW amount \in TokenAmounts,
         CreateTransaction(buyer, seller, amount)
  PROVE  EscrowTypeOK'
<1> USE DEF EscrowTypeOK, CreateTransaction, KnownTx
<1>1. nextTxId' = nextTxId + 1 /\ nextTxId' \in 0..MaxTx /\ amount \in Nat \ {0}
  OBVIOUS
<1>2. [buyer |-> buyer, seller |-> seller, amount |-> amount, paidAt |-> now,
       state |-> "None", arbitratorDisputeID |-> 0] \in Transaction
  BY <1>1 DEF Transaction
<1>3. transactions' \in [0..nextTxId -> Transaction]
  BY <1>2
<1>4. paid' \in [0..nextTxId -> [buyer : Nat, seller : Nat]]
  OBVIOUS
<1>5. tokens' \in [Holders -> Nat]
  BY <1>1, TransferredType DEF Holders
<1>6. 0..(nextTxId' - 1) = 0..nextTxId
  BY <1>1
<1>7. arbitratorToTxId' \in [DisputeIDs -> Nat] /\ now' \in 0..MaxTime
  OBVIOUS
<1> QED
  BY <1>1, <1>3, <1>4, <1>5, <1>6, <1>7

LEMMA DisputeTransactionType ==
  ASSUME EscrowTypeOK, NEW sender, NEW t, NEW d \in DisputeIDs,
         DisputeTransaction(sender, t, d)
  PROVE  EscrowTypeOK'
<1>1. t \in KnownTx /\ t \in Nat /\ d \in Nat
  BY DEF DisputeTransaction, KnownTx, EscrowTypeOK
<1> DEFINE opened == [transactions[t] EXCEPT !.state = "Open",
                                             !.arbitratorDisputeID = d]
<1>2. transactions' \in [KnownTx -> Transaction]
  <2>1. transactions[t] \in Transaction
    BY <1>1 DEF EscrowTypeOK
  <2>2. opened \in Transaction
    BY <1>1, <2>1 DEF Transaction
  <2>3. transactions' = [transactions EXCEPT ![t] = opened]
    BY DEF DisputeTransaction
  <2> HIDE DEF opened
  <2> QED
    BY <1>1, <2>2, <2>3 DEF EscrowTypeOK
<1>3. arbitratorToTxId' \in [DisputeIDs -> Nat]
  BY <1>1 DEF DisputeTransaction, Link, EscrowTypeOK
<1> QED
  BY <1>2, <1>3 DEF DisputeTransaction, EscrowTypeOK, KnownTx

-----------------------------------------------------------------------------
(* The steps of the contracts, one case each.                              *)
LEMMA StepCases ==
  ASSUME [Next]_vars
  PROVE  \/ \E sender \in Users, t \in KnownTx, value \in Amounts :
              Dispute(sender, t, value)
         \/ \E a \in Arbitrables, choices \in Choices, value \in Amounts :
              ForeignDispute(a, choices, value)
         \/ \E panel \in Panels, d \in KnownDisputes, ruling \in Rulings,
               bundleHash \in Bundles :
              RuleEscrow(panel, d, ruling, bundleHash)
         \/ \E panel \in Panels, d \in KnownDisputes, ruling \in Rulings,
               bundleHash \in Bundles :
              RuleForeign(panel, d, ruling, bundleHash)
         \/ Administer /\ UNCHANGED escrowVars
         \/ UNCHANGED arbitratorVars /\
              \E buyer \in Users, seller \in Holders, amount \in TokenAmounts :
                CreateTransaction(buyer, seller, amount)
         \/ UNCHANGED arbitratorVars /\
              \E sender \in Users, t \in KnownTx :
                ConfirmDelivery(sender, t) \/ Withdraw(sender, t)
         \/ UNCHANGED arbitratorVars /\ Tick
         \/ UNCHANGED vars
BY Zenon DEF Next, Raise, Resolve, Trade

(* A dispute the escrow raises has an ID of its own mapping.               *)
LEMMA NextIDIsDisputeID ==
  ASSUME ArbitratorTypeOK, nextDisputeID < MaxDisputes
  PROVE  nextDisputeID \in DisputeIDs /\ nextDisputeID \notin KnownDisputes
BY DEF ArbitratorTypeOK, KnownDisputes

LEMMA KnownDisputeID ==
  ASSUME ArbitratorTypeOK, NEW d \in KnownDisputes
  PROVE  d \in DisputeIDs
BY DEF ArbitratorTypeOK, KnownDisputes

LEMMA TypeStep == TypeOK /\ [Next]_vars => TypeOK'
<1> SUFFICES ASSUME TypeOK, [Next]_vars
             PROVE  TypeOK'
  OBVIOUS
<1>0. ArbitratorTypeOK /\ EscrowTypeOK
  BY DEF TypeOK
<1>a. UNCHANGED arbitratorVars => ArbitratorTypeOK'
  BY <1>0 DEF arbitratorVars, ArbitratorTypeOK, RegistryTypeOK, KnownDisputes
<1>b. UNCHANGED escrowVars => EscrowTypeOK'
  BY <1>0 DEF escrowVars, EscrowTypeOK, KnownTx
<1>1. ASSUME NEW sender \in Users, NEW t \in KnownTx, NEW value \in Amounts,
             Dispute(sender, t, value)
      PROVE  TypeOK'
  <2>1. CreateDispute(Escrow, 2, value)
        /\ DisputeTransaction(sender, t, nextDisputeID)
    BY <1>1 DEF Dispute
  <2>2. ArbitratorTypeOK'
    BY <1>0, <2>1, CreateDisputeType
  <2>3. nextDisputeID \in DisputeIDs
    BY <1>0, <2>1, NextIDIsDisputeID DEF CreateDispute
  <2>4. EscrowTypeOK'
    BY <1>0, <2>1, <2>3, DisputeTransactionType
  <2> QED
    BY <2>2, <2>4 DEF TypeOK
<1>2. ASSUME NEW a \in Arbitrables, NEW choices \in Choices,
             NEW value \in Amounts, ForeignDispute(a, choices, value)
      PROVE  TypeOK'
  BY <1>0, <1>b, <1>2, CreateDisputeType DEF ForeignDispute, TypeOK
<1>3. ASSUME NEW panel \in Panels, NEW d \in KnownDisputes,
             NEW ruling \in Rulings, NEW bundleHash \in Bundles,
             RuleEscrow(panel, d, ruling, bundleHash)
      PROVE  TypeOK'
  <2>1. ExecuteRuling(panel, d, ruling, bundleHash) /\ Rule(d, ruling)
    BY <1>3 DEF RuleEscrow
  <2>2. ArbitratorTypeOK'
    BY <1>0, <2>1, ExecuteRulingType
  <2>3. d \in DisputeIDs /\ ruling \in Nat
    BY <1>0, KnownDisputeID
  <2>4. EscrowTypeOK'
    BY <1>0, <2>1, <2>3, RuleSettles, SettleType
  <2> QED
    BY <2>2, <2>4 DEF TypeOK
<1>4. ASSUME NEW panel \in Panels, NEW d \in KnownDisputes,
             NEW ruling \in Rulings, NEW bundleHash \in Bundles,
             RuleForeign(panel, d, ruling, bundleHash)
      PROVE  TypeOK'
  BY <1>0, <1>b, <1>4, ExecuteRulingType DEF RuleForeign, TypeOK
<1>5. CASE Administer /\ UNCHANGED escrowVars
  BY <1>0, <1>b, <1>5, AdministerType DEF TypeOK
<1>6. ASSUME UNCHANGED arbitratorVars,
             NEW buyer \in Users, NEW seller \in Holders,
             NEW amount \in TokenAmounts,
             CreateTransaction(buyer, seller, amount)
      PROVE  TypeOK'
  BY <1>0, <1>a, <1>6, CreateTransactionType DEF TypeOK
<1>7. ASSUME UNCHANGED arbitratorVars,
             NEW sender \in Users, NEW t \in KnownTx,
             ConfirmDelivery(sender, t) \/ Withdraw(sender, t)
      PROVE  TypeOK'
  <2>1. EscrowTypeOK'
    BY <1>0, <1>7, ReleaseSettles, SettleType
  <2> QED
    BY <1>a, <1>7, <2>1 DEF TypeOK
<1>8. CASE UNCHANGED arbitratorVars /\ Tick
  <2>1. EscrowTypeOK'
    BY <1>0, <1>8 DEF Tick, EscrowTypeOK, KnownTx
  <2> QED
    BY <1>a, <1>8, <2>1 DEF TypeOK
<1>9. CASE UNCHANGED vars
  BY <1>a, <1>b, <1>9 DEF vars, TypeOK
<1> QED
  BY <1>1, <1>2, <1>3, <1>4, <1>5, <1>6, <1>7, <1>8, <1>9, StepCases

LEMMA TypeInit == Init => TypeOK
<1> SUFFICES ASSUME Init
             PROVE  TypeOK
  OBVIOUS
<1>1. KnownDisputes = {} /\ KnownTx = {}
  BY DEF Init, ArbitratorInit, EscrowInit, KnownDisputes, KnownTx
<1>2. ArbitratorTypeOK
  BY <1>1 DEF Init, ArbitratorInit, ArbitratorTypeOK, RegistryInit, RegistryTypeOK
<1>3. EscrowTypeOK
  BY <1>1 DEF Init, EscrowInit, EscrowTypeOK
<1> QED
  BY <1>2, <1>3 DEF TypeOK

(* The state of the contracts is well typed in every behaviour; among its  *)
(* consequences, no balance ever goes negative and every ID stays inside   *)
(* the records the contracts hold.                                         *)
THEOREM TypeCorrect == Spec => []TypeOK
<1> QED
  BY TypeInit, TypeStep, PTL DEF Spec

-----------------------------------------------------------------------------
(* The inductive invariant: the correspondence between the two contracts   *)
(* is what makes a payout happen once and follow its own ruling.           *)
Inv ==
  /\ TypeOK
  /\ DisputeMatchesTransaction
  /\ PaidOnceInFull
  /\ RulingDecidesPayout

(* Settling t in full, out of a state where it had paid nothing.           *)
LEMMA SettlePays ==
  ASSUME EscrowTypeOK, PaidOnceInFull, NEW t \in KnownTx,
         transactions[t].state # "Closed",
         NEW toBuyer \in Nat, NEW toSeller \in Nat,
         toBuyer + toSeller = transactions[t].amount,
         Settle(t, toBuyer, toSeller)
  PROVE  /\ PaidOnceInFull'
         /\ paid'[t] = [buyer |-> toBuyer, seller |-> toSeller]
         /\ transactions'[t] = [transactions[t] EXCEPT !.state = "Closed"]
         /\ \A u \in KnownTx \ {t} :
              paid'[u] = paid[u] /\ transactions'[u] = transactions[u]
         /\ KnownTx' = KnownTx /\ arbitratorToTxId' = arbitratorToTxId
<1>1. /\ transactions \in [KnownTx -> Transaction]
      /\ paid \in [KnownTx -> [buyer : Nat, seller : Nat]]
  BY DEF EscrowTypeOK
<1>2. paid[t].buyer = 0 /\ paid[t].seller = 0
  <2>1. paid[t].buyer + paid[t].seller = 0
    BY DEF PaidOnceInFull
  <2> QED
    BY <1>1, <2>1
<1>3. paid' = [paid EXCEPT ![t] = [buyer |-> paid[t].buyer + toBuyer,
                                   seller |-> paid[t].seller + toSeller]]
  BY DEF Settle, PayOut
<1>4. paid'[t] = [buyer |-> toBuyer, seller |-> toSeller]
  BY <1>1, <1>2, <1>3
<1>5. transactions' =
        [transactions EXCEPT ![t] = [transactions[t] EXCEPT !.state = "Closed"]]
  BY DEF Settle, Close
<1>6. transactions'[t] = [transactions[t] EXCEPT !.state = "Closed"]
  BY <1>1, <1>5
<1>7. /\ transactions'[t].state = "Closed"
      /\ transactions'[t].amount = transactions[t].amount
  BY <1>1, <1>6 DEF Transaction
<1>8. \A u \in KnownTx \ {t} :
        paid'[u] = paid[u] /\ transactions'[u] = transactions[u]
  BY <1>1, <1>3, <1>5
<1>9. KnownTx' = KnownTx /\ arbitratorToTxId' = arbitratorToTxId
  BY DEF Settle, KnownTx
<1>10. PaidOnceInFull'
  BY <1>4, <1>7, <1>8, <1>9 DEF PaidOnceInFull
<1> QED
  BY <1>4, <1>6, <1>8, <1>9, <1>10

(* Disputes and transactions that a step leaves alone stay matched.        *)
LEMMA UnchangedEscrowKeepsInv ==
  ASSUME Inv, TypeOK', UNCHANGED escrowVars, KnownDisputes \subseteq KnownDisputes',
         \A d \in KnownDisputes' :
           disputes'[d].arbitrable = Escrow =>
             d \in KnownDisputes /\ disputes'[d] = disputes[d],
         \A d \in EscrowDisputes : disputes'[d] = disputes[d]
  PROVE  Inv'
<1> USE DEF Inv
<1>1. EscrowDisputes' = EscrowDisputes
  BY DEF EscrowDisputes
<1>2. KnownTx' = KnownTx
  BY DEF escrowVars, KnownTx
<1>3. /\ transactions' = transactions /\ paid' = paid
      /\ arbitratorToTxId' = arbitratorToTxId
  BY DEF escrowVars
<1>4. DisputeMatchesTransaction'
  BY <1>1, <1>2, <1>3 DEF DisputeMatchesTransaction
<1>5. PaidOnceInFull'
  BY <1>2, <1>3 DEF PaidOnceInFull
<1>6. RulingDecidesPayout'
  BY <1>1, <1>3 DEF RulingDecidesPayout
<1> QED
  BY <1>4, <1>5, <1>6

(* Raising a dispute keeps the invariant.                                  *)
LEMMA DisputeKeepsInv ==
  ASSUME Inv, TypeOK', NEW sender \in Users, NEW t \in KnownTx,
         NEW value \in Amounts, Dispute(sender, t, value)
  PROVE  Inv'
<1> DEFINE n == nextDisputeID
<1>1. ArbitratorTypeOK /\ EscrowTypeOK
  BY DEF Inv, TypeOK
<1>2. /\ KnownDisputes' = KnownDisputes \cup {n} /\ n \notin KnownDisputes
      /\ n \in DisputeIDs
      /\ disputes'[n].arbitrable = Escrow /\ disputes'[n].choices = 2
      /\ disputes'[n].status = "Waiting"
      /\ \A d \in KnownDisputes : disputes'[d] = disputes[d]
  <2>1. CreateDispute(Escrow, 2, value) /\ n \in DisputeIDs
    BY <1>1, NextIDIsDisputeID DEF Dispute, CreateDispute
  <2> QED
    BY <1>1, <2>1, CreateDisputeEffect
<1>3. EscrowDisputes' = EscrowDisputes \cup {n}
  BY <1>2 DEF EscrowDisputes
<1>4. transactions[t].state = "None"
  BY DEF Dispute, DisputeTransaction, Unsettled
<1>5. /\ transactions \in [KnownTx -> Transaction]
      /\ arbitratorToTxId \in [DisputeIDs -> Nat]
      /\ \A d \in EscrowDisputes : d \in DisputeIDs /\ d # n
  BY <1>1, <1>2, KnownDisputeID DEF EscrowTypeOK, EscrowDisputes
<1>6. /\ transactions' = [transactions EXCEPT ![t] =
                           [transactions[t] EXCEPT !.state = "Open",
                                                   !.arbitratorDisputeID = n]]
      /\ arbitratorToTxId' = [arbitratorToTxId EXCEPT ![n] = t]
      /\ paid' = paid /\ KnownTx' = KnownTx
  BY DEF Dispute, DisputeTransaction, Link, KnownTx
<1>7. transactions'[t] = [transactions[t] EXCEPT !.state = "Open",
                                                 !.arbitratorDisputeID = n]
  BY <1>5, <1>6
<1>8. /\ transactions'[t].state = "Open"
      /\ transactions'[t].arbitratorDisputeID = n
      /\ transactions'[t].amount = transactions[t].amount
  BY <1>5, <1>7 DEF Transaction
<1>9. \A u \in KnownTx \ {t} : transactions'[u] = transactions[u]
  BY <1>5, <1>6
<1>10. /\ arbitratorToTxId'[n] = t
       /\ \A d \in EscrowDisputes : arbitratorToTxId'[d] = arbitratorToTxId[d]
  BY <1>2, <1>5, <1>6
<1> HIDE DEF n
<1>11. \A d \in EscrowDisputes : arbitratorToTxId[d] \in KnownTx \ {t}
  BY <1>4 DEF Inv, DisputeMatchesTransaction
<1>12. \A d \in EscrowDisputes : disputes'[d] = disputes[d]
  BY <1>2 DEF EscrowDisputes
<1>13. DisputeMatchesTransaction'
  BY <1>2, <1>3, <1>6, <1>8, <1>9, <1>10, <1>11, <1>12
  DEF Inv, DisputeMatchesTransaction
<1>14. PaidOnceInFull'
  BY <1>4, <1>6, <1>8, <1>9 DEF Inv, PaidOnceInFull
<1>15. RulingDecidesPayout'
  BY <1>2, <1>3, <1>6, <1>10, <1>12 DEF Inv, RulingDecidesPayout
<1> QED
  BY <1>13, <1>14, <1>15 DEF Inv

(* Halving leaves at most one unit over.                                   *)
LEMMA HalfSplit ==
  ASSUME NEW n \in Nat
  PROVE  (n - (n \div 2)) - (n \div 2) \in {0, 1}
OBVIOUS

(* A ruling that reaches the escrow keeps the invariant.                   *)
LEMMA RuleEscrowKeepsInv ==
  ASSUME Inv, TypeOK', NEW panel \in Panels, NEW d \in KnownDisputes,
         NEW ruling \in Rulings, NEW bundleHash \in Bundles,
         RuleEscrow(panel, d, ruling, bundleHash)
  PROVE  Inv'
<1> DEFINE t      == arbitratorToTxId[d]
           amount == transactions[t].amount
           share  == BuyerShare(amount, ruling)
<1>1. ArbitratorTypeOK /\ EscrowTypeOK /\ d \in DisputeIDs /\ ruling \in Nat
  BY KnownDisputeID DEF Inv, TypeOK
<1>2. /\ KnownDisputes' = KnownDisputes
      /\ disputes'[d].arbitrable = disputes[d].arbitrable
      /\ disputes'[d].choices = disputes[d].choices
      /\ disputes'[d].status = "Solved"
      /\ disputes'[d].ruling = ruling
      /\ \A e \in KnownDisputes \ {d} : disputes'[e] = disputes[e]
  <2>1. ExecuteRuling(panel, d, ruling, bundleHash) /\ ArbitratorTypeOK
    BY <1>1 DEF RuleEscrow
  <2> QED
    BY <2>1, ExecuteRulingEffect
<1>3. d \in EscrowDisputes /\ EscrowDisputes' = EscrowDisputes
  BY <1>2 DEF EscrowDisputes, RuleEscrow
<1>4. /\ t \in KnownTx /\ transactions[t].state = "Open"
      /\ ruling \in 0..2 /\ amount \in Nat
      /\ share \in Nat /\ amount - share \in Nat
      /\ Settle(t, share, amount - share)
  BY <1>1, RuleSettles DEF RuleEscrow
<1>5. /\ PaidOnceInFull'
      /\ paid'[t] = [buyer |-> share, seller |-> amount - share]
      /\ transactions'[t] = [transactions[t] EXCEPT !.state = "Closed"]
      /\ \A u \in KnownTx \ {t} :
           paid'[u] = paid[u] /\ transactions'[u] = transactions[u]
      /\ KnownTx' = KnownTx /\ arbitratorToTxId' = arbitratorToTxId
  <2>1. share + (amount - share) = amount
    BY <1>4
  <2> HIDE DEF share
  <2> QED
    BY <1>1, <1>4, <2>1, SettlePays DEF Inv
<1>6. /\ transactions'[t].state = "Closed"
      /\ transactions'[t].arbitratorDisputeID
           = transactions[t].arbitratorDisputeID
  <2>1. transactions[t] \in Transaction
    BY <1>1, <1>4 DEF EscrowTypeOK
  <2> QED
    BY <1>5, <2>1 DEF Transaction
<1>7. \A e \in EscrowDisputes \ {d} :
        /\ arbitratorToTxId[e] \in KnownTx \ {t}
        /\ disputes'[e] = disputes[e]
  BY <1>2, <1>3 DEF Inv, DisputeMatchesTransaction, EscrowDisputes
<1>8. DisputeMatchesTransaction'
  <2>1. ASSUME NEW e \in EscrowDisputes'
        PROVE  LET u == arbitratorToTxId'[e]
               IN /\ u \in KnownTx'
                  /\ transactions'[u].arbitratorDisputeID = e
                  /\ disputes'[e].choices = 2
                  /\ transactions'[u].state =
                       IF disputes'[e].status = "Waiting" THEN "Open" ELSE "Closed"
    <3>1. CASE e = d
      BY <1>2, <1>3, <1>4, <1>5, <1>6, <3>1 DEF Inv, DisputeMatchesTransaction
    <3>2. CASE e # d
      <4> HIDE DEF t
      <4>1. /\ e \in EscrowDisputes \ {d}
            /\ arbitratorToTxId[e] \in KnownTx \ {t}
            /\ disputes'[e] = disputes[e]
            /\ arbitratorToTxId'[e] = arbitratorToTxId[e]
        BY <1>3, <1>5, <1>7, <3>2
      <4>2. transactions'[arbitratorToTxId[e]] = transactions[arbitratorToTxId[e]]
        BY <1>5, <4>1
      <4> QED
        BY <1>5, <4>1, <4>2 DEF Inv, DisputeMatchesTransaction
    <3> QED
      BY <3>1, <3>2
  <2>2. ASSUME NEW u \in KnownTx', transactions'[u].state = "Open"
        PROVE  LET e == transactions'[u].arbitratorDisputeID
               IN e \in EscrowDisputes' /\ arbitratorToTxId'[e] = u
    <3> HIDE DEF t
    <3>1. u \in KnownTx \ {t}
      BY <1>5, <1>6, <2>2
    <3> QED
      BY <1>3, <1>5, <2>2, <3>1 DEF Inv, DisputeMatchesTransaction
  <2> QED
    BY <2>1, <2>2 DEF DisputeMatchesTransaction
<1>9. /\ ruling = 1 => paid'[t].seller = 0
      /\ ruling = 2 => paid'[t].buyer = 0
      /\ ruling = 0 => paid'[t].seller - paid'[t].buyer \in {0, 1}
  <2>1. CASE ruling = 0
    <3>1. (amount - share) - share \in {0, 1}
      <4>1. share = amount \div 2
        BY <2>1 DEF BuyerShare
      <4> HIDE DEF share, amount
      <4> QED
        BY <1>4, <4>1, HalfSplit
    <3> HIDE DEF share, amount, t
    <3> QED
      BY <1>5, <2>1, <3>1
  <2>2. CASE ruling = 1
    <3>1. amount - share = 0
      BY <1>4, <2>2 DEF BuyerShare
    <3> HIDE DEF share, amount, t
    <3> QED
      BY <1>5, <2>2, <3>1
  <2>3. CASE ruling = 2
    <3>1. share = 0
      BY <1>4, <2>3 DEF BuyerShare
    <3> HIDE DEF share, amount, t
    <3> QED
      BY <1>5, <2>3, <3>1
  <2> QED
    BY <1>4, <2>1, <2>2, <2>3
<1>10. RulingDecidesPayout'
  <2> HIDE DEF t
  <2>1. \A e \in EscrowDisputes \ {d} :
          /\ disputes'[e] = disputes[e]
          /\ arbitratorToTxId'[e] = arbitratorToTxId[e]
          /\ paid'[arbitratorToTxId'[e]] = paid[arbitratorToTxId[e]]
    BY <1>5, <1>7
  <2>2. arbitratorToTxId'[d] = t
    BY <1>5 DEF t
  <2> QED
    BY <1>2, <1>3, <1>9, <2>1, <2>2 DEF Inv, RulingDecidesPayout
<1> QED
  BY <1>5, <1>8, <1>10 DEF Inv

(* Settling an undisputed transaction keeps the invariant.                 *)
LEMMA ReleaseKeepsInv ==
  ASSUME Inv, TypeOK', UNCHANGED arbitratorVars,
         NEW sender, NEW t, ConfirmDelivery(sender, t) \/ Withdraw(sender, t)
  PROVE  Inv'
<1>1. EscrowTypeOK
  BY DEF Inv, TypeOK
<1>2. /\ t \in KnownTx /\ transactions[t].state = "None"
      /\ transactions[t].amount \in Nat
      /\ Settle(t, 0, transactions[t].amount)
  BY <1>1, ReleaseSettles DEF Unsettled
<1>3. /\ PaidOnceInFull'
      /\ transactions'[t] = [transactions[t] EXCEPT !.state = "Closed"]
      /\ \A u \in KnownTx \ {t} :
           paid'[u] = paid[u] /\ transactions'[u] = transactions[u]
      /\ KnownTx' = KnownTx /\ arbitratorToTxId' = arbitratorToTxId
  <2>1. /\ transactions[t].state # "Closed"
        /\ 0 \in Nat /\ 0 + transactions[t].amount = transactions[t].amount
    BY <1>2
  <2>2. PaidOnceInFull
    BY DEF Inv
  <2> QED
    BY <1>1, <1>2, <2>1, <2>2, SettlePays
<1>4. /\ KnownDisputes' = KnownDisputes /\ disputes' = disputes
      /\ EscrowDisputes' = EscrowDisputes
  BY DEF arbitratorVars, KnownDisputes, EscrowDisputes
<1>5. \A d \in EscrowDisputes : arbitratorToTxId[d] \in KnownTx \ {t}
  BY <1>2 DEF Inv, DisputeMatchesTransaction
<1>6. transactions'[t].state = "Closed"
  <2>1. transactions[t] \in Transaction
    BY <1>1, <1>2 DEF EscrowTypeOK
  <2> QED
    BY <1>3, <2>1 DEF Transaction
<1>7. DisputeMatchesTransaction'
  <2>1. \A d \in EscrowDisputes :
          transactions'[arbitratorToTxId[d]] = transactions[arbitratorToTxId[d]]
    BY <1>3, <1>5
  <2>2. \A u \in KnownTx : transactions'[u].state = "Open" =>
          u # t /\ transactions'[u] = transactions[u]
    BY <1>3, <1>6
  <2> QED
    BY <1>3, <1>4, <1>5, <2>1, <2>2 DEF Inv, DisputeMatchesTransaction
<1>8. RulingDecidesPayout'
  BY <1>3, <1>4, <1>5 DEF Inv, RulingDecidesPayout
<1> QED
  BY <1>3, <1>7, <1>8 DEF Inv

(* A new transaction keeps the invariant: its ID is in no mapping yet.     *)
LEMMA CreateTransactionKeepsInv ==
  ASSUME Inv, TypeOK', UNCHANGED arbitratorVars,
         NEW buyer \in Users, NEW seller \in Holders,
         NEW amount \in TokenAmounts, CreateTransaction(buyer, seller, amount)
  PROVE  Inv'
<1>1. nextTxId \in Nat /\ nextTxId \notin KnownTx
  BY DEF Inv, TypeOK, EscrowTypeOK, KnownTx
<1>2. KnownTx' = KnownTx \cup {nextTxId}
  BY <1>1 DEF CreateTransaction, KnownTx
<1>3. /\ transactions'[nextTxId].state = "None"
      /\ paid'[nextTxId] = [buyer |-> 0, seller |-> 0]
      /\ arbitratorToTxId' = arbitratorToTxId
      /\ \A u \in KnownTx :
           paid'[u] = paid[u] /\ transactions'[u] = transactions[u]
  BY <1>1 DEF CreateTransaction, KnownTx
<1>4. /\ KnownDisputes' = KnownDisputes /\ disputes' = disputes
      /\ EscrowDisputes' = EscrowDisputes
  BY DEF arbitratorVars, KnownDisputes, EscrowDisputes
<1>5. DisputeMatchesTransaction'
  BY <1>1, <1>2, <1>3, <1>4 DEF Inv, DisputeMatchesTransaction
<1>6. PaidOnceInFull'
  BY <1>1, <1>2, <1>3 DEF Inv, PaidOnceInFull
<1>7. RulingDecidesPayout'
  <2>1. \A d \in EscrowDisputes : arbitratorToTxId[d] \in KnownTx
    BY DEF Inv, DisputeMatchesTransaction
  <2> QED
    BY <1>3, <1>4, <2>1 DEF Inv, RulingDecidesPayout
<1> QED
  BY <1>5, <1>6, <1>7 DEF Inv

LEMMA InvInit == Init => Inv
<1> SUFFICES ASSUME Init
             PROVE  Inv
  OBVIOUS
<1>1. TypeOK
  BY TypeInit
<1>2. KnownDisputes = {} /\ KnownTx = {}
  BY DEF Init, ArbitratorInit, EscrowInit, KnownDisputes, KnownTx
<1> QED
  BY <1>1, <1>2 DEF Inv, EscrowDisputes, DisputeMatchesTransaction,
                    PaidOnceInFull, RulingDecidesPayout

LEMMA InvStep == Inv /\ [Next]_vars => Inv'
<1> SUFFICES ASSUME Inv, [Next]_vars
             PROVE  Inv'
  OBVIOUS
<1>0. TypeOK' /\ ArbitratorTypeOK
  BY TypeStep DEF Inv, TypeOK
<1>a. ASSUME UNCHANGED escrowVars, disputes' = disputes,
             nextDisputeID' = nextDisputeID
      PROVE  Inv'
  <2>1. KnownDisputes' = KnownDisputes
    BY <1>a DEF KnownDisputes
  <2> QED
    BY <1>0, <1>a, <2>1, UnchangedEscrowKeepsInv DEF EscrowDisputes
<1>1. ASSUME NEW sender \in Users, NEW t \in KnownTx, NEW value \in Amounts,
             Dispute(sender, t, value)
      PROVE  Inv'
  BY <1>0, <1>1, DisputeKeepsInv
<1>2. ASSUME NEW a \in Arbitrables, NEW choices \in Choices,
             NEW value \in Amounts, ForeignDispute(a, choices, value)
      PROVE  Inv'
  <2>1. /\ KnownDisputes' = KnownDisputes \cup {nextDisputeID}
        /\ disputes'[nextDisputeID].arbitrable # Escrow
        /\ \A d \in KnownDisputes : disputes'[d] = disputes[d]
    BY <1>0, <1>2, CreateDisputeEffect DEF ForeignDispute
  <2>2. UNCHANGED escrowVars
    BY <1>2 DEF ForeignDispute
  <2> QED
    BY <1>0, <2>1, <2>2, UnchangedEscrowKeepsInv DEF EscrowDisputes
<1>3. ASSUME NEW panel \in Panels, NEW d \in KnownDisputes,
             NEW ruling \in Rulings, NEW bundleHash \in Bundles,
             RuleEscrow(panel, d, ruling, bundleHash)
      PROVE  Inv'
  BY <1>0, <1>3, RuleEscrowKeepsInv
<1>4. ASSUME NEW panel \in Panels, NEW d \in KnownDisputes,
             NEW ruling \in Rulings, NEW bundleHash \in Bundles,
             RuleForeign(panel, d, ruling, bundleHash)
      PROVE  Inv'
  <2>1. /\ KnownDisputes' = KnownDisputes
        /\ disputes'[d].arbitrable = disputes[d].arbitrable
        /\ disputes[d].arbitrable # Escrow
        /\ \A e \in KnownDisputes \ {d} : disputes'[e] = disputes[e]
    BY <1>0, <1>4, ExecuteRulingEffect DEF RuleForeign
  <2>2. UNCHANGED escrowVars
    BY <1>4 DEF RuleForeign
  <2> QED
    BY <1>0, <2>1, <2>2, UnchangedEscrowKeepsInv DEF EscrowDisputes
<1>5. CASE Administer /\ UNCHANGED escrowVars
  BY <1>a, <1>5 DEF Administer, ManageRegistry, SetArbitrationFee,
                    WithdrawFees, Receive
<1>6. ASSUME UNCHANGED arbitratorVars,
             NEW buyer \in Users, NEW seller \in Holders,
             NEW amount \in TokenAmounts,
             CreateTransaction(buyer, seller, amount)
      PROVE  Inv'
  BY <1>0, <1>6, CreateTransactionKeepsInv
<1>7. ASSUME UNCHANGED arbitratorVars,
             NEW sender \in Users, NEW t \in KnownTx,
             ConfirmDelivery(sender, t) \/ Withdraw(sender, t)
      PROVE  Inv'
  BY <1>0, <1>7, ReleaseKeepsInv
<1>8. CASE UNCHANGED arbitratorVars /\ Tick
  <2>1. /\ KnownTx' = KnownTx /\ KnownDisputes' = KnownDisputes
        /\ EscrowDisputes' = EscrowDisputes /\ disputes' = disputes
        /\ transactions' = transactions /\ paid' = paid
        /\ arbitratorToTxId' = arbitratorToTxId
    BY <1>8 DEF Tick, arbitratorVars, KnownTx, KnownDisputes, EscrowDisputes
  <2>2. DisputeMatchesTransaction'
    BY <2>1 DEF Inv, DisputeMatchesTransaction
  <2>3. PaidOnceInFull' /\ RulingDecidesPayout'
    BY <2>1 DEF Inv, PaidOnceInFull, RulingDecidesPayout
  <2> QED
    BY <1>0, <2>2, <2>3 DEF Inv
<1>9. CASE UNCHANGED vars
  BY <1>a, <1>9 DEF vars, arbitratorVars
<1> QED
  BY <1>1, <1>2, <1>3, <1>4, <1>5, <1>6, <1>7, <1>8, <1>9, StepCases

(* The inductive invariant holds in every behaviour.                       *)
LEMMA Invariance == Spec => []Inv
<1> QED
  BY InvInit, InvStep, PTL DEF Spec

(* The escrow and the arbitrator never disagree about a dispute.           *)
THEOREM DisputesMatch == Spec => []DisputeMatchesTransaction
<1>1. Inv => DisputeMatchesTransaction
  BY DEF Inv
<1> QED
  BY <1>1, Invariance, PTL

(* Every transaction pays its amount exactly once, and nothing before.     *)
THEOREM PaysOnce == Spec => []PaidOnceInFull
<1>1. Inv => PaidOnceInFull
  BY DEF Inv
<1> QED
  BY <1>1, Invariance, PTL

(* The money of a solved dispute followed the ruling on record.            *)
THEOREM PayoutFollowsRuling == Spec => []RulingDecidesPayout
<1>1. Inv => RulingDecidesPayout
  BY DEF Inv
<1> QED
  BY <1>1, Invariance, PTL

-----------------------------------------------------------------------------
(* What the escrow's tokens stand for, transaction by transaction.         *)
OwedOn(t) ==
  IF transactions[t].state # "Closed" THEN transactions[t].amount
  ELSE IF transactions[t].seller = Escrow THEN paid[t].seller
  ELSE 0

Owed == [t \in KnownTx |-> OwedOn(t)]

LEMMA OwedType ==
  ASSUME EscrowTypeOK
  PROVE  /\ IsFiniteSet(KnownTx) /\ Owed \in [KnownTx -> Nat]
         /\ SumFunction(Owed) \in Nat
<1>1. IsFiniteSet(KnownTx)
  BY FS_Interval DEF EscrowTypeOK, KnownTx
<1>2. \A t \in KnownTx : OwedOn(t) \in Nat
  BY DEF EscrowTypeOK, Transaction, OwedOn
<1>3. Owed \in [KnownTx -> Nat]
  BY <1>2 DEF Owed
<1> QED
  BY <1>1, <1>3, SumType

LEMMA OwedTypeAfter ==
  ASSUME EscrowTypeOK'
  PROVE  Owed' \in [KnownTx' -> Nat]
<1>1. \A t \in KnownTx' : OwedOn(t)' \in Nat
  BY DEF EscrowTypeOK, Transaction, OwedOn
<1> QED
  BY <1>1 DEF Owed

(* A transfer into the escrow, and one out of it.                          *)
LEMMA TransferredIn ==
  ASSUME NEW balances \in [Holders -> Nat], NEW from \in Users,
         NEW amount \in Nat
  PROVE  Transferred(balances, from, Escrow, amount)[Escrow]
           = balances[Escrow] + amount
<1>1. from \in Holders /\ Escrow \in Holders /\ from # Escrow
  BY DEF Holders
<1> QED
  BY <1>1 DEF Transferred, Debited

LEMMA TransferredOut ==
  ASSUME NEW balances \in [Holders -> Nat], NEW to \in Holders,
         NEW amount \in Nat
  PROVE  Transferred(balances, Escrow, to, amount)[Escrow]
           = IF to = Escrow THEN balances[Escrow] ELSE balances[Escrow] - amount
<1>1. Escrow \in Holders
  BY DEF Holders
<1>2. CASE to = Escrow
  BY <1>1, <1>2 DEF Transferred, Debited
<1>3. CASE to # Escrow
  BY <1>1, <1>3 DEF Transferred, Debited
<1> QED
  BY <1>2, <1>3

(* What paying t out takes from the escrow: all of it, unless the escrow   *)
(* is itself the seller.                                                   *)
LEMMA PayOutTakes ==
  ASSUME EscrowTypeOK, NEW t \in KnownTx,
         NEW toBuyer \in Nat, NEW toSeller \in Nat,
         PayOut(t, toBuyer, toSeller)
  PROVE  tokens'[Escrow] =
           IF transactions[t].seller = Escrow
           THEN tokens[Escrow] - toBuyer
           ELSE tokens[Escrow] - toBuyer - toSeller
<1> DEFINE buyer  == transactions[t].buyer
           seller == transactions[t].seller
           first  == Transferred(tokens, Escrow, buyer, toBuyer)
<1>1. /\ tokens \in [Holders -> Nat] /\ Escrow \in Holders
      /\ buyer \in Holders /\ buyer # Escrow /\ seller \in Holders
  BY DEF EscrowTypeOK, Transaction, Holders
<1>2. tokens[Escrow] \in Nat /\ tokens[Escrow] >= toBuyer
  BY <1>1 DEF PayOut
<1>3. first \in [Holders -> Nat]
  BY <1>1, <1>2, TransferredType
<1>4. first[Escrow] = tokens[Escrow] - toBuyer
  BY <1>1, TransferredOut
<1>5. tokens' = Transferred(first, Escrow, seller, toSeller)
  BY DEF PayOut
<1> HIDE DEF first
<1>6. tokens'[Escrow] =
        IF seller = Escrow THEN first[Escrow] ELSE first[Escrow] - toSeller
  BY <1>1, <1>3, <1>5, TransferredOut
<1> QED
  BY <1>4, <1>6

(* Settling t takes from the escrow what t no longer stands for.           *)
LEMMA SettleKeepsBacked ==
  ASSUME EscrowTypeOK, PaidOnceInFull, EscrowBacked, NEW t \in KnownTx,
         transactions[t].state # "Closed",
         NEW toBuyer \in Nat, NEW toSeller \in Nat,
         toBuyer + toSeller = transactions[t].amount,
         Settle(t, toBuyer, toSeller)
  PROVE  EscrowBacked'
<1>1. /\ PaidOnceInFull'
      /\ paid'[t] = [buyer |-> toBuyer, seller |-> toSeller]
      /\ transactions'[t] = [transactions[t] EXCEPT !.state = "Closed"]
      /\ \A u \in KnownTx \ {t} :
           paid'[u] = paid[u] /\ transactions'[u] = transactions[u]
      /\ KnownTx' = KnownTx /\ arbitratorToTxId' = arbitratorToTxId
  BY SettlePays
<1>2. transactions[t] \in Transaction
  BY DEF EscrowTypeOK
<1>3. /\ transactions'[t].state = "Closed"
      /\ transactions'[t].seller = transactions[t].seller
  BY <1>1, <1>2 DEF Transaction
<1> DEFINE left == IF transactions[t].seller = Escrow THEN toSeller ELSE 0
<1>4. /\ Owed'[t] = left /\ Owed[t] = toBuyer + toSeller /\ left \in Nat
      /\ \A u \in KnownTx \ {t} : Owed'[u] = Owed[u]
  <2>1. OwedOn(t)' = left
    BY <1>1, <1>3 DEF OwedOn
  <2>2. OwedOn(t) = toBuyer + toSeller
    BY DEF OwedOn
  <2>3. \A u \in KnownTx \ {t} : OwedOn(u)' = OwedOn(u)
    BY <1>1 DEF OwedOn
  <2> QED
    BY <1>1, <2>1, <2>2, <2>3 DEF Owed
<1>5. /\ IsFiniteSet(KnownTx) /\ Owed \in [KnownTx -> Nat]
      /\ Owed' \in [KnownTx -> Nat]
  <2>1. EscrowTypeOK'
    BY SettleType
  <2>2. Owed' \in [KnownTx' -> Nat]
    BY <2>1, OwedTypeAfter
  <2> QED
    BY <1>1, <2>2, OwedType
<1>6. /\ SumFunction(Owed) \in Nat /\ SumFunction(Owed') \in Nat
      /\ SumFunction(Owed') + Owed[t] = SumFunction(Owed) + Owed'[t]
  BY <1>4, <1>5, SumChanges
<1>7. /\ tokens'[Escrow] = tokens[Escrow] - (toBuyer + toSeller) + left
      /\ tokens[Escrow] = SumFunction(Owed) /\ tokens[Escrow] \in Nat
  <2>1. tokens[Escrow] \in Nat
    BY DEF EscrowTypeOK, Holders
  <2>2. tokens[Escrow] = SumFunction(Owed)
    BY DEF EscrowBacked, Owed, OwedOn
  <2>3. tokens'[Escrow] = IF transactions[t].seller = Escrow
                          THEN tokens[Escrow] - toBuyer
                          ELSE tokens[Escrow] - toBuyer - toSeller
    BY PayOutTakes DEF Settle
  <2>4. CASE transactions[t].seller = Escrow
    BY <2>1, <2>2, <2>3, <2>4
  <2>5. CASE transactions[t].seller # Escrow
    BY <2>1, <2>2, <2>3, <2>5
  <2> QED
    BY <2>4, <2>5
<1>8. tokens'[Escrow] = SumFunction(Owed')
  <2> HIDE DEF left
  <2> QED
    BY <1>4, <1>6, <1>7
<1> QED
  BY <1>8 DEF EscrowBacked, Owed, OwedOn

(* A deposit adds to the escrow what the new transaction stands for.       *)
LEMMA CreateKeepsBacked ==
  ASSUME EscrowTypeOK, EscrowBacked,
         NEW buyer \in Users, NEW seller \in Holders, NEW amount \in TokenAmounts,
         CreateTransaction(buyer, seller, amount)
  PROVE  EscrowBacked'
<1>1. /\ KnownTx' = KnownTx \cup {nextTxId} /\ nextTxId \notin KnownTx
      /\ transactions'[nextTxId].state = "None"
      /\ transactions'[nextTxId].amount = amount
      /\ \A t \in KnownTx :
           paid'[t] = paid[t] /\ transactions'[t] = transactions[t]
  BY DEF CreateTransaction, EscrowTypeOK, KnownTx
<1>2. /\ Owed'[nextTxId] = amount
      /\ \A t \in KnownTx : Owed'[t] = Owed[t]
  BY <1>1 DEF Owed, OwedOn
<1>3. /\ IsFiniteSet(KnownTx) /\ Owed \in [KnownTx -> Nat]
      /\ Owed' \in [KnownTx \cup {nextTxId} -> Nat]
  <2>1. EscrowTypeOK'
    BY CreateTransactionType
  <2>2. Owed' \in [KnownTx' -> Nat]
    BY <2>1, OwedTypeAfter
  <2> QED
    BY <1>1, <2>2, OwedType
<1>4. /\ SumFunction(Owed) \in Nat
      /\ SumFunction(Owed') = SumFunction(Owed) + amount
  <2>1. PICK n : n = nextTxId
    OBVIOUS
  <2>2. /\ n \notin KnownTx /\ Owed' \in [KnownTx \cup {n} -> Nat]
        /\ \A t \in KnownTx : Owed'[t] = Owed[t]
    BY <1>1, <1>2, <1>3, <2>1
  <2>3. /\ SumFunction(Owed) \in Nat
        /\ SumFunction(Owed') = SumFunction(Owed) + Owed'[n]
    BY <1>3, <2>2, SumGrows
  <2> QED
    BY <1>2, <2>1, <2>3
<1>5. /\ tokens'[Escrow] = tokens[Escrow] + amount
      /\ tokens[Escrow] = SumFunction(Owed)
  BY TransferredIn DEF CreateTransaction, EscrowTypeOK, EscrowBacked, Owed, OwedOn
<1>6. tokens'[Escrow] = SumFunction(Owed')
  BY <1>4, <1>5
<1> QED
  BY <1>6 DEF EscrowBacked, Owed, OwedOn

(* A step that moves no tokens and closes nothing.                         *)
LEMMA QuietKeepsBacked ==
  ASSUME EscrowBacked, UNCHANGED <<tokens, paid, nextTxId>>,
         \A t \in KnownTx :
           /\ transactions'[t].amount = transactions[t].amount
           /\ transactions'[t].seller = transactions[t].seller
           /\ transactions'[t].state = "Closed"
                <=> transactions[t].state = "Closed"
  PROVE  EscrowBacked'
<1>1. KnownTx' = KnownTx
  BY DEF KnownTx
<1>2. \A t \in KnownTx : OwedOn(t)' = OwedOn(t)
  BY DEF OwedOn
<1>3. Owed' = Owed
  BY <1>1, <1>2 DEF Owed
<1> QED
  BY <1>3 DEF EscrowBacked, Owed, OwedOn

(* Whoever confirms, withdraws, disputes or rules, and whatever the        *)
(* amounts, the escrow holds exactly the tokens of its unsettled           *)
(* transactions (and what it was paid as a seller).                        *)
THEOREM EscrowIsBacked == Spec => []EscrowBacked
<1>1. Init => EscrowBacked
  <2> SUFFICES ASSUME Init
               PROVE  EscrowBacked
    OBVIOUS
  <2>1. KnownTx = {} /\ tokens[Escrow] = 0
    BY DEF Init, EscrowInit, KnownTx, Holders
  <2>2. Owed \in [{} -> Nat]
    BY <2>1 DEF Owed
  <2>3. SumFunction(Owed) = 0
    BY <2>2, SumEmpty
  <2> QED
    BY <2>1, <2>3 DEF EscrowBacked, Owed, OwedOn
<1>2. Inv /\ EscrowBacked /\ [Next]_vars => EscrowBacked'
  <2> SUFFICES ASSUME Inv, EscrowBacked, [Next]_vars
               PROVE  EscrowBacked'
    OBVIOUS
  <2>0. ArbitratorTypeOK /\ EscrowTypeOK /\ PaidOnceInFull
    BY DEF Inv, TypeOK
  <2>1. ASSUME NEW sender \in Users, NEW t \in KnownTx, NEW value \in Amounts,
               Dispute(sender, t, value)
        PROVE  EscrowBacked'
    <3>1. /\ transactions[t].state = "None"
          /\ UNCHANGED <<tokens, paid, nextTxId>>
          /\ transactions' = [transactions EXCEPT ![t] =
                [transactions[t] EXCEPT !.state = "Open",
                                        !.arbitratorDisputeID = nextDisputeID]]
      BY <2>1 DEF Dispute, DisputeTransaction, Unsettled
    <3>2. transactions \in [KnownTx -> Transaction]
      BY <2>0 DEF EscrowTypeOK
    <3>3. /\ transactions'[t].amount = transactions[t].amount
          /\ transactions'[t].seller = transactions[t].seller
          /\ transactions'[t].state = "Open"
          /\ \A u \in KnownTx \ {t} : transactions'[u] = transactions[u]
      BY <3>1, <3>2 DEF Transaction
    <3> QED
      BY <3>1, <3>3, QuietKeepsBacked
  <2>2. ASSUME NEW panel \in Panels, NEW d \in KnownDisputes,
               NEW ruling \in Rulings, NEW bundleHash \in Bundles,
               RuleEscrow(panel, d, ruling, bundleHash)
        PROVE  EscrowBacked'
    <3> DEFINE t      == arbitratorToTxId[d]
               amount == transactions[t].amount
               share  == BuyerShare(amount, ruling)
    <3>1. d \in DisputeIDs /\ ruling \in Nat
      BY <2>0, KnownDisputeID
    <3>2. /\ t \in KnownTx /\ transactions[t].state = "Open"
          /\ amount \in Nat /\ share \in Nat /\ amount - share \in Nat
          /\ Settle(t, share, amount - share)
      BY <2>0, <2>2, <3>1, RuleSettles DEF RuleEscrow
    <3> HIDE DEF share
    <3>3. share + (amount - share) = amount
      BY <3>2
    <3> QED
      BY <2>0, <3>2, <3>3, SettleKeepsBacked
  <2>3. ASSUME NEW buyer \in Users, NEW seller \in Holders,
               NEW amount \in TokenAmounts,
               CreateTransaction(buyer, seller, amount)
        PROVE  EscrowBacked'
    BY <2>0, <2>3, CreateKeepsBacked
  <2>4. ASSUME NEW sender \in Users, NEW t \in KnownTx,
               ConfirmDelivery(sender, t) \/ Withdraw(sender, t)
        PROVE  EscrowBacked'
    <3>1. /\ transactions[t].state = "None"
          /\ transactions[t].amount \in Nat
          /\ Settle(t, 0, transactions[t].amount)
      BY <2>0, <2>4, ReleaseSettles DEF Unsettled
    <3>2. /\ 0 \in Nat /\ 0 + transactions[t].amount = transactions[t].amount
          /\ transactions[t].state # "Closed"
      BY <3>1
    <3> QED
      BY <2>0, <3>1, <3>2, SettleKeepsBacked
  <2>5. ASSUME UNCHANGED escrowVars \/ Tick
        PROVE  EscrowBacked'
    BY <2>5, QuietKeepsBacked DEF escrowVars, Tick
  <2>6. /\ \A a, choices, value :
             ForeignDispute(a, choices, value) => UNCHANGED escrowVars
        /\ \A panel, d, ruling, bundleHash :
             RuleForeign(panel, d, ruling, bundleHash) => UNCHANGED escrowVars
        /\ UNCHANGED vars => UNCHANGED escrowVars
    BY DEF ForeignDispute, RuleForeign, vars
  <2> QED
    BY <2>1, <2>2, <2>3, <2>4, <2>5, <2>6, StepCases
<1> QED
  BY <1>1, <1>2, Invariance, PTL DEF Spec

-----------------------------------------------------------------------------
(* A disputed transaction is settled only by the step that solves its      *)
(* dispute, never by a confirmation or a withdrawal that races with it.    *)
THEOREM DisputedIsFrozen == Spec => OnlyRulingSettlesDisputed
<1> DEFINE Frozen ==
      \A t \in KnownTx :
        LET d == transactions[t].arbitratorDisputeID
        IN
        transactions[t].state = "Open" /\
        (transactions'[t] # transactions[t] \/ paid'[t] # paid[t]) =>
          /\ disputes[d].status = "Waiting" /\ disputes'[d].status = "Solved"
          /\ transactions'[t].state = "Closed"
<1>1. ASSUME Inv, [Next]_vars
      PROVE  Frozen
  <2> SUFFICES ASSUME NEW t \in KnownTx, transactions[t].state = "Open",
                      transactions'[t] # transactions[t] \/ paid'[t] # paid[t]
               PROVE  LET d == transactions[t].arbitratorDisputeID
                      IN /\ disputes[d].status = "Waiting"
                         /\ disputes'[d].status = "Solved"
                         /\ transactions'[t].state = "Closed"
    OBVIOUS
  <2>0. ArbitratorTypeOK /\ EscrowTypeOK
    BY <1>1 DEF Inv, TypeOK
  <2>a. ~UNCHANGED escrowVars
    BY DEF escrowVars
  <2>1. ASSUME NEW sender \in Users, NEW u \in KnownTx, NEW value \in Amounts,
               Dispute(sender, u, value)
        PROVE  FALSE
    <3>1. transactions[u].state = "None"
      BY <2>1 DEF Dispute, DisputeTransaction, Unsettled
    <3>2. transactions'[t] = transactions[t] /\ paid'[t] = paid[t]
      BY <2>0, <2>1, <3>1 DEF Dispute, DisputeTransaction, EscrowTypeOK
    <3> QED
      BY <3>2
  <2>2. ASSUME NEW panel \in Panels, NEW d \in KnownDisputes,
               NEW ruling \in Rulings, NEW bundleHash \in Bundles,
               RuleEscrow(panel, d, ruling, bundleHash)
        PROVE  /\ d = transactions[t].arbitratorDisputeID
               /\ disputes[d].status = "Waiting" /\ disputes'[d].status = "Solved"
               /\ transactions'[t].state = "Closed"
    <3> DEFINE u == arbitratorToTxId[d]
               share == BuyerShare(transactions[u].amount, ruling)
    <3>1. d \in DisputeIDs /\ ruling \in Nat
      BY <2>0, KnownDisputeID
    <3>2. /\ u \in KnownTx /\ transactions[u].state = "Open"
          /\ transactions[u].amount \in Nat
          /\ share \in Nat /\ transactions[u].amount - share \in Nat
          /\ Settle(u, share, transactions[u].amount - share)
      BY <2>0, <2>2, <3>1, RuleSettles DEF RuleEscrow
    <3>3. /\ transactions'[u] = [transactions[u] EXCEPT !.state = "Closed"]
          /\ \A v \in KnownTx \ {u} :
               paid'[v] = paid[v] /\ transactions'[v] = transactions[v]
      <4>1. share + (transactions[u].amount - share) = transactions[u].amount
        BY <3>2
      <4>2. PaidOnceInFull
        BY <1>1 DEF Inv
      <4> HIDE DEF share
      <4> QED
        BY <2>0, <3>2, <4>1, <4>2, SettlePays
    <3>4. t = u
      BY <3>3
    <3>5. d \in EscrowDisputes
      BY <2>2 DEF RuleEscrow, EscrowDisputes
    <3>6. transactions[t].arbitratorDisputeID = d
      BY <1>1, <3>4, <3>5 DEF Inv, DisputeMatchesTransaction
    <3>7. disputes[d].status = "Waiting" /\ disputes'[d].status = "Solved"
      BY <2>0, <2>2, ExecuteRulingEffect DEF RuleEscrow
    <3>8. transactions[u] \in Transaction
      BY <2>0, <3>2 DEF EscrowTypeOK
    <3> QED
      BY <3>3, <3>4, <3>6, <3>7, <3>8 DEF Transaction
  <2>3. ASSUME NEW buyer \in Users, NEW seller \in Holders,
               NEW amount \in TokenAmounts,
               CreateTransaction(buyer, seller, amount)
        PROVE  FALSE
    BY <2>0, <2>3 DEF CreateTransaction, EscrowTypeOK, KnownTx
  <2>4. ASSUME NEW sender \in Users, NEW u \in KnownTx,
               ConfirmDelivery(sender, u) \/ Withdraw(sender, u)
        PROVE  FALSE
    <3>1. transactions[u].state = "None" /\ Close(u)
          /\ PayOut(u, 0, transactions[u].amount)
      BY <2>4 DEF ConfirmDelivery, Withdraw, Unsettled
    <3>2. transactions'[t] = transactions[t] /\ paid'[t] = paid[t]
      BY <2>0, <3>1 DEF Close, PayOut, EscrowTypeOK
    <3> QED
      BY <3>2
  <2>5. ~Tick /\ ~UNCHANGED vars
    BY <2>a DEF Tick, vars
  <2>6. /\ \A a, choices, value : ~ForeignDispute(a, choices, value)
        /\ \A panel, d, ruling, bundleHash :
             ~RuleForeign(panel, d, ruling, bundleHash)
    BY <2>a DEF ForeignDispute, RuleForeign
  <2> QED
    BY <1>1, <2>a, <2>1, <2>2, <2>3, <2>4, <2>5, <2>6, StepCases
<1>2. Inv /\ [Next]_vars => [Frozen]_vars
  BY <1>1
<1> QED
  BY <1>2, Invariance, PTL DEF Spec, OnlyRulingSettlesDisputed

(* Put next to the escrow, the arbitrator still behaves as its own module  *)
(* says: every step of the composition is one of its steps or none.        *)
THEOREM RefinesArbitrator == Spec => ArbitratorSpec
<1>1. Init => ArbitratorInit
  BY DEF Init
<1>2. [Next]_vars => [ArbitratorNext]_arbitratorVars
  <2> SUFFICES ASSUME [Next]_vars
               PROVE  [ArbitratorNext]_arbitratorVars
    OBVIOUS
  <2>1. ASSUME NEW sender \in Users, NEW t \in KnownTx, NEW value \in Amounts,
               Dispute(sender, t, value)
        PROVE  ArbitratorNext
    <3>1. CreateDispute(Escrow, 2, value) /\ Escrow \in Arbitrables /\ 2 \in Choices
      BY <2>1 DEF Dispute
    <3> QED
      BY <3>1 DEF ArbitratorNext
  <2>2. ASSUME NEW a \in Arbitrables, NEW choices \in Choices,
               NEW value \in Amounts, ForeignDispute(a, choices, value)
        PROVE  ArbitratorNext
    BY <2>2 DEF ForeignDispute, ArbitratorNext
  <2>3. ASSUME NEW panel \in Panels, NEW d \in KnownDisputes,
               NEW ruling \in Rulings, NEW bundleHash \in Bundles,
               RuleEscrow(panel, d, ruling, bundleHash)
                 \/ RuleForeign(panel, d, ruling, bundleHash)
        PROVE  ArbitratorNext
    BY <2>3 DEF RuleEscrow, RuleForeign, ArbitratorNext
  <2>4. CASE Administer
    BY <2>4 DEF ArbitratorNext
  <2>5. UNCHANGED vars => UNCHANGED arbitratorVars
    BY DEF vars
  <2> QED
    BY <2>1, <2>2, <2>3, <2>4, <2>5, StepCases
<1> QED
  BY <1>1, <1>2, PTL DEF Spec, ArbitratorSpec

(* What holds of the arbitrator on its own holds of it among the other     *)
(* contracts: rulings are final and well formed and its ether is accounted *)
(* for, whatever the escrow and the foreign arbitrables do.                *)
THEOREM ArbitratorKeepsItsWord ==
  Spec => /\ []VerdictWellFormed
          /\ []EtherAccounted
          /\ RulingIsFinal
BY RefinesArbitrator, VerdictsWellFormed, EtherIsAccountedFor, RulingsAreFinal,
   PTL

-----------------------------------------------------------------------------
(* The refinement: what each step does to the custody of the deposits.     *)
custodyBar == [t \in KnownTx |-> CustodyOf(t)]

LEMMA CustodyUnchanged ==
  ASSUME UNCHANGED <<transactions, nextTxId, paid>>
  PROVE  UNCHANGED custodyBar
BY DEF custodyBar, CustodyOf, KnownTx

(* A step that settles t in full settles its deposit.                      *)
LEMMA SettleSettles ==
  ASSUME EscrowTypeOK, PaidOnceInFull, NEW t \in KnownTx,
         transactions[t].state # "Closed",
         NEW toBuyer \in Nat, NEW toSeller \in Nat,
         toBuyer + toSeller = transactions[t].amount,
         Settle(t, toBuyer, toSeller)
  PROVE  custodyBar' =
           [custodyBar EXCEPT ![t] = Custody!Settled(transactions[t].amount, toBuyer)]
<1>1. /\ PaidOnceInFull'
      /\ paid'[t] = [buyer |-> toBuyer, seller |-> toSeller]
      /\ transactions'[t] = [transactions[t] EXCEPT !.state = "Closed"]
      /\ \A u \in KnownTx \ {t} :
           paid'[u] = paid[u] /\ transactions'[u] = transactions[u]
      /\ KnownTx' = KnownTx /\ arbitratorToTxId' = arbitratorToTxId
  BY SettlePays
<1>2. transactions[t] \in Transaction
  BY DEF EscrowTypeOK
<1>3. /\ transactions'[t].state = "Closed"
      /\ transactions'[t].amount = transactions[t].amount
      /\ toSeller = transactions[t].amount - toBuyer
  BY <1>1, <1>2 DEF Transaction
<1>4. CustodyOf(t)' = Custody!Settled(transactions[t].amount, toBuyer)
  <2>1. CustodyOf(t)' = [amount   |-> transactions'[t].amount,
                         phase    |-> "settled",
                         toBuyer  |-> paid'[t].buyer,
                         toSeller |-> paid'[t].seller]
    BY <1>3 DEF CustodyOf
  <2>2. paid'[t].buyer = toBuyer /\ paid'[t].seller = toSeller
    BY <1>1
  <2> QED
    BY <1>3, <2>1, <2>2 DEF Custody!Settled
<1>5. \A u \in KnownTx \ {t} : CustodyOf(u)' = CustodyOf(u)
  BY <1>1 DEF CustodyOf
<1> QED
  BY <1>1, <1>4, <1>5 DEF custodyBar

LEMMA CustodyFields ==
  ASSUME EscrowTypeOK, NEW t \in KnownTx
  PROVE  /\ t \in DOMAIN custodyBar
         /\ custodyBar[t].amount = transactions[t].amount
         /\ transactions[t].state = "None" => custodyBar[t].phase = "held"
         /\ transactions[t].state = "Open" => custodyBar[t].phase = "contested"
BY DEF custodyBar, CustodyOf

(* The contracts implement the custody promise, for every instance.        *)
THEOREM RefinesCustody == Spec => ImplementsCustody
<1>1. Init => Custody!Init
  <2> SUFFICES ASSUME Init
               PROVE  Custody!Init
    OBVIOUS
  <2>1. KnownTx = {}
    BY DEF Init, EscrowInit, KnownTx
  <2> QED
    BY <2>1 DEF Custody!Init
<1>2. Inv /\ [Next]_vars => [Custody!Next]_custodyBar
  <2> SUFFICES ASSUME Inv, [Next]_vars
               PROVE  Custody!Next \/ UNCHANGED custodyBar
    OBVIOUS
  <2>0. ArbitratorTypeOK /\ EscrowTypeOK /\ PaidOnceInFull
    BY DEF Inv, TypeOK
  <2>1. ASSUME NEW sender \in Users, NEW t \in KnownTx, NEW value \in Amounts,
               Dispute(sender, t, value)
        PROVE  Custody!Next
    <3>1. /\ transactions[t].state = "None" /\ KnownTx' = KnownTx
          /\ paid' = paid
          /\ transactions' = [transactions EXCEPT ![t] =
                [transactions[t] EXCEPT !.state = "Open",
                                        !.arbitratorDisputeID = nextDisputeID]]
      BY <2>1 DEF Dispute, DisputeTransaction, Unsettled, KnownTx
    <3>2. transactions[t] \in Transaction /\ transactions \in [KnownTx -> Transaction]
      BY <2>0 DEF EscrowTypeOK
    <3>3. /\ transactions'[t].state = "Open"
          /\ transactions'[t].amount = transactions[t].amount
          /\ \A u \in KnownTx \ {t} : transactions'[u] = transactions[u]
      BY <3>1, <3>2 DEF Transaction
    <3>4. CustodyOf(t)' = [CustodyOf(t) EXCEPT !.phase = "contested"]
      BY <3>1, <3>3 DEF CustodyOf
    <3>5. \A u \in KnownTx \ {t} : CustodyOf(u)' = CustodyOf(u)
      BY <3>1, <3>3 DEF CustodyOf
    <3>6. custodyBar' = [custodyBar EXCEPT ![t] =
                           [custodyBar[t] EXCEPT !.phase = "contested"]]
      BY <3>1, <3>4, <3>5 DEF custodyBar
    <3>7. Custody!Contest(t)
      BY <2>0, <3>1, <3>6, CustodyFields DEF Custody!Contest, custodyBar
    <3> QED
      BY <2>0, <3>7, CustodyFields DEF Custody!Next, custodyBar
  <2>2. ASSUME NEW panel \in Panels, NEW d \in KnownDisputes,
               NEW ruling \in Rulings, NEW bundleHash \in Bundles,
               RuleEscrow(panel, d, ruling, bundleHash)
        PROVE  Custody!Next
    <3> DEFINE t      == arbitratorToTxId[d]
               amount == transactions[t].amount
               share  == BuyerShare(amount, ruling)
    <3>1. d \in DisputeIDs /\ ruling \in Nat
      BY <2>0, KnownDisputeID
    <3>2. /\ t \in KnownTx /\ transactions[t].state = "Open"
          /\ ruling \in 0..2 /\ amount \in Nat
          /\ share \in Nat /\ amount - share \in Nat
          /\ Settle(t, share, amount - share)
      BY <2>0, <2>2, <3>1, RuleSettles DEF RuleEscrow
    <3>3. share \in {0, amount \div 2, amount}
      BY <3>2 DEF BuyerShare
    <3>4. share + (amount - share) = amount
      BY <3>2
    <3>5. custodyBar' = [custodyBar EXCEPT ![t] = Custody!Settled(amount, share)]
      <4> HIDE DEF share
      <4> QED
        BY <2>0, <3>2, <3>4, SettleSettles
    <3>6. /\ t \in DOMAIN custodyBar /\ custodyBar[t].phase = "contested"
          /\ custodyBar[t].amount = amount
      BY <2>0, <3>2, CustodyFields
    <3>7. Custody!Arbitrate(t)
      <4> HIDE DEF share, amount, t
      <4> QED
        BY <3>3, <3>5, <3>6 DEF Custody!Arbitrate, custodyBar
    <3> QED
      BY <3>6, <3>7 DEF Custody!Next, custodyBar
  <2>3. ASSUME NEW buyer \in Users, NEW seller \in Holders,
               NEW amount \in TokenAmounts,
               CreateTransaction(buyer, seller, amount)
        PROVE  Custody!Next
    <3>0. PICK n \in 0..(MaxTx - 1) : n = nextTxId
      BY <2>0, <2>3 DEF CreateTransaction, EscrowTypeOK
    <3>1. /\ n \notin KnownTx /\ KnownTx' = KnownTx \cup {n}
          /\ amount \in TokenAmounts \ {0}
      <4>1. nextTxId' = nextTxId + 1 /\ amount # 0
        BY <2>3 DEF CreateTransaction
      <4> QED
        BY <3>0, <4>1 DEF KnownTx
    <3>2. /\ transactions'[n].state = "None"
          /\ transactions'[n].amount = amount
          /\ paid'[n] = [buyer |-> 0, seller |-> 0]
          /\ \A u \in KnownTx :
               paid'[u] = paid[u] /\ transactions'[u] = transactions[u]
      BY <2>0, <2>3, <3>0 DEF CreateTransaction, EscrowTypeOK, KnownTx
    <3>3. CustodyOf(n)' = Custody!Held(amount)
      BY <3>2 DEF CustodyOf, Custody!Held
    <3>4. \A u \in KnownTx : CustodyOf(u)' = CustodyOf(u)
      BY <3>2 DEF CustodyOf
    <3>5. DOMAIN custodyBar = KnownTx
      BY DEF custodyBar
    <3>6. custodyBar' = [u \in KnownTx \cup {n} |->
                           IF u = n THEN Custody!Held(amount)
                           ELSE custodyBar[u]]
      BY <3>1, <3>3, <3>4 DEF custodyBar
    <3>7. Custody!Deposit(n)
      BY <3>1, <3>5, <3>6 DEF Custody!Deposit, custodyBar
    <3> QED
      BY <3>0, <3>7 DEF Custody!Next
  <2>4. ASSUME NEW sender \in Users, NEW t \in KnownTx,
               ConfirmDelivery(sender, t) \/ Withdraw(sender, t)
        PROVE  Custody!Next
    <3> DEFINE amount == transactions[t].amount
    <3>1. /\ transactions[t].state = "None" /\ amount \in Nat
          /\ Settle(t, 0, amount)
      BY <2>0, <2>4, ReleaseSettles DEF Unsettled
    <3>2. 0 \in Nat /\ 0 + amount = amount /\ transactions[t].state # "Closed"
      BY <3>1
    <3>3. custodyBar' = [custodyBar EXCEPT ![t] = Custody!Settled(amount, 0)]
      BY <2>0, <3>1, <3>2, SettleSettles
    <3>4. /\ t \in DOMAIN custodyBar /\ custodyBar[t].phase = "held"
          /\ custodyBar[t].amount = amount
      BY <2>0, <3>1, CustodyFields
    <3>5. Custody!Release(t)
      <4> HIDE DEF amount
      <4> QED
        BY <3>3, <3>4 DEF Custody!Release, custodyBar
    <3> QED
      BY <3>4, <3>5 DEF Custody!Next, custodyBar
  <2>5. ASSUME UNCHANGED escrowVars \/ Tick
        PROVE  UNCHANGED custodyBar
    BY <2>5, CustodyUnchanged DEF escrowVars, Tick
  <2>6. /\ \A a, choices, value :
             ForeignDispute(a, choices, value) => UNCHANGED escrowVars
        /\ \A panel, d, ruling, bundleHash :
             RuleForeign(panel, d, ruling, bundleHash) => UNCHANGED escrowVars
        /\ UNCHANGED vars => UNCHANGED escrowVars
    BY DEF ForeignDispute, RuleForeign, vars
  <2> QED
    BY <2>1, <2>2, <2>3, <2>4, <2>5, <2>6, StepCases
<1> QED
  BY <1>1, <1>2, Invariance, PTL DEF Spec, ImplementsCustody, Custody!Spec, custodyBar
=============================================================================
