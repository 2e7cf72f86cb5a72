---------------------- MODULE TribuneArbitratorProofs ----------------------
(***************************************************************************)
(* Proofs about the arbitrator on its own, for every set of arbitrables,   *)
(* panels, amounts and bundles and every bound.                            *)
(***************************************************************************)
EXTENDS TribuneArbitrator, SumTheorems

USE ArbitratorAssumption

(* A new dispute keeps the arbitrator's state well typed.                  *)
LEMMA CreateDisputeType ==
  ASSUME ArbitratorTypeOK,
         NEW a \in Arbitrables, NEW choices \in Choices, NEW value \in Amounts,
         CreateDispute(a, choices, value)
  PROVE  ArbitratorTypeOK'
<1> USE DEF ArbitratorTypeOK, CreateDispute, Incremented, KnownDisputes,
            RegistryTypeOK
<1>1. nextDisputeID' \in 0..MaxDisputes /\ nextDisputeID' = nextDisputeID + 1
  OBVIOUS
<1>2. [arbitrable |-> a, choices |-> choices, status |-> "Waiting",
       ruling |-> 0, fee |-> arbitrationFeeFlat, bundleHash |-> NoBundle]
        \in DisputeRecord
  BY DEF DisputeRecord
<1>3. disputes' \in [0..nextDisputeID -> DisputeRecord]
  BY <1>2
<1>4. disputes' \in [KnownDisputes' -> DisputeRecord]
  BY <1>1, <1>3
<1>5. etherBalance' \in Nat
  BY DEF Refund
<1> QED
  BY <1>1, <1>4, <1>5

(* A ruling keeps the arbitrator's state well typed.                       *)
LEMMA ExecuteRulingType ==
  ASSUME ArbitratorTypeOK,
         NEW panel \in Panels, NEW d \in KnownDisputes,
         NEW ruling \in Rulings, NEW bundleHash \in Bundles,
         ExecuteRuling(panel, d, ruling, bundleHash)
  PROVE  ArbitratorTypeOK'
<1> USE DEF ArbitratorTypeOK, ExecuteRuling, KnownDisputes, RegistryTypeOK
<1>1. [disputes[d] EXCEPT !.status = "Solved", !.ruling = ruling,
                          !.bundleHash = bundleHash] \in DisputeRecord
  BY DEF DisputeRecord
<1>2. disputes' = [disputes EXCEPT ![d] =
                     [disputes[d] EXCEPT !.status = "Solved", !.ruling = ruling,
                                         !.bundleHash = bundleHash]]
  OBVIOUS
<1>3. disputes' \in [KnownDisputes -> DisputeRecord]
  BY <1>1, <1>2
<1> QED
  BY <1>3

(* The owner and the sponsors keep the arbitrator's state well typed.      *)
LEMMA AdministerType ==
  ASSUME ArbitratorTypeOK, Administer
  PROVE  ArbitratorTypeOK'
<1> USE DEF ArbitratorTypeOK, KnownDisputes, RegistryTypeOK
<1>1. CASE \E panel \in Panels : ManageRegistry(panel)
  BY <1>1 DEF ManageRegistry, Authorize, Revoke, IsAuthorized
<1>2. ASSUME NEW fee \in Amounts, SetArbitrationFee(fee)
      PROVE  ArbitratorTypeOK'
  BY <1>2 DEF SetArbitrationFee
<1>3. ASSUME NEW amount \in Amounts, WithdrawFees(amount)
      PROVE  ArbitratorTypeOK'
  BY <1>3 DEF WithdrawFees
<1>4. ASSUME NEW value \in Amounts, Receive(value)
      PROVE  ArbitratorTypeOK'
  BY <1>4 DEF Receive
<1> QED
  BY <1>1, <1>2, <1>3, <1>4 DEF Administer

(* The record and the reach of a new dispute.                              *)
LEMMA CreateDisputeEffect ==
  ASSUME ArbitratorTypeOK, NEW a, NEW choices, NEW value,
         CreateDispute(a, choices, value)
  PROVE  /\ KnownDisputes' = KnownDisputes \cup {nextDisputeID}
         /\ nextDisputeID \notin KnownDisputes
         /\ disputes'[nextDisputeID].arbitrable = a
         /\ disputes'[nextDisputeID].choices = choices
         /\ disputes'[nextDisputeID].status = "Waiting"
         /\ disputes'[nextDisputeID].ruling = 0
         /\ disputes'[nextDisputeID].bundleHash = NoBundle
         /\ disputes'[nextDisputeID].fee = arbitrationFeeFlat
         /\ \A d \in KnownDisputes : disputes'[d] = disputes[d]
BY DEF CreateDispute, Incremented, ArbitratorTypeOK, KnownDisputes

(* What a ruling changes.                                                  *)
LEMMA ExecuteRulingEffect ==
  ASSUME ArbitratorTypeOK, NEW panel, NEW d \in KnownDisputes, NEW ruling,
         NEW bundleHash, ExecuteRuling(panel, d, ruling, bundleHash)
  PROVE  /\ KnownDisputes' = KnownDisputes
         /\ disputes[d].status = "Waiting"
         /\ disputes'[d].arbitrable = disputes[d].arbitrable
         /\ disputes'[d].choices = disputes[d].choices
         /\ disputes'[d].status = "Solved"
         /\ disputes'[d].ruling = ruling
         /\ disputes'[d].bundleHash = bundleHash
         /\ disputes'[d].fee = disputes[d].fee
         /\ ruling <= disputes[d].choices
         /\ \A e \in KnownDisputes \ {d} : disputes'[e] = disputes[e]
<1>1. disputes' = [disputes EXCEPT ![d] =
                     [disputes[d] EXCEPT !.status = "Solved", !.ruling = ruling,
                                         !.bundleHash = bundleHash]]
  BY DEF ExecuteRuling
<1>2. disputes \in [KnownDisputes -> DisputeRecord]
  BY DEF ArbitratorTypeOK
<1>3. disputes'[d] = [disputes[d] EXCEPT !.status = "Solved", !.ruling = ruling,
                                         !.bundleHash = bundleHash]
  BY <1>1, <1>2
<1>4. disputes[d] \in DisputeRecord
  BY <1>2
<1>5. \A e \in KnownDisputes \ {d} : disputes'[e] = disputes[e]
  BY <1>1, <1>2
<1>6. /\ disputes'[d].arbitrable = disputes[d].arbitrable
      /\ disputes'[d].choices = disputes[d].choices
      /\ disputes'[d].status = "Solved"
      /\ disputes'[d].ruling = ruling
      /\ disputes'[d].bundleHash = bundleHash
      /\ disputes'[d].fee = disputes[d].fee
  BY <1>3, <1>4 DEF DisputeRecord
<1>7. /\ KnownDisputes' = KnownDisputes /\ disputes[d].status = "Waiting"
      /\ ruling <= disputes[d].choices
  BY DEF ExecuteRuling, IsWaiting, AdmitsRuling, KnownDisputes
<1> QED
  BY <1>5, <1>6, <1>7

-----------------------------------------------------------------------------
(* Every step of the arbitrator, as a change of its disputes: one is added,*)
(* one is solved, or all stay as they are.                                 *)
LEMMA ArbitratorStep ==
  ASSUME ArbitratorTypeOK, [ArbitratorNext]_arbitratorVars
  PROVE  \/ \E a \in Arbitrables, choices \in Choices, value \in Amounts :
              CreateDispute(a, choices, value)
         \/ \E panel \in Panels, d \in KnownDisputes, ruling \in Rulings,
               bundleHash \in Bundles :
              ExecuteRuling(panel, d, ruling, bundleHash)
         \/ Administer
         \/ UNCHANGED arbitratorVars
BY Zenon DEF ArbitratorNext

LEMMA AdministerEffect ==
  ASSUME Administer \/ UNCHANGED arbitratorVars
  PROVE  /\ KnownDisputes' = KnownDisputes /\ disputes' = disputes
         /\ nextDisputeID' = nextDisputeID
BY DEF Administer, ManageRegistry, SetArbitrationFee, WithdrawFees, Receive,
       arbitratorVars, KnownDisputes

LEMMA ArbitratorTypeStep ==
  ASSUME ArbitratorTypeOK, [ArbitratorNext]_arbitratorVars
  PROVE  ArbitratorTypeOK'
<1>1. CASE UNCHANGED arbitratorVars
  BY <1>1 DEF arbitratorVars, ArbitratorTypeOK, RegistryTypeOK, KnownDisputes
<1> QED
  BY <1>1, ArbitratorStep, CreateDisputeType, ExecuteRulingType, AdministerType

(* In each of its behaviours the arbitrator's state is well typed: an ID   *)
(* below nextDisputeID has a record, and no balance is negative.           *)
THEOREM ArbitratorTypeCorrect == ArbitratorSpec => []ArbitratorTypeOK
<1>1. ArbitratorInit => ArbitratorTypeOK
  <2> SUFFICES ASSUME ArbitratorInit
               PROVE  ArbitratorTypeOK
    OBVIOUS
  <2>1. KnownDisputes = {}
    BY DEF ArbitratorInit, KnownDisputes
  <2> QED
    BY <2>1 DEF ArbitratorInit, ArbitratorTypeOK, RegistryInit, RegistryTypeOK
<1>2. ArbitratorTypeOK /\ [ArbitratorNext]_arbitratorVars => ArbitratorTypeOK'
  BY ArbitratorTypeStep
<1> QED
  BY <1>1, <1>2, PTL DEF ArbitratorSpec

-----------------------------------------------------------------------------
(* executeRuling is the only writer of a ruling, and createDispute leaves  *)
(* a new dispute without one: rulings and bundle hashes are those of solved*)
(* disputes, and within the choices.                                       *)
LEMMA VerdictStep ==
  ASSUME ArbitratorTypeOK, VerdictWellFormed, [ArbitratorNext]_arbitratorVars
  PROVE  VerdictWellFormed'
<1>1. ASSUME NEW a \in Arbitrables, NEW choices \in Choices,
             NEW value \in Amounts, CreateDispute(a, choices, value)
      PROVE  VerdictWellFormed'
  <2>1. choices \in Nat
    OBVIOUS
  <2> QED
    BY <1>1, <2>1, CreateDisputeEffect DEF VerdictWellFormed
<1>2. ASSUME NEW panel \in Panels, NEW d \in KnownDisputes,
             NEW ruling \in Rulings, NEW bundleHash \in Bundles,
             ExecuteRuling(panel, d, ruling, bundleHash)
      PROVE  VerdictWellFormed'
  BY <1>2, ExecuteRulingEffect DEF VerdictWellFormed
<1>3. CASE Administer \/ UNCHANGED arbitratorVars
  BY <1>3, AdministerEffect DEF VerdictWellFormed
<1> QED
  BY <1>1, <1>2, <1>3, ArbitratorStep

(* Whatever the panels submit and in whatever order, the ruling on record  *)
(* is one the dispute offers or 0, and a waiting dispute has neither ruling*)
(* nor bundle hash.                                                        *)
THEOREM VerdictsWellFormed == ArbitratorSpec => []VerdictWellFormed
<1>1. ArbitratorInit => VerdictWellFormed
  <2> SUFFICES ASSUME ArbitratorInit
               PROVE  VerdictWellFormed
    OBVIOUS
  <2>1. KnownDisputes = {}
    BY DEF ArbitratorInit, KnownDisputes
  <2> QED
    BY <2>1 DEF VerdictWellFormed
<1>2. ArbitratorTypeOK /\ VerdictWellFormed /\ [ArbitratorNext]_arbitratorVars
        => VerdictWellFormed'
  BY VerdictStep
<1> QED
  BY <1>1, <1>2, ArbitratorTypeCorrect, PTL DEF ArbitratorSpec

(* A solved dispute is never written again, and a waiting one only by the  *)
(* ruling that solves it.                                                  *)
THEOREM RulingsAreFinal == ArbitratorSpec => RulingIsFinal
<1> DEFINE Kept(d) ==
      /\ d \in 0..(nextDisputeID' - 1)
      /\ disputes'[d] # disputes[d] =>
           /\ disputes[d].status = "Waiting"
           /\ disputes'[d] = [disputes[d] EXCEPT
                                !.status = "Solved",
                                !.ruling = disputes'[d].ruling,
                                !.bundleHash = disputes'[d].bundleHash]
<1>1. ASSUME ArbitratorTypeOK, [ArbitratorNext]_arbitratorVars,
             NEW d \in KnownDisputes
      PROVE  Kept(d)
  <2>1. ASSUME NEW a \in Arbitrables, NEW choices \in Choices,
               NEW value \in Amounts, CreateDispute(a, choices, value)
        PROVE  Kept(d)
    <3>1. disputes'[d] = disputes[d] /\ d \in KnownDisputes'
      BY <1>1, <2>1, CreateDisputeEffect
    <3> QED
      BY <3>1 DEF KnownDisputes
  <2>2. ASSUME NEW panel \in Panels, NEW e \in KnownDisputes,
               NEW ruling \in Rulings, NEW bundleHash \in Bundles,
               ExecuteRuling(panel, e, ruling, bundleHash)
        PROVE  Kept(d)
    <3>1. d \in 0..(nextDisputeID' - 1)
      BY <2>2 DEF ExecuteRuling, KnownDisputes
    <3>2. CASE d # e
      <4>1. \A x \in KnownDisputes \ {e} : disputes'[x] = disputes[x]
        BY <1>1, <2>2, ExecuteRulingEffect
      <4> QED
        BY <3>1, <3>2, <4>1
    <3>3. CASE d = e
      <4>1. /\ disputes[d].status = "Waiting" /\ disputes'[d].ruling = ruling
            /\ disputes'[d].bundleHash = bundleHash
        BY <1>1, <2>2, <3>3, ExecuteRulingEffect
      <4>2. disputes \in [KnownDisputes -> DisputeRecord]
        BY <1>1 DEF ArbitratorTypeOK
      <4>3. disputes'[d] = [disputes[d] EXCEPT !.status = "Solved",
                                               !.ruling = ruling,
                                               !.bundleHash = bundleHash]
        BY <2>2, <3>3, <4>2 DEF ExecuteRuling
      <4> QED
        BY <3>1, <4>1, <4>3
    <3> QED
      BY <3>2, <3>3
  <2>3. CASE Administer \/ UNCHANGED arbitratorVars
    BY <2>3, AdministerEffect DEF KnownDisputes
  <2> QED
    BY <1>1, <2>1, <2>2, <2>3, ArbitratorStep
<1>2. ArbitratorTypeOK /\ [ArbitratorNext]_arbitratorVars
        => [\A d \in KnownDisputes : Kept(d)]_arbitratorVars
  BY <1>1
<1> QED
  BY <1>2, ArbitratorTypeCorrect, PTL DEF ArbitratorSpec, RulingIsFinal

-----------------------------------------------------------------------------
(* What each dispute paid for its creation.                                *)
Fees == [d \in KnownDisputes |-> disputes[d].fee]

LEMMA FeesType ==
  ASSUME ArbitratorTypeOK
  PROVE  /\ IsFiniteSet(KnownDisputes) /\ Fees \in [KnownDisputes -> Nat]
         /\ etherBalance \in Nat /\ withdrawn \in Nat /\ sponsored \in Nat
         /\ arbitrationFeeFlat \in Nat /\ SumFunction(Fees) \in Nat
<1>1. IsFiniteSet(KnownDisputes)
  BY FS_Interval DEF ArbitratorTypeOK, KnownDisputes
<1>2. \A d \in KnownDisputes : disputes[d].fee \in Nat
  BY DEF ArbitratorTypeOK, DisputeRecord
<1>3. Fees \in [KnownDisputes -> Nat]
  BY <1>2 DEF Fees
<1>4. SumFunction(Fees) \in Nat
  BY <1>1, <1>3, SumType
<1> QED
  BY <1>1, <1>3, <1>4 DEF ArbitratorTypeOK

LEMMA EtherStep ==
  ASSUME ArbitratorTypeOK, EtherAccounted, [ArbitratorNext]_arbitratorVars
  PROVE  EtherAccounted'
<1>0. etherBalance + withdrawn = sponsored + SumFunction(Fees)
  BY DEF EtherAccounted, Fees
<1>1. ASSUME NEW a \in Arbitrables, NEW choices \in Choices,
             NEW value \in Amounts, CreateDispute(a, choices, value)
      PROVE  EtherAccounted'
  <2>1. /\ KnownDisputes' = KnownDisputes \cup {nextDisputeID}
        /\ nextDisputeID \notin KnownDisputes
        /\ Fees'[nextDisputeID] = arbitrationFeeFlat
        /\ \A d \in KnownDisputes : Fees'[d] = Fees[d]
    BY <1>1, CreateDisputeEffect DEF Fees
  <2>2. /\ IsFiniteSet(KnownDisputes) /\ Fees \in [KnownDisputes -> Nat]
        /\ Fees' \in [KnownDisputes \cup {nextDisputeID} -> Nat]
    <3>1. ArbitratorTypeOK'
      BY <1>1, CreateDisputeType
    <3>2. \A d \in KnownDisputes' : disputes'[d].fee \in Nat
      BY <3>1 DEF ArbitratorTypeOK, DisputeRecord
    <3> QED
      BY <2>1, <3>2, FeesType DEF Fees
  <2>3. /\ SumFunction(Fees) \in Nat
        /\ SumFunction(Fees') = SumFunction(Fees) + arbitrationFeeFlat
    <3> DEFINE more == Fees'
               fewer == Fees
               x == nextDisputeID
    <3>1. /\ IsFiniteSet(KnownDisputes) /\ x \notin KnownDisputes
          /\ fewer \in [KnownDisputes -> Nat]
          /\ more \in [KnownDisputes \cup {x} -> Nat]
          /\ \A d \in KnownDisputes : more[d] = fewer[d]
          /\ more[x] = arbitrationFeeFlat
      BY <2>1, <2>2
    <3> HIDE DEF more, fewer, x
    <3>2. /\ SumFunction(fewer) \in Nat
          /\ SumFunction(more) = SumFunction(fewer) + arbitrationFeeFlat
      BY <3>1, SumGrows
    <3> QED
      BY <3>2 DEF more, fewer
  <2>4. /\ etherBalance' = etherBalance + arbitrationFeeFlat
        /\ withdrawn' = withdrawn /\ sponsored' = sponsored
    <3>1. /\ etherBalance' = etherBalance + value
                               - Refund(value, arbitrationFeeFlat)
          /\ value >= arbitrationFeeFlat /\ value \in Nat
          /\ withdrawn' = withdrawn /\ sponsored' = sponsored
      BY <1>1 DEF CreateDispute
    <3>2. value - Refund(value, arbitrationFeeFlat) = arbitrationFeeFlat
      BY <3>1, FeesType DEF Refund
    <3>3. Refund(value, arbitrationFeeFlat) \in Nat
      BY <3>1, FeesType DEF Refund
    <3> QED
      BY <3>1, <3>2, <3>3, FeesType
  <2>5. etherBalance' + withdrawn' = sponsored' + SumFunction(Fees')
    BY <1>0, <2>3, <2>4, FeesType
  <2> QED
    BY <2>5 DEF EtherAccounted, Fees
<1>2. ASSUME NEW panel \in Panels, NEW d \in KnownDisputes,
             NEW ruling \in Rulings, NEW bundleHash \in Bundles,
             ExecuteRuling(panel, d, ruling, bundleHash)
      PROVE  EtherAccounted'
  <2>1. Fees' = Fees
    BY <1>2, ExecuteRulingEffect DEF Fees
  <2> QED
    BY <1>0, <1>2, <2>1 DEF ExecuteRuling, EtherAccounted, Fees
<1>3. CASE Administer \/ UNCHANGED arbitratorVars
  <2>1. Fees' = Fees
    BY <1>3, AdministerEffect DEF Fees
  <2>2. \/ UNCHANGED <<etherBalance, withdrawn, sponsored>>
        \/ \E amount \in Amounts :
             \/ /\ etherBalance' = etherBalance - amount
                /\ withdrawn' = withdrawn + amount /\ sponsored' = sponsored
             \/ /\ etherBalance' = etherBalance + amount
                /\ sponsored' = sponsored + amount /\ withdrawn' = withdrawn
    BY <1>3 DEF Administer, ManageRegistry, SetArbitrationFee, WithdrawFees,
       Receive, arbitratorVars
  <2>3. etherBalance' + withdrawn' = sponsored' + SumFunction(Fees)
    BY <1>0, <2>2, FeesType
  <2> QED
    BY <2>1, <2>3 DEF EtherAccounted, Fees
<1> QED
  BY <1>1, <1>2, <1>3, ArbitratorStep

(* Whatever the fee is set to and whatever is overpaid, sponsored or       *)
(* withdrawn, the contract holds exactly the fees of its disputes and what *)
(* it was given, less what its owner took.                                 *)
THEOREM EtherIsAccountedFor == ArbitratorSpec => []EtherAccounted
<1>1. ArbitratorInit => EtherAccounted
  <2> SUFFICES ASSUME ArbitratorInit
               PROVE  EtherAccounted
    OBVIOUS
  <2>1. KnownDisputes = {}
    BY DEF ArbitratorInit, KnownDisputes
  <2>2. Fees \in [{} -> Nat]
    BY <2>1 DEF Fees
  <2>3. SumFunction(Fees) = 0
    BY <2>2, SumEmpty
  <2> QED
    BY <2>3 DEF EtherAccounted, Fees, ArbitratorInit
<1>2. ArbitratorTypeOK /\ EtherAccounted /\ [ArbitratorNext]_arbitratorVars
        => EtherAccounted'
  BY EtherStep
<1> QED
  BY <1>1, <1>2, ArbitratorTypeCorrect, PTL DEF ArbitratorSpec
============================================================================
