------------------------- MODULE TribuneArbitrator -------------------------
(***************************************************************************)
(* TribuneArbitrator.sol: the ERC-792 arbitrator.  An action is one        *)
(* transaction that does not revert: nonReentrant keeps createDispute,     *)
(* executeRuling and withdrawFees from interleaving with one another, and  *)
(* the calls a callback may still make (setArbitrationFee, receive,        *)
(* submitEvidence, another contract) run after the last write of the       *)
(* enclosing function, so they are the same as steps taken next.           *)
(*                                                                         *)
(* An external call that reverts takes the whole transaction with it.      *)
(* Hence CreateDispute is possible with an overpayment only when the       *)
(* payer's contract accepts the refund, and ExecuteRuling is a ruling whose*)
(* rule() callback returned; a module that models the arbitrable conjoins  *)
(* the callback to it.                                                     *)
(***************************************************************************)
EXTENDS Integers, Functions, PanelRegistry

CONSTANTS
  Arbitrables,     \* contracts and accounts that call createDispute
  AcceptsEther,    \* those of them a plain ether transfer does not revert at
  Choices,         \* values of the _choices argument that are tried
  Amounts,         \* values of msg.value, of the fee and of a withdrawal
  Rulings,         \* values of the _ruling argument that are tried
  Bundles,         \* values of the _bundleHash argument, bytes32(0) included
  NoBundle,        \* bytes32(0)
  MaxDisputes,     \* bound on nextDisputeID
  MaxEther         \* bound on the ether that ever enters the contract

MaxUint8 == 255

ASSUME ArbitratorAssumption ==
  /\ AcceptsEther \subseteq Arbitrables
  /\ Choices \subseteq Nat
  /\ Amounts \subseteq Nat
  /\ Rulings \subseteq Nat
  /\ NoBundle \in Bundles
  /\ MaxDisputes \in Nat
  /\ MaxEther \in Nat

VARIABLES
  disputes,            \* _disputes, defined for the IDs handed out so far
  nextDisputeID,
  arbitrationFeeFlat,
  etherBalance,        \* the contract's native balance
  sponsored,           \* history: ether received outside createDispute
  withdrawn            \* history: ether the owner took out

arbitratorVars ==
  <<authorized, disputes, nextDisputeID, arbitrationFeeFlat,
    etherBalance, sponsored, withdrawn>>

DisputeRecord ==
  [arbitrable : Arbitrables,
   choices    : 1..MaxUint8,
   status     : {"Waiting", "Solved"},
   ruling     : Nat,
   fee        : Nat,
   bundleHash : Bundles]

KnownDisputes == 0..(nextDisputeID - 1)    \* createdAt # 0

ArbitratorTypeOK ==
  /\ RegistryTypeOK
  /\ nextDisputeID \in 0..MaxDisputes
  /\ disputes \in [KnownDisputes -> DisputeRecord]
  /\ arbitrationFeeFlat \in Nat
  /\ etherBalance \in Nat
  /\ sponsored \in Nat
  /\ withdrawn \in Nat

ArbitratorInit ==
  /\ RegistryInit
  /\ disputes = [d \in {} |-> d]
  /\ nextDisputeID = 0
  /\ arbitrationFeeFlat \in Amounts
  /\ etherBalance = 0
  /\ sponsored = 0
  /\ withdrawn = 0

-----------------------------------------------------------------------------
(* Guards and amounts, each next to the slip a careless edit could make in *)
(* it; the slips are used only to show that the properties notice them.    *)
NoRefund(value, required) == 0
Refund(value, required) == IF value > required THEN value - required ELSE 0

SolvedIsWaiting(d) == TRUE
IsWaiting(d) == disputes[d].status = "Waiting"

AdmitsOneMore(d, ruling) == ruling <= disputes[d].choices + 1
AdmitsRuling(d, ruling) == ruling <= disputes[d].choices

NotIncremented(id) == id
Incremented(id) == id + 1

(* createDispute, called by arbitrable a with _choices = choices and       *)
(* msg.value = value.  The new dispute's ID is the old nextDisputeID.      *)
CreateDispute(a, choices, value) ==
  LET required == arbitrationFeeFlat
      refund   == Refund(value, required)
  IN
  /\ nextDisputeID < MaxDisputes
  /\ choices \in 1..MaxUint8                      \* else InvalidChoices
  /\ value >= required                            \* else InsufficientFee
  /\ refund > 0 => a \in AcceptsEther             \* else FeeRefundFailed
  /\ disputes' = [d \in 0..nextDisputeID |->
                    IF d = nextDisputeID
                    THEN [arbitrable |-> a,
                          choices    |-> choices,
                          status     |-> "Waiting",
                          ruling     |-> 0,
                          fee        |-> required,
                          bundleHash |-> NoBundle]
                    ELSE disputes[d]]
  /\ nextDisputeID' = Incremented(nextDisputeID)
  /\ etherBalance' = etherBalance + value - refund
  /\ etherBalance' + withdrawn <= MaxEther
  /\ UNCHANGED <<authorized, arbitrationFeeFlat, sponsored, withdrawn>>

(* executeRuling by panel; the arbitrable's rule() callback comes last.    *)
ExecuteRuling(panel, d, ruling, bundleHash) ==
  /\ IsAuthorized(panel)                          \* else UnauthorizedPanel
  /\ d \in KnownDisputes                          \* else UnknownDispute
  /\ IsWaiting(d)                                 \* else AlreadyResolved
  /\ AdmitsRuling(d, ruling)                      \* else InvalidRuling
  /\ disputes' = [disputes EXCEPT ![d].status = "Solved",
                                  ![d].ruling = ruling,
                                  ![d].bundleHash = bundleHash]
  /\ UNCHANGED <<authorized, nextDisputeID, arbitrationFeeFlat,
                 etherBalance, sponsored, withdrawn>>

SetArbitrationFee(newFee) ==
  /\ arbitrationFeeFlat' = newFee
  /\ UNCHANGED <<authorized, disputes, nextDisputeID,
                 etherBalance, sponsored, withdrawn>>

(* withdrawFees: the transfer fails when the balance does not cover it.    *)
WithdrawFees(amount) ==
  /\ amount <= etherBalance                       \* else FeeRefundFailed
  /\ etherBalance' = etherBalance - amount
  /\ withdrawn' = withdrawn + amount
  /\ UNCHANGED <<authorized, disputes, nextDisputeID,
                 arbitrationFeeFlat, sponsored>>

(* receive(): anyone sponsors the contract.                                *)
Receive(amount) ==
  /\ etherBalance + amount + withdrawn <= MaxEther
  /\ etherBalance' = etherBalance + amount
  /\ sponsored' = sponsored + amount
  /\ UNCHANGED <<authorized, disputes, nextDisputeID,
                 arbitrationFeeFlat, withdrawn>>

ManageRegistry(panel) ==
  /\ Authorize(panel) \/ Revoke(panel)
  /\ UNCHANGED <<disputes, nextDisputeID, arbitrationFeeFlat,
                 etherBalance, sponsored, withdrawn>>

(* The owner's transactions and plain deposits: they touch no dispute.     *)
Administer ==
  \/ \E panel \in Panels : ManageRegistry(panel)
  \/ \E amount \in Amounts :
       SetArbitrationFee(amount) \/ WithdrawFees(amount) \/ Receive(amount)

ArbitratorNext ==
  \/ \E a \in Arbitrables, choices \in Choices, value \in Amounts :
       CreateDispute(a, choices, value)
  \/ \E panel \in Panels, d \in KnownDisputes, ruling \in Rulings,
        bundleHash \in Bundles :
       ExecuteRuling(panel, d, ruling, bundleHash)
  \/ Administer

ArbitratorSpec == ArbitratorInit /\ [][ArbitratorNext]_arbitratorVars

-----------------------------------------------------------------------------
(* Every wei is accounted for: what the contract holds and what the owner  *)
(* took out is what was donated plus exactly the fee of each dispute, at   *)
(* the price in force when it was created, whatever overpayments were      *)
(* refunded and however the fee was changed since.                         *)
EtherAccounted ==
  etherBalance + withdrawn =
    sponsored + SumFunction([d \in KnownDisputes |-> disputes[d].fee])

(* A ruling is final: a solved dispute keeps its ruling and its bundle     *)
(* hash, and no step changes the terms of a dispute that is still waiting. *)
RulingIsFinal ==
  [][\A d \in KnownDisputes :
       /\ d \in 0..(nextDisputeID' - 1)
       /\ disputes'[d] # disputes[d] =>
            /\ disputes[d].status = "Waiting"
            /\ disputes'[d] = [disputes[d] EXCEPT
                                 !.status = "Solved",
                                 !.ruling = disputes'[d].ruling,
                                 !.bundleHash = disputes'[d].bundleHash]
    ]_arbitratorVars

(* A ruling is one of the dispute's own choices or 0, refused to arbitrate,*)
(* and a waiting dispute shows none and no bundle hash.  That a solved one *)
(* shows a hash is not claimed: executeRuling stores bytes32(0) as well.   *)
VerdictWellFormed ==
  \A d \in KnownDisputes :
    /\ disputes[d].ruling <= disputes[d].choices
    /\ disputes[d].status = "Waiting" =>
         disputes[d].ruling = 0 /\ disputes[d].bundleHash = NoBundle
=============================================================================
