--------------------------- MODULE ExampleEscrow ---------------------------
(***************************************************************************)
(* ExampleEscrow.sol: the reference Arbitrable.  A buyer deposits ERC-20   *)
(* tokens for a seller; the buyer confirms, the seller withdraws after the *)
(* dispute window, or one of them disputes and the arbitrator's ruling     *)
(* moves the funds.                                                        *)
(*                                                                         *)
(* The module holds the escrow's side of each transaction.  The arbitrator *)
(* is the environment: DisputeTransaction takes the ID createDispute       *)
(* returned, and Rule is the callback.  EscrowArbitration joins the two.   *)
(***************************************************************************)
EXTENDS Integers

CONSTANTS
  Users,           \* externally owned accounts
  Escrow,          \* address of this contract
  TokenAmounts,    \* values of _amount
  InitialTokens,   \* tokens each user starts with
  disputeWindow,
  MaxTx,           \* bound on nextTxId
  MaxTime,         \* bound on block.timestamp
  DisputeIDs       \* the arbitrator's dispute IDs, from 0

ASSUME EscrowAssumption ==
  /\ Escrow \notin Users
  /\ TokenAmounts \subseteq Nat
  /\ InitialTokens \in Nat
  /\ disputeWindow \in Nat
  /\ MaxTx \in Nat
  /\ MaxTime \in Nat

VARIABLES
  transactions,      \* defined for the IDs handed out so far
  arbitratorToTxId,  \* a Solidity mapping: 0 where nothing was written
  nextTxId,
  tokens,            \* external: balanceOf in the settlement token
  now,               \* external: block.timestamp
  paid               \* history: what each transaction paid out

escrowVars ==
  <<transactions, arbitratorToTxId, nextTxId, tokens, now, paid>>

Holders == Users \cup {Escrow}

Transaction ==
  [buyer               : Users,
   seller              : Holders,
   amount              : Nat \ {0},
   paidAt              : Nat,
   state               : {"None", "Open", "Closed"},
   arbitratorDisputeID : Nat]

KnownTx == 0..(nextTxId - 1)               \* amount # 0

EscrowTypeOK ==
  /\ nextTxId \in 0..MaxTx
  /\ transactions \in [KnownTx -> Transaction]
  /\ arbitratorToTxId \in [DisputeIDs -> Nat]
  /\ tokens \in [Holders -> Nat]
  /\ now \in 0..MaxTime
  /\ paid \in [KnownTx -> [buyer : Nat, seller : Nat]]

EscrowInit ==
  /\ transactions = [t \in {} |-> t]
  /\ arbitratorToTxId = [d \in DisputeIDs |-> 0]
  /\ nextTxId = 0
  /\ tokens = [h \in Holders |-> IF h = Escrow THEN 0 ELSE InitialTokens]
  /\ now = 0
  /\ paid = [t \in {} |-> t]

-----------------------------------------------------------------------------
(* An ERC-20 transfer: it reverts unless the sender's balance covers it,   *)
(* and a transfer to oneself leaves the balance as it was.                 *)
Debited(balances, from, amount) ==
  [balances EXCEPT ![from] = @ - amount]

Transferred(balances, from, to, amount) ==
  [Debited(balances, from, amount) EXCEPT ![to] = @ + amount]

(* Pay a transaction out of the escrow: toBuyer and toSeller in this order.*)
PayOut(t, toBuyer, toSeller) ==
  LET tx == transactions[t]
  IN
  /\ tokens[Escrow] >= toBuyer + toSeller
  /\ tokens' = Transferred(Transferred(tokens, Escrow, tx.buyer, toBuyer),
                           Escrow, tx.seller, toSeller)
  /\ paid' = [paid EXCEPT ![t] = [buyer  |-> @.buyer + toBuyer,
                                  seller |-> @.seller + toSeller]]

(* Guards and writes, each preceded by a slip the properties must notice.  *)
StayOpen(t) == UNCHANGED transactions
Close(t) == transactions' = [transactions EXCEPT ![t].state = "Closed"]

NotYetClosed(t) == transactions[t].state # "Closed"
Unsettled(t) == transactions[t].state = "None"

LinkForgotten(d, t) == UNCHANGED arbitratorToTxId
Link(d, t) == arbitratorToTxId' = [arbitratorToTxId EXCEPT ![d] = t]

CreateTransaction(buyer, seller, amount) ==
  /\ nextTxId < MaxTx
  /\ amount # 0                                   \* else InvalidParty
  /\ tokens[buyer] >= amount                      \* else the transfer reverts
  /\ transactions' = [t \in 0..nextTxId |->
                        IF t = nextTxId
                        THEN [buyer               |-> buyer,
                              seller              |-> seller,
                              amount              |-> amount,
                              paidAt              |-> now,
                              state               |-> "None",
                              arbitratorDisputeID |-> 0]
                        ELSE transactions[t]]
  /\ paid' = [t \in 0..nextTxId |->
                IF t = nextTxId THEN [buyer |-> 0, seller |-> 0] ELSE paid[t]]
  /\ nextTxId' = nextTxId + 1
  /\ tokens' = Transferred(tokens, buyer, Escrow, amount)
  /\ UNCHANGED <<arbitratorToTxId, now>>

ConfirmDelivery(sender, t) ==
  /\ t \in KnownTx                                \* else UnknownTransaction
  /\ sender = transactions[t].buyer               \* else InvalidParty
  /\ Unsettled(t)                                 \* else InvalidState
  /\ Close(t)
  /\ PayOut(t, 0, transactions[t].amount)
  /\ UNCHANGED <<arbitratorToTxId, nextTxId, now>>

Withdraw(sender, t) ==
  /\ t \in KnownTx                                \* else UnknownTransaction
  /\ sender = transactions[t].seller              \* else InvalidParty
  /\ Unsettled(t)                                 \* else InvalidState
  /\ now >= transactions[t].paidAt + disputeWindow  \* else WindowOpen
  /\ Close(t)
  /\ PayOut(t, 0, transactions[t].amount)
  /\ UNCHANGED <<arbitratorToTxId, nextTxId, now>>

(* disputeTransaction, the arbitrator's createDispute having returned d.   *)
DisputeTransaction(sender, t, d) ==
  /\ t \in KnownTx                                \* else UnknownTransaction
  /\ sender \in {transactions[t].buyer, transactions[t].seller}
  /\ Unsettled(t)                                 \* else InvalidState
  /\ transactions' = [transactions EXCEPT ![t].state = "Open",
                                          ![t].arbitratorDisputeID = d]
  /\ Link(d, t)
  /\ UNCHANGED <<nextTxId, tokens, now, paid>>

(* What the ruling gives the buyer: 1 is a refund, 2 a rejection, and 0,   *)
(* refused to arbitrate, a split whose odd unit goes to the seller.        *)
SharesSwapped(amount, ruling) ==
  IF ruling = 2 THEN amount ELSE 0
SplitRoundedUp(amount, ruling) ==
  IF ruling = 0 THEN (amount + 1) \div 2 ELSE IF ruling = 1 THEN amount ELSE 0
BuyerShare(amount, ruling) ==
  CASE ruling = 1 -> amount
    [] ruling = 2 -> 0
    [] ruling = 0 -> amount \div 2

HalfToEach(amount, share) == IF share = 0 THEN amount ELSE share
SellerShare(amount, share) == amount - share

(* rule(), called by the arbitrator for its dispute d.                     *)
Rule(d, ruling) ==
  LET t      == arbitratorToTxId[d]
      amount == transactions[t].amount
      share  == BuyerShare(amount, ruling)
  IN
  /\ t \in KnownTx
  /\ transactions[t].state = "Open"               \* else InvalidState
  /\ ruling <= 2                                  \* else InvalidRuling
  /\ Close(t)
  /\ PayOut(t, share, SellerShare(amount, share))
  /\ UNCHANGED <<arbitratorToTxId, nextTxId, now>>

(* Time passes between blocks.                                             *)
Tick ==
  /\ now < MaxTime
  /\ now' = now + 1
  /\ UNCHANGED <<transactions, arbitratorToTxId, nextTxId, tokens, paid>>

(* What users do without the arbitrator.                                   *)
Trade ==
  \/ \E buyer \in Users, seller \in Holders, amount \in TokenAmounts :
       CreateTransaction(buyer, seller, amount)
  \/ \E sender \in Users, t \in KnownTx :
       ConfirmDelivery(sender, t) \/ Withdraw(sender, t)
  \/ Tick
=============================================================================
