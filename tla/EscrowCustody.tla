--------------------------- MODULE EscrowCustody ---------------------------
(***************************************************************************)
(* What an arbitrated escrow promises, without contracts, disputes, panels *)
(* or balances: a deposit is held, may become contested, and is settled    *)
(* once, in full.  A deposit nobody contests goes to the seller; one that  *)
(* is contested goes to the buyer, to the seller, or half to each.         *)
(***************************************************************************)
EXTENDS Integers

CONSTANTS
  Deposits,            \* identities of the deposits
  DepositAmounts       \* what a deposit may be worth

VARIABLE custody       \* defined for the deposits made so far

Held(amount) ==
  [amount |-> amount, phase |-> "held", toBuyer |-> 0, toSeller |-> 0]

Settled(amount, toBuyer) ==
  [amount |-> amount, phase |-> "settled",
   toBuyer |-> toBuyer, toSeller |-> amount - toBuyer]

Init == custody = [t \in {} |-> t]

Deposit(t) ==
  /\ t \notin DOMAIN custody
  /\ \E amount \in DepositAmounts :
       custody' = [u \in DOMAIN custody \cup {t} |->
                     IF u = t THEN Held(amount) ELSE custody[u]]

Release(t) ==
  /\ custody[t].phase = "held"
  /\ custody' = [custody EXCEPT ![t] = Settled(@.amount, 0)]

Contest(t) ==
  /\ custody[t].phase = "held"
  /\ custody' = [custody EXCEPT ![t].phase = "contested"]

Arbitrate(t) ==
  /\ custody[t].phase = "contested"
  /\ \E toBuyer \in {0, custody[t].amount \div 2, custody[t].amount} :
       custody' = [custody EXCEPT ![t] = Settled(@.amount, toBuyer)]

Next ==
  \/ \E t \in Deposits : Deposit(t)
  \/ \E t \in DOMAIN custody : Release(t) \/ Contest(t) \/ Arbitrate(t)

Spec == Init /\ [][Next]_custody
=============================================================================
