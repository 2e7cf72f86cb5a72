------------------------------ MODULE SeedData ------------------------------
(***************************************************************************)
(* prisma/seed.ts: the disputes a development database starts with.  They  *)
(* are written as rows, no panel ever adjudicates them, and the pages show *)
(* them like any other.                                                    *)
(***************************************************************************)
EXTENDS LedgerPages

(* The schema has a row for each of the three panelists.                   *)
ASSUME RowsAssumption == IsFiniteSet(Rows) /\ Cardinality(Rows) <= 3

Unanimous(choice) == [model \in Rows |-> choice]

(* settledFixtures                                                         *)
SettledFixtures ==
  {[status |-> "SETTLED", outcome |-> "REFUND", votes |-> Unanimous("REFUND")],
   [status |-> "REJECTED", outcome |-> "REJECT", votes |-> Unanimous("REJECT")]}

Counted(fixture, choice) ==
  Cardinality({model \in Rows : fixture.votes[model] = choice})

Opposite(outcome) == IF outcome = "REFUND" THEN "REJECT" ELSE "REFUND"

(* votesFor and votesAgainst are from the point of view of the outcome.    *)
RefundsFirst(fixture) ==
  Result(fixture.outcome, Counted(fixture, "REFUND"),
         Counted(fixture, "REJECT"))
SeededVerdict(fixture) ==
  Result(fixture.outcome, Counted(fixture, fixture.outcome),
         Counted(fixture, Opposite(fixture.outcome)))

SeedSettled(fixture) ==
  [status  |-> fixture.status,
   votes   |-> [model \in Rows |-> Voted(fixture.votes[model])],
   verdict |-> SeededVerdict(fixture),
   steps   |-> [k \in 1..4 |-> "COMPLETED"]]

(* bumpReputation, for the two parties of a settled fixture.  No agent is  *)
(* a party to two of them, and nothing counts a verdict afterwards.        *)
BumpReputation(reputation, outcome) ==
  [totalDisputes |-> reputation.totalDisputes + 1,
   disputesWon   |-> reputation.disputesWon + (IF outcome = "won" THEN 1 ELSE 0),
   disputesLost  |-> reputation.disputesLost + (IF outcome = "lost" THEN 1 ELSE 0)]

SeededReputations(outcome) ==
  [claimant   |-> BumpReputation(NewReputation,
                    IF outcome = "REFUND" THEN "won" ELSE "lost"),
   respondent |-> BumpReputation(NewReputation,
                    IF outcome = "REFUND" THEN "lost" ELSE "won")]

(* Every panelist but the last has voted.                                  *)
SeedActive(last) ==
  [status  |-> "ADJUDICATING",
   votes   |-> [model \in Rows |->
                  IF model = last THEN [PendingVote EXCEPT !.status = "REASONING"]
                  ELSE Voted("REFUND")],
   verdict |-> None,
   steps   |-> [k \in 1..4 |-> "PENDING"]]

SeededRows ==
  {SeedSettled(fixture) : fixture \in SettledFixtures}
    \cup {SeedActive(last) : last \in Rows}
=============================================================================
