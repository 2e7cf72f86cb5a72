-------------------------- MODULE VoteAggregation --------------------------
(***************************************************************************)
(* PanelVoteAggregator: from what each panelist returned to the outcome of *)
(* the dispute.  `panelists` is a function from the panel to PanelistVerdict*)
(* of which only the status and the vote matter to the outcome.            *)
(***************************************************************************)
EXTENDS Integers, FiniteSets

VoteChoices == {"REFUND", "REJECT", "ABSTAIN"}
Outcomes == VoteChoices \cup {"FAILED"}

Voted(choice) == [status |-> "VOTED", vote |-> choice]
FailedPanelist == [status |-> "FAILED", vote |-> "ABSTAIN"]
PanelistVerdicts ==
  {Voted(choice) : choice \in VoteChoices} \cup {FailedPanelist}

(* tally[choice]: only a panelist that voted counts.                       *)
Tally(panelists, choice) ==
  Cardinality({p \in DOMAIN panelists : panelists[p] = Voted(choice)})

Result(outcome, votesFor, votesAgainst) ==
  [outcome |-> outcome, votesFor |-> votesFor, votesAgainst |-> votesAgainst]

(* What decides when fewer than two panelists agree on REFUND or REJECT, in *)
(* the order of the code.  The last case is never reached, see             *)
(* FailedOnlyWithoutVotes.                                                 *)
WithoutMajority(refunds, rejects, abstains) ==
  IF refunds = 1 /\ rejects = 1 THEN Result("REJECT", 1, 1)
  ELSE IF refunds = 1 /\ abstains >= 1 THEN Result("ABSTAIN", 0, 0)
  ELSE IF rejects = 1 /\ abstains >= 1 THEN Result("REJECT", 1, 0)
  ELSE IF refunds = 0 /\ rejects = 0 THEN Result("ABSTAIN", 0, 0)
  ELSE IF refunds = 1 THEN Result("REFUND", 1, 0)
  ELSE IF rejects = 1 THEN Result("REJECT", 1, 0)
  ELSE Result("FAILED", 0, 0)

ExactlyTwo(count) == count = 2
Majority(count) == count >= 2

Aggregate(panelists) ==
  LET refunds  == Tally(panelists, "REFUND")
      rejects  == Tally(panelists, "REJECT")
      abstains == Tally(panelists, "ABSTAIN")
  IN
  IF refunds + rejects + abstains = 0 THEN Result("FAILED", 0, 0)
  ELSE IF Majority(refunds) THEN Result("REFUND", refunds, rejects)
  ELSE IF Majority(rejects) THEN Result("REJECT", rejects, refunds)
  ELSE WithoutMajority(refunds, rejects, abstains)

(* rulingForOutcome: the ruling the arbitrator contract is given.          *)
AbstainRejects(outcome) == IF outcome = "REFUND" THEN 1 ELSE 2
RulingForOutcome(outcome) ==
  IF outcome = "REFUND" THEN 1 ELSE IF outcome = "REJECT" THEN 2 ELSE 0
=============================================================================
