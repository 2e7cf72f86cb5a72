------------------------------ MODULE WebPages ------------------------------
(***************************************************************************)
(* What the pages of apps/web make of the dispute in the query cache: pure *)
(* functions of the JSON that GET /disputes/:id returned.  Layout, wording *)
(* and animation are left out.                                             *)
(***************************************************************************)
EXTENDS PanelCallback

(* None is no vote, and not the perspective of a party.                    *)
ASSUME ShownAssumption == None \notin VoteChoices \cup {"mine"}

IsTerminal(dispute) == dispute.status \in Terminal

(* deriveStatus: the status is "mine" for the claimant alone.              *)
DeriveStatus(row, perspective) ==
  CASE row = "PENDING"      -> "Filed"
    [] row = "ADJUDICATING" -> "Adjudicating"
    [] row = "SETTLED"      -> IF perspective = "mine" THEN "Won"
                               ELSE "Settled - refund"
    [] row = "REJECTED"     -> IF perspective = "mine" THEN "Lost"
                               ELSE "Settled - rejected"

(* The pages of one dispute show it without a perspective.                 *)
Pill(dispute) == DeriveStatus(dispute.status, None)

(* VoteTally: a vote that is neither counts as pending.                    *)
VoteTally(choices) ==
  LET count(choice) ==
        Cardinality({model \in DOMAIN choices : choices[model] = choice})
  IN [refunds |-> count("REFUND"), rejects |-> count("REJECT"),
      pending |-> Cardinality(DOMAIN choices) - count("REFUND")
                    - count("REJECT")]

(* PanelistCard: the vote shows once the panelist has voted.               *)
PanelistCard(panelVote) ==
  IF panelVote.status = "VOTED" THEN panelVote
  ELSE [panelVote EXCEPT !.vote = None]

(* LivePage: only votes that were cast are counted.                        *)
LiveTally(dispute) ==
  VoteTally([model \in Rows |-> PanelistCard(dispute.votes[model]).vote])

(* VerdictPage: the banner is the verdict's, the numbers are those of the  *)
(* panel votes, whatever their status.                                     *)
IsRefund(dispute) ==
  dispute.verdict # None /\ dispute.verdict.outcome = "REFUND"

Banner(dispute) == IF IsRefund(dispute) THEN "Refund" ELSE "Reject"

VerdictTally(dispute) ==
  VoteTally([model \in Rows |-> dispute.votes[model].vote])

(* The reasoning of each panelist is headed by its vote, whatever the      *)
(* status of its row, ...                                                  *)
ReasoningHead(panelVote) == panelVote.vote

(* ... the day it was settled is that of the verdict, ...                  *)
SettledAtShown(dispute) == dispute.verdict # None

(* ... and every file of the dispute is listed as considered.              *)
EvidenceConsidered(dispute) == dispute.evidence

(* TimelineStep: how far step k is.                                        *)
TimelineStep(dispute, k) ==
  CASE dispute.steps[k] = "COMPLETED"   -> 2
    [] dispute.steps[k] = "IN_PROGRESS" -> 1
    [] OTHER                            -> 0
=============================================================================
