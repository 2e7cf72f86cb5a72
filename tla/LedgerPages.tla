---------------------------- MODULE LedgerPages ----------------------------
(***************************************************************************)
(* A dispute as one of many: what apps/api answers for the list of the     *)
(* ledger, the statistics and the page of an agent, and what apps/web      *)
(* shows of it.  They are functions of the rows at the moment of the       *)
(* answer; the order and the paging of lists are left out.  That           *)
(* StatsService keeps an answer for 30 s is in DisputeViewer.              *)
(***************************************************************************)
EXTENDS WebPages, Functions

(* serializeDisputeSummary of a Dispute row and the Verdict row beside it. *)
Summary(row, verdictRow) ==
  [status        |-> row.status,
   claimantEns   |-> row.claimantEns,
   respondentEns |-> row.respondentEns,
   outcome       |-> IF verdictRow = None THEN None ELSE verdictRow.outcome]

List(rows, verdictRows) ==
  [d \in DOMAIN rows |-> Summary(rows[d], verdictRows[d])]

Involves(summary, ens) == ens \in {summary.claimantEns, summary.respondentEns}

ListForEns(list, ens) ==
  Restrict(list, {d \in DOMAIN list : Involves(list[d], ens)})

(* StatsService.compute; of the refunds the disputes, for their amounts.   *)
Stats(list) ==
  LET Having(statuses) == {d \in DOMAIN list : list[d].status \in statuses}
  IN [total    |-> Cardinality(DOMAIN list),
      active   |-> Cardinality(Having({"PENDING", "ADJUDICATING"})),
      settled  |-> Cardinality(Having({"SETTLED"})),
      refunded |-> {d \in Having({"SETTLED"}) : list[d].outcome = "REFUND"}]

-----------------------------------------------------------------------------
(* DisputesDashboard, for the agent `me`.                                  *)
Visible(list, filter, me) ==
  CASE filter = "all"     -> DOMAIN list
    [] filter = "active"  ->
         {d \in DOMAIN list : list[d].status \in {"PENDING", "ADJUDICATING"}}
    [] filter = "mine"    -> DOMAIN ListForEns(list, me)
    [] filter = "settled" -> {d \in DOMAIN list : list[d].status = "SETTLED"}

(* votePerspective                                                         *)
Perspective(ens, summary) ==
  CASE summary.claimantEns = ens   -> "mine"
    [] summary.claimantEns # ens /\ summary.respondentEns = ens ->
         "counterparty"
    [] OTHER -> None

(* DisputeCard: the status decides, the outcome is passed and not looked at*)
DisputeCard(summary, me) ==
  DeriveStatus(summary.status, Perspective(me, summary))

-----------------------------------------------------------------------------
(* AgentsService.getReputation: an agent without a row is given one, ...   *)
NewReputation == [totalDisputes |-> 0, disputesWon |-> 0, disputesLost |-> 0]

Reputation(records, ens) ==
  IF ens \in DOMAIN records THEN records[ens] ELSE NewReputation

(* ... and its disputes are closed when they have a verdict.               *)
RecentDispute(summary, ens) ==
  [outcome      |-> summary.outcome,
   closed       |-> summary.outcome # None,
   counterparty |-> IF summary.claimantEns = ens
                    THEN summary.respondentEns ELSE summary.claimantEns]

RecentDisputes(list, ens) ==
  LET mine == ListForEns(list, ens)
  IN [d \in DOMAIN mine |-> RecentDispute(mine[d], ens)]

(* AgentPage: the four tiles; the upheld rate is a rounded percentage.     *)
AgentTiles(reputation) ==
  LET total == reputation.totalDisputes
      won == reputation.disputesWon
  IN [disputes |-> total, won |-> won, lost |-> reputation.disputesLost,
      upheld   |-> IF total > 0 THEN (200 * won + total) \div (2 * total) ELSE 0]

(* RecentDisputeRow: the outcome decides, the status is not looked at.     *)
RefundUnlessRejected(recent) ==
  CASE recent.outcome = None     -> "In panel"
    [] recent.outcome = "REJECT" -> "Reject"
    [] OTHER                     -> "Refund"
RecentDisputeRow(recent) ==
  CASE recent.outcome = None     -> "In panel"
    [] recent.outcome = "REFUND" -> "Refund"
    [] OTHER                     -> "Reject"
=============================================================================
