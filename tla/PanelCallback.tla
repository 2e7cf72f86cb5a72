--------------------------- MODULE PanelCallback ---------------------------
(***************************************************************************)
(* apps/api's PanelCallbackController and the rows of one dispute.  Each   *)
(* handler runs in steps, one per await of Prisma; there is no transaction *)
(* and no condition on what the row held before.  A database error is      *)
(* swallowed and the call still answered 204.                              *)
(***************************************************************************)
EXTENDS PanelCalls, VoteAggregation

CONSTANT Rows   \* models with a PanelVote row for the dispute

VARIABLES
  status,     \* Dispute.status, None before the dispute is created
  votes,      \* votes[model]: the PanelVote row
  verdict,    \* the Verdict row
  steps,      \* steps[k]: SettlementStep.status of step k
  announced   \* last dispute.status event on the stream

callbackVars == <<status, votes, verdict, steps, announced>>

Terminal == {"SETTLED", "REJECTED"}
DisputeStatuses == {"PENDING", "ADJUDICATING"} \cup Terminal
PendingVote == [status |-> "PENDING", vote |-> "ABSTAIN"]
VoteStatuses == {"PENDING", "REASONING", "VOTED", "FAILED"}
PanelVotes == [status : VoteStatuses, vote : VoteChoices]
StepStatuses == {"PENDING", "IN_PROGRESS", "COMPLETED"}
StoredVerdicts ==
  {Result(o, f, a) : o \in VoteChoices, f \in 0..3, a \in 0..3}

ASSUME CallbackAssumption ==
  None \notin DisputeStatuses /\ None \notin StoredVerdicts

(* DisputesService.create has not run.                                     *)
NoRows ==
  /\ status = None
  /\ votes = [model \in Rows |-> PendingVote]
  /\ verdict = None
  /\ steps = [k \in 1..4 |-> "PENDING"]
  /\ announced = None

Known == status # None
DatabaseFails == "database" \in Faults

(* What a vote-update writes: the vote is left alone while reasoning.      *)
StatusOnly(old, update, v) == [old EXCEPT !.status = update]
VoteRow(old, update, v) ==
  IF update = "REASONING" THEN [old EXCEPT !.status = update] ELSE v

OutcomeAsStatus(outcome) == IF outcome = "REFUND" THEN "SETTLED" ELSE outcome
FinalStatus(outcome) == IF outcome = "REFUND" THEN "SETTLED" ELSE "REJECTED"

StoredOutcome(outcome) == IF outcome = "FAILED" THEN "ABSTAIN" ELSE outcome

-----------------------------------------------------------------------------
(* voteUpdate: panelVote.update succeeded.  Only REASONING goes on to the  *)
(* dispute row; the other two emit vote.update and answer.  v is the vote  *)
(* the call carries.                                                       *)
UpdateVote(c, v) ==
  /\ request[c] = "Sent"
  /\ Known /\ c.subject \in Rows
  /\ votes' = [votes EXCEPT ![c.subject] = VoteRow(@, c.status, v)]
  /\ Moved(c, IF c.status = "REASONING" THEN "RowWritten" ELSE "Handled")
  /\ UNCHANGED <<status, verdict, steps, announced>>

(* No such row, or the update failed: a warning and a 204.                 *)
VoteNotUpdated(c) ==
  /\ request[c] = "Sent"
  /\ ~Known \/ c.subject \notin Rows \/ DatabaseFails
  /\ Moved(c, "Handled")
  /\ UNCHANGED callbackVars

(* dispute.update, whatever the status was.                                *)
SetAdjudicating(c) ==
  /\ request[c] = "RowWritten"
  /\ \/ status' = "ADJUDICATING"
     \/ DatabaseFails /\ status' = status
  /\ Moved(c, "StatusWritten")
  /\ UNCHANGED <<votes, verdict, steps, announced>>

AnnounceAdjudicating(c) ==
  /\ request[c] = "StatusWritten"
  /\ announced' = "ADJUDICATING"
  /\ Moved(c, "Handled")
  /\ UNCHANGED <<status, votes, verdict, steps>>

(* verdict: verdict.upsert, ...                                            *)
UpsertVerdict(result) ==
  /\ request[Verdict] = "Sent"
  /\ \/ Known /\ verdict' = [result EXCEPT !.outcome = StoredOutcome(@)]
     \/ ~Known /\ verdict' = verdict
     \/ DatabaseFails /\ verdict' = verdict
  /\ Moved(Verdict, "RowWritten")
  /\ UNCHANGED <<status, votes, steps, announced>>

(* ... then dispute.update, ...                                            *)
UnlessAbstained(outcome) ==
  IF outcome \in {"ABSTAIN", "FAILED"} THEN status ELSE FinalStatus(outcome)
StatusAfter(outcome) == FinalStatus(outcome)

SetFinalStatus(result) ==
  /\ request[Verdict] = "RowWritten"
  /\ \/ Known /\ status' = StatusAfter(result.outcome)
     \/ ~Known /\ status' = status
     \/ DatabaseFails /\ status' = status
  /\ Moved(Verdict, "StatusWritten")
  /\ UNCHANGED <<votes, verdict, steps, announced>>

(* ... then the events, the status event even if nothing was stored.       *)
AnnounceFinal(result) ==
  /\ request[Verdict] = "StatusWritten"
  /\ announced' = FinalStatus(result.outcome)
  /\ Moved(Verdict, "Handled")
  /\ UNCHANGED <<status, votes, verdict, steps>>

(* settlementStep                                                          *)
UpdateStep(c) ==
  /\ request[c] = "Sent"
  /\ \/ Known /\ steps' = [steps EXCEPT ![c.subject] = c.status]
     \/ ~Known /\ steps' = steps
     \/ DatabaseFails /\ steps' = steps
  /\ Moved(c, "Handled")
  /\ UNCHANGED <<status, votes, verdict, announced>>

HandleVote(c, v) ==
  \/ UpdateVote(c, v) \/ VoteNotUpdated(c)
  \/ SetAdjudicating(c) \/ AnnounceAdjudicating(c)

HandleVerdict(result) ==
  UpsertVerdict(result) \/ SetFinalStatus(result) \/ AnnounceFinal(result)

-----------------------------------------------------------------------------
CallbackTypeOK ==
  /\ status \in DisputeStatuses \cup {None}
  /\ votes \in [Rows -> PanelVotes]
  /\ verdict \in StoredVerdicts \cup {None}
  /\ steps \in [1..4 -> StepStatuses]
  /\ announced \in DisputeStatuses \cup {None}
=============================================================================
