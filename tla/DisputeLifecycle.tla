-------------------------- MODULE DisputeLifecycle --------------------------
(***************************************************************************)
(* One dispute from POST /disputes to its verdict and settlement: apps/api *)
(* creates the rows and triggers the panel without waiting for it, the     *)
(* panel adjudicates and calls back, the callbacks change the rows and     *)
(* announce what changed.                                                  *)
(***************************************************************************)
EXTENDS Adjudication, PanelCallback

VARIABLE trigger   \* the POST /adjudicate for this dispute

vars == <<adjudicationVars, callbackVars, trigger>>

Triggers == {"None", "Posting", "Accepted", "Lost"}

Init == AdjudicationInit /\ NoRows /\ trigger = "None"

-----------------------------------------------------------------------------
(* DisputesService.create: the dispute with its votes and steps, one       *)
(* statement, then startAdjudication is left to run on its own.            *)
Create ==
  /\ trigger = "None" /\ ~setting.numericID
  /\ status' = "PENDING"
  /\ trigger' = "Posting"
  /\ UNCHANGED <<adjudicationVars, votes, verdict, steps, announced>>

(* A dispute raised on chain: the panel is triggered, apps/api has no row. *)
RaisedOnChain ==
  /\ trigger = "None" /\ setting.numericID
  /\ trigger' = "Posting"
  /\ UNCHANGED <<adjudicationVars, callbackVars>>

(* The trigger answers 202 and leaves adjudicate() to run, ...             *)
Accept ==
  /\ trigger = "Posting" /\ trigger' = "Accepted"
  /\ UNCHANGED <<adjudicationVars, callbackVars>>

(* ... or the panel is not reached: a warning, no retry.                   *)
TriggerLost ==
  /\ "unreachable" \in Faults
  /\ trigger = "Posting" /\ trigger' = "Lost"
  /\ UNCHANGED <<adjudicationVars, callbackVars>>

File == Create \/ RaisedOnChain

Trigger == Accept \/ TriggerLost

Start ==
  /\ trigger = "Accepted"
  /\ Convene \/ NoAvailableModels
  /\ UNCHANGED <<callbackVars, trigger>>

PanelStep == Adjudicating /\ UNCHANGED <<callbackVars, trigger>>

PanelCrash == Crash /\ UNCHANGED <<callbackVars, trigger>>

Handle(c) ==
  /\ \/ c \in VoteUpdates /\ HandleVote(c, verdicts[c.subject])
     \/ c = Verdict /\ HandleVerdict(aggregate)
     \/ c \in StepUpdates /\ UpdateStep(c)
  /\ UNCHANGED <<setting, phase, member, verdicts, aggregate, stepCalls,
                 ruling, reputation, trigger>>

ApiStep == \E c \in Calls : Handle(c)

(* Nothing is left to do: the adjudication ended, or never starts.         *)
Stopped ==
  /\ phase \in Ended \/ trigger = "Lost"
  /\ Quiet
  /\ UNCHANGED vars

Next ==
  File \/ Trigger \/ Start \/ PanelStep \/ PanelCrash \/ ApiStep \/ Stopped

Spec == Init /\ [][Next]_vars

(* Node runs the continuations that are due and the timers that fired, in  *)
(* whatever order.  The model providers owe nothing: an Answer may never   *)
(* come.                                                                   *)
PanelDue ==
  /\ \/ Decide \/ Submit \/ Settle
     \/ \E p \in Panel : RunPanelist(p) \/ FailOrTimeout(p) \/ Report(p)
  /\ UNCHANGED <<callbackVars, trigger>>

Underway == {c \in Calls : request[c] \in {"Sent"} \cup InHandler}

Due == Trigger \/ Start \/ PanelDue \/ \E c \in Underway : Handle(c)

Fairness == WF_vars(Due)

FairSpec == Spec /\ Fairness

-----------------------------------------------------------------------------
TypeOK == AdjudicationTypeOK /\ CallbackTypeOK /\ trigger \in Triggers

(* Whatever is lost on the way, no row and no viewer ever shows an outcome *)
(* the panel did not reach: the stored verdict, the stored status and the  *)
(* announced one are those of the votes of a panel that had concluded.     *)
OutcomeIsThePanels ==
  LET result == Aggregate(verdicts)
  IN
  /\ verdict # None \/ {status, announced} \cap Terminal # {} =>
       \A p \in Panel : verdicts[p] # None
  /\ verdict # None => verdict = [result EXCEPT !.outcome = StoredOutcome(@)]
  /\ {status, announced} \cap Terminal \subseteq {FinalStatus(result.outcome)}

(* Once the final notification of a panelist was handled its row shows     *)
(* what was counted: the REASONING notification does not overtake it.      *)
RowShowsAnswer ==
  \A p \in Rows \cap Panel :
    /\ Known /\ verdicts[p] # None
    /\ request[VoteUpdate(p, verdicts[p].status)] = "Handled"
    => votes[p] = verdicts[p]

(* Between two handlers, viewers of the stream were last told the status   *)
(* that is stored, and the page that reloads shows it too.                 *)
StreamAgreesWithRow ==
  Known /\ announced # None /\ (\A c \in Calls : request[c] # "StatusWritten")
    => announced = status

(* The settlement the rows show: steps complete in their order, after the  *)
(* verdict and the final status were stored, and never for a panel of      *)
(* which nobody voted.                                                     *)
SettlementFollowsVerdict ==
  \A k \in 1..4 : steps[k] # "PENDING" =>
    /\ k > 1 => steps[k - 1] = "COMPLETED"
    /\ verdict # None /\ status = FinalStatus(verdict.outcome)
    /\ \E p \in Panel : verdicts[p].status = "VOTED"

(* Reputations are written last, one side's win being the other's loss,    *)
(* and agree with the status of the dispute, where apps/api has it.        *)
ReputationFollowsSettlement ==
  \A party \in Parties : Known /\ reputation[party] # None =>
    /\ \A k \in 1..4 : steps[k] = "COMPLETED"
    /\ verdict.outcome # "ABSTAIN"
    /\ (reputation[party] = "won")
         = ((status = "SETTLED") = (party = "claimant"))

(* A dispute that reached SETTLED or REJECTED keeps that status: the web   *)
(* client closes its stream there.                                         *)
TerminalIsFinal == [][(status \in Terminal) => (status' = status)]_vars

(* The panel never refunds against or without the votes: the ruling the    *)
(* keeper is handed for the chain has the panel's complete votes behind it,*)
(* whichever panelists failed and whatever apps/api was told.  It says     *)
(* nothing of the verdict apps/api shows: an ABSTAIN is 0 on the chain and *)
(* REJECTED there.                                                         *)
RulingBackedByVotes ==
  ruling # None =>
    LET refunds == Tally(verdicts, "REFUND")
        rejects == Tally(verdicts, "REJECT")
    IN
    /\ PanelComplete
    /\ ruling = 1 => refunds > rejects
    /\ ruling = 2 => rejects > 0 /\ rejects >= refunds
    /\ ruling = 0 => rejects = 0 /\ refunds < 2

(* With the keeper, apps/api is never told a verdict the chain will not    *)
(* hear of.                                                                *)
NoVerdictWithoutRuling ==
  setting.keeper /\ request[Verdict] # "None" => ruling # None

(* One more vote for the winning side never loses it the dispute.          *)
VotingIsMonotone ==
  aggregate # None /\ aggregate.outcome \in {"REFUND", "REJECT"} =>
    \A p \in Panel :
      Aggregate([verdicts EXCEPT ![p] = Voted(aggregate.outcome)]).outcome
        = aggregate.outcome

(* README: no hangs.  Whatever the providers do, an adjudication that was  *)
(* accepted comes to an end.                                               *)
AdjudicationEnds == <>[](trigger = "Accepted" => phase \in Ended)

(* When nothing fails but the models, every dispute filed is decided in    *)
(* the end and stays so: a call that is lost or a bundle that is not stored*)
(* is the only way for it to stay open.  Where responses get lost or writes*)
(* fail there is no such promise: a handler left behind may set the status *)
(* back.                                                                   *)
SomethingLost ==
  \/ trigger = "Lost" \/ phase = "StorageFailed"
  \/ \E c \in Calls : request[c] = "Lost"

Degraded == Faults \cap {"responseLost", "database"} # {}

EveryDisputeDecided ==
  <>[](Known => status \in Terminal \/ SomethingLost \/ Degraded)

(* OnchainKeeperExecutionAdapter's comment: a submission that fails is     *)
(* recorded, that is apps/api is told of a verdict.                        *)
FailedSubmissionIsRecorded ==
  phase = "SubmitFailed" /\ Quiet => status \in Terminal
=============================================================================
