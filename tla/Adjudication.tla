---------------------------- MODULE Adjudication ----------------------------
(***************************************************************************)
(* AdjudicationService.adjudicate for one dispute: three panelists reason  *)
(* concurrently, each bounded by a timeout, their votes are aggregated and *)
(* stored, the verdict is submitted through the execution adapter, four    *)
(* settlement steps are reported and two reputations are written.  Nothing *)
(* of it is persisted or retried.                                          *)
(***************************************************************************)
EXTENDS PanelCalls, VoteAggregation

(* The panel is pickDistinctModels(models, 3).  None is none of the values *)
(* it stands beside.                                                       *)
ASSUME AdjudicationAssumption ==
  /\ IsFiniteSet(Panel) /\ Cardinality(Panel) <= 3
  /\ None \notin PanelistVerdicts
  /\ None \notin 0..2
  /\ None \notin {"won", "lost"}

VARIABLES
  phase,       \* where adjudicate() is
  member,      \* member[p]: where the promise of panelist p is
  verdicts,    \* verdicts[p]: the PanelistVerdict of p
  aggregate,   \* the AggregateResult
  stepCalls,   \* settlement-step calls made so far
  ruling,      \* ruling the keeper was handed for the chain
  reputation   \* reputation[party]: outcome written to the identity port

adjudicationVars ==
  <<request, setting, phase, member, verdicts, aggregate, stepCalls, ruling,
    reputation>>

Parties == {"claimant", "respondent"}
MemberStates == {"Idle", "Reasoning", "Inference", "Reporting", "Reported"}
Active == {"Panel", "Bundle", "Keeper", "Verdict", "Settle", "Reputation"}
(* adjudicate() resolved, rejected for a reason, or died with its process. *)
Ended == {"Done", "NoModels", "StorageFailed", "SubmitFailed", "StepFailed",
          "Crashed"}
Results == {Result(o, f, a) : o \in Outcomes, f \in 0..3, a \in 0..3}

AdjudicationInit ==
  /\ request = [c \in Calls |-> "None"]
  /\ setting \in Settings
  /\ phase = "Idle"
  /\ member = [p \in Panel |-> "Idle"]
  /\ verdicts = [p \in Panel |-> None]
  /\ aggregate = None
  /\ stepCalls = 0
  /\ ruling = None
  /\ reputation = [party \in Parties |-> None]

Sends(calls) == request' = WithSent(request, calls)

(* The call that step k of runSettlementSteps awaits: two for each step.   *)
StepCall(k) ==
  SettlementStep((k + 1) \div 2,
                 IF k % 2 = 1 THEN "IN_PROGRESS" ELSE "COMPLETED")
WithoutLastCompletion == 7
LastStepCall == 8

-----------------------------------------------------------------------------
(* A panel was found.  The evidence bundle is stored, or not: its failure  *)
(* is caught and its URI only logged.  models.map starts every panelist.   *)
Convene ==
  /\ phase = "Idle"
  /\ phase' = "Panel"
  /\ member' = [p \in Panel |-> "Reasoning"]
  /\ Sends({VoteUpdate(p, "REASONING") : p \in Panel})
  /\ UNCHANGED <<setting, verdicts, aggregate, stepCalls, ruling,
                 reputation>>

(* listAvailableModels threw or fewer than three models were listed.       *)
NoAvailableModels ==
  /\ "models" \in Faults
  /\ phase = "Idle"
  /\ phase' = "NoModels"
  /\ UNCHANGED <<setting, request, member, verdicts, aggregate, stepCalls,
                 ruling, reputation>>

(* The REASONING notification returned or its error was swallowed.         *)
RunPanelist(p) ==
  /\ phase = "Panel" /\ member[p] = "Reasoning"
  /\ Settled(VoteUpdate(p, "REASONING"))
  /\ member' = [member EXCEPT ![p] = "Inference"]
  /\ UNCHANGED <<setting, phase, verdicts, aggregate, stepCalls, ruling,
                 reputation>>

(* What Promise.race settled with becomes the panelist's verdict.  The race*)
(* settles once: an answer that comes after the timeout goes nowhere.      *)
Conclude(p, v) ==
  /\ phase = "Panel" /\ member[p] = "Inference"
  /\ verdicts' = [verdicts EXCEPT ![p] = v]
  /\ member' = [member EXCEPT ![p] = "Reporting"]
  /\ Sends({VoteUpdate(p, v.status)})
  /\ UNCHANGED <<setting, phase, aggregate, stepCalls, ruling, reputation>>

(* The model answered with a vote that parses.                             *)
Answer(p) == \E choice \in VoteChoices : Conclude(p, Voted(choice))

(* The inference call threw, its answer does not parse, or the timer of    *)
(* PANELIST_TIMEOUT_MS fired first.                                        *)
NoTimer(p) == FALSE
FailOrTimeout(p) == Conclude(p, FailedPanelist)

(* The VOTED or FAILED notification returned or its error was swallowed.   *)
Report(p) ==
  /\ phase = "Panel" /\ member[p] = "Reporting"
  /\ Settled(VoteUpdate(p, verdicts[p].status))
  /\ member' = [member EXCEPT ![p] = "Reported"]
  /\ UNCHANGED <<setting, phase, verdicts, aggregate, stepCalls, ruling,
                 reputation>>

(* Promise.all over the panel resolved.                                    *)
FirstReported == \E p \in Panel : member[p] = "Reported"
PanelComplete == \A p \in Panel : member[p] = "Reported"

AggregateVotes ==
  /\ phase = "Panel" /\ PanelComplete
  /\ aggregate' = Aggregate(verdicts)
  /\ phase' = "Bundle"
  /\ UNCHANGED <<setting, request, member, verdicts, stepCalls, ruling,
                 reputation>>

(* pickExecution                                                           *)
MirrorsOnly == FALSE
SubmitsOnChain == setting.keeper

(* The verdict bundle is stored; submitVerdict calls apps/api at once, or  *)
(* goes to the keeper first.                                               *)
PersistVerdictBundle ==
  /\ phase = "Bundle"
  /\ \/ SubmitsOnChain /\ phase' = "Keeper" /\ Sends({})
     \/ ~SubmitsOnChain /\ phase' = "Verdict" /\ Sends({Verdict})
  /\ UNCHANGED <<setting, member, verdicts, aggregate, stepCalls, ruling,
                 reputation>>

(* Unlike the evidence bundle, a verdict bundle that cannot be stored ends *)
(* the adjudication.                                                       *)
BundleNotStored ==
  /\ phase = "Bundle" /\ "storage" \in Faults
  /\ phase' = "StorageFailed"
  /\ UNCHANGED <<setting, request, member, verdicts, aggregate, stepCalls,
                 ruling, reputation>>

(* createKeeperRun hands executeRuling to the keeper, then the verdict is  *)
(* mirrored to apps/api.                                                   *)
CreateKeeperRun ==
  /\ phase = "Keeper" /\ setting.numericID
  /\ ruling' = RulingForOutcome(aggregate.outcome)
  /\ phase' = "Verdict"
  /\ Sends({Verdict})
  /\ UNCHANGED <<setting, member, verdicts, aggregate, stepCalls,
                 reputation>>

(* encodeExecuteRuling: BigInt throws on a UUID.                           *)
EncodingFails == ~setting.numericID /\ ruling' = ruling

(* HttpKeeperHubMcpClient: the keeper cannot be reached, or its answer is  *)
(* lost, refused or without a jobId after it took the job.                 *)
InvokeFails ==
  /\ setting.numericID /\ "keeper" \in Faults
  /\ ruling' \in {ruling, RulingForOutcome(aggregate.outcome)}

(* submitVerdict rejects, and apps/api is not told.                        *)
KeeperFails ==
  /\ phase = "Keeper"
  /\ EncodingFails \/ InvokeFails
  /\ phase' = "SubmitFailed"
  /\ UNCHANGED <<setting, request, member, verdicts, aggregate, stepCalls,
                 reputation>>

(* submitVerdict resolved: a FAILED verdict settles nothing.               *)
AlwaysSettles == TRUE
Settles == aggregate.outcome # "FAILED"

(* The keeper adapter only mirrors the verdict and swallows a failure; the *)
(* direct adapter rejects.                                                 *)
VerdictSubmitted ==
  LET next == IF Settles THEN {StepCall(1)} ELSE {}
  IN
  /\ phase = "Verdict"
  /\ Returns(Verdict, next) \/ (setting.keeper /\ Throws(Verdict, next))
  /\ phase' = IF Settles THEN "Settle" ELSE "Done"
  /\ stepCalls' = Cardinality(next)
  /\ UNCHANGED <<setting, member, verdicts, aggregate, ruling, reputation>>

SubmitFails ==
  /\ phase = "Verdict" /\ ~setting.keeper
  /\ Throws(Verdict, {})
  /\ phase' = "SubmitFailed"
  /\ UNCHANGED <<setting, member, verdicts, aggregate, stepCalls, ruling,
                 reputation>>

(* recordSettlementStep returned: the next one, or the reputations.        *)
NextStepCall ==
  LET last == stepCalls = LastStepCall
      next == IF last THEN {} ELSE {StepCall(stepCalls + 1)}
  IN
  /\ phase = "Settle"
  /\ Returns(StepCall(stepCalls), next)
  /\ stepCalls' = stepCalls + Cardinality(next)
  /\ phase' = IF last THEN "Reputation" ELSE phase
  /\ UNCHANGED <<setting, member, verdicts, aggregate, ruling, reputation>>

(* A step that throws takes the later steps and the reputations with it.   *)
StepFails ==
  /\ phase = "Settle"
  /\ Throws(StepCall(stepCalls), {})
  /\ phase' = "StepFailed"
  /\ UNCHANGED <<setting, member, verdicts, aggregate, stepCalls, ruling,
                 reputation>>

ReputationOutcome(party) ==
  IF (aggregate.outcome = "REFUND") = (party = "claimant")
  THEN "won" ELSE "lost"

(* writeReputations: two independent writes, each of which may fail and is *)
(* then only logged; none for an ABSTAIN.                                  *)
WriteReputations ==
  /\ phase = "Reputation"
  /\ \E written \in SUBSET Parties :
       reputation' = [party \in Parties |->
         IF party \in written /\ aggregate.outcome # "ABSTAIN"
         THEN ReputationOutcome(party) ELSE reputation[party]]
  /\ phase' = "Done"
  /\ UNCHANGED <<setting, request, member, verdicts, aggregate, stepCalls,
                 ruling>>

(* The panel process dies; nothing resumes the adjudication.               *)
Crash ==
  /\ "crash" \in Faults /\ phase \in Active
  /\ phase' = "Crashed"
  /\ UNCHANGED <<setting, request, member, verdicts, aggregate, stepCalls,
                 ruling, reputation>>

Panelist(p) ==
  \/ RunPanelist(p) \/ Answer(p) \/ FailOrTimeout(p) \/ Report(p)

Decide == AggregateVotes \/ PersistVerdictBundle \/ BundleNotStored

Submit == CreateKeeperRun \/ KeeperFails \/ VerdictSubmitted \/ SubmitFails

Settle == NextStepCall \/ StepFails \/ WriteReputations

(* Everything adjudicate() does once it has a panel.                       *)
Adjudicating == (\E p \in Panel : Panelist(p)) \/ Decide \/ Submit \/ Settle

-----------------------------------------------------------------------------
AdjudicationTypeOK ==
  /\ request \in [Calls -> RequestStates]
  /\ setting \in Settings
  /\ phase \in {"Idle"} \cup Active \cup Ended
  /\ member \in [Panel -> MemberStates]
  /\ verdicts \in [Panel -> PanelistVerdicts \cup {None}]
  /\ aggregate \in Results \cup {None}
  /\ stepCalls \in 0..LastStepCall
  /\ ruling \in (0..2) \cup {None}
  /\ reputation \in [Parties -> {"won", "lost", None}]
=============================================================================
