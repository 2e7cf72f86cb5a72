---------------------- MODULE DisputeSettlementProofs ----------------------
(***************************************************************************)
(* What holds of a dispute as long as no response is lost on its way back  *)
(* to the panel and, for what the rows show of the settlement, as long as  *)
(* the database does its work.  Calls that do not arrive, a keeper or a    *)
(* storage that fails and a panel that dies change none of it.             *)
(***************************************************************************)
EXTENDS DisputeLifecycleProofs

Without(kinds) == \A s \in Settings : s.faults \cap kinds = {}

(* A call that is over.                                                    *)
Over == {"Handled", "Lost"}

-----------------------------------------------------------------------------
(* A panelist goes on only when its notification was handled or is lost,   *)
(* so that no handler of an earlier call runs beside that of a later one.  *)
Awaited ==
  \A p \in Panel :
    /\ member[p] \in {"Inference", "Reporting", "Reported"} =>
         request[VoteUpdate(p, "REASONING")] \in Over
    /\ member[p] = "Reported" =>
         request[VoteUpdate(p, verdicts[p].status)] \in Over

(* The final status is written by the verdict's handler and stands.        *)
Final == status \in Terminal => request[Verdict] \in {"StatusWritten", "Handled"}

AwaitedInv == Inv /\ Awaited /\ Final

(* The stream is told what was written.                                    *)
Told ==
  /\ phase = "Idle" => announced = None
  /\ \A c \in VoteUpdates :
       request[c] = "StatusWritten" => status = "ADJUDICATING"
  /\ request[Verdict] \notin {"StatusWritten", "Handled"} =>
       /\ announced \in {None, "ADJUDICATING"}
       /\ announced = "ADJUDICATING" /\ Known => status = "ADJUDICATING"
  /\ request[Verdict] \in {"RowWritten", "StatusWritten", "Handled"} /\ Known =>
       verdict # None
  /\ request[Verdict] \in {"StatusWritten", "Handled"} /\ Known =>
       status = FinalStatus(aggregate.outcome)
  /\ request[Verdict] = "Handled" => announced = FinalStatus(aggregate.outcome)

ToldInv == AwaitedInv /\ RowShowsAnswer /\ Told

(* The settlement calls are made one after the other, none before apps/api *)
(* has handled the one before it, ...                                      *)
AfterSubmission == {"Settle", "Reputation", "Done", "StepFailed", "Crashed"}

CallsInOrder ==
  /\ stepCalls > 0 => phase \in AfterSubmission
  /\ \A j \in 1..8 :
       /\ j > stepCalls => request[StepCall(j)] = "None"
       /\ j = stepCalls => request[StepCall(j)] # "None"
       /\ j < stepCalls => request[StepCall(j)] = "Handled"

(* ... each leaves its mark on the row of its step ...                     *)
Mark(k) ==
  IF ~Known THEN "PENDING"
  ELSE IF request[StepCall(2 * k)] = "Handled" THEN "COMPLETED"
  ELSE IF request[StepCall(2 * k - 1)] = "Handled" THEN "IN_PROGRESS"
  ELSE "PENDING"

StepsMarked == \A k \in 1..4 : steps[k] = Mark(k)

(* ... and what comes after the verdict comes after it in the rows too.    *)
AfterVerdict ==
  /\ stepCalls > 0 =>
       /\ aggregate.outcome # "FAILED"
       /\ Known => verdict # None /\ status = FinalStatus(aggregate.outcome)
  /\ phase = "Reputation" \/ (\E party \in Parties : reputation[party] # None) =>
       stepCalls = 8 /\ request[StepCall(8)] = "Handled"
  /\ \A party \in Parties : reputation[party] # None =>
       /\ aggregate.outcome # "ABSTAIN"
       /\ reputation[party] = ReputationOutcome(party)

SettlementInv == ToldInv /\ CallsInOrder /\ StepsMarked /\ AfterVerdict

-----------------------------------------------------------------------------
(* A vote-update or the verdict is made, lost on its way or handled, and   *)
(* nothing else happens to it.                                             *)
LEMMA CallProgress ==
  ASSUME Inv, [Next]_vars, NEW c \in VoteUpdates \cup {Verdict}
  PROVE  \/ request'[c] = request[c]
         \/ request[c] = "None" /\ request'[c] = "Sent"
         \/ /\ "unreachable" \in Faults
            /\ request[c] = "Sent" /\ request'[c] = "Lost"
         \/ Handle(c)
<1> USE DEF Inv
<1>0. request \in [Calls -> RequestStates] /\ c \in Calls
  BY CallKinds DEF TypeOK, AdjudicationTypeOK
<1>1. CASE UNCHANGED request
  BY <1>1
<1>2. CASE Convene
  <2>1. {VoteUpdate(p, "REASONING") : p \in Panel} \subseteq Calls
    BY VoteUpdateIs
  <2>2. request[c] = "None" /\ request'[c] \in {"None", "Sent"}
    BY <1>0, <1>2, <2>1, SendsEffect DEF Convene, Flow
  <2> QED
    BY <2>2
<1>3. ASSUME NEW d \in VoteUpdates, Settled(d)
      PROVE  \/ request'[c] = request[c]
             \/ /\ "unreachable" \in Faults
                /\ request[c] = "Sent" /\ request'[c] = "Lost"
  BY <1>0, <1>3, SettledEffect, CallKinds
<1>4. ASSUME NEW p \in Panel, Panelist(p)
      PROVE  \/ request'[c] = request[c]
             \/ request[c] = "None" /\ request'[c] = "Sent"
             \/ /\ "unreachable" \in Faults
                /\ request[c] = "Sent" /\ request'[c] = "Lost"
  <2>1. CASE RunPanelist(p)
    BY <1>3, <2>1, VoteUpdateIs DEF RunPanelist
  <2>2. ASSUME NEW v \in PanelistVerdicts, Conclude(p, v)
        PROVE  \/ request'[c] = request[c]
               \/ request[c] = "None" /\ request'[c] = "Sent"
    <3>1. /\ v.status \in {"VOTED", "FAILED"}
          /\ member[p] = "Inference" /\ verdicts[p] = None
      BY <2>2 DEF PanelistVerdicts, Voted, FailedPanelist, Conclude,
                  Concluding
    <3>2. request[VoteUpdate(p, v.status)] = "None"
      BY <3>1 DEF Concluding
    <3>3. request'[c] =
            IF c = VoteUpdate(p, v.status) THEN "Sent" ELSE request[c]
      BY <1>0, <2>2, <3>1, SendsEffect, VoteUpdateIs DEF Conclude
    <3> QED
      BY <3>2, <3>3
  <2>3. CASE Report(p)
    <3>1. VoteUpdate(p, verdicts[p].status) \in VoteUpdates
      BY <2>3, VoteUpdateIs
         DEF Report, Concluding, TypeOK, AdjudicationTypeOK,
             PanelistVerdicts, Voted, FailedPanelist
    <3> QED
      BY <1>3, <2>3, <3>1 DEF Report
  <2>4. FailedPanelist \in PanelistVerdicts
        /\ \A choice \in VoteChoices : Voted(choice) \in PanelistVerdicts
    BY DEF PanelistVerdicts
  <2> QED
    BY <1>4, <2>1, <2>2, <2>3, <2>4 DEF Panelist, Answer, FailOrTimeout
<1>5. CASE PersistVerdictBundle \/ CreateKeeperRun
  <2>1. /\ request[Verdict] = "None"
        /\ Sends({}) \/ Sends({Verdict})
    BY <1>5 DEF PersistVerdictBundle, CreateKeeperRun, Decision
  <2> QED
    BY <1>0, <2>1, SendsEffect, CallKinds
<1>6. ASSUME NEW d \in Calls \ VoteUpdates, NEW next \in SUBSET StepUpdates,
             Returns(d, next) \/ Throws(d, next)
      PROVE  \/ request'[c] = request[c]
             \/ /\ "unreachable" \in Faults
                /\ request[c] = "Sent" /\ request'[c] = "Lost"
  BY <1>0, <1>6, ReturnsEffect, ThrowsEffect, CallKinds
<1>7. CASE VerdictSubmitted \/ SubmitFails
  <2>1. PICK next \in SUBSET StepUpdates :
          Returns(Verdict, next) \/ Throws(Verdict, next)
    BY <1>7, StepCallIs DEF VerdictSubmitted, SubmitFails
  <2> QED
    BY <1>6, <2>1, CallKinds
<1>8. CASE NextStepCall \/ StepFails
  <2>1. stepCalls \in 1..8
    BY <1>8 DEF NextStepCall, StepFails, Decision, TypeOK,
                AdjudicationTypeOK, LastStepCall
  <2>2. PICK next \in SUBSET StepUpdates :
          Returns(StepCall(stepCalls), next) \/ Throws(StepCall(stepCalls), next)
    BY <1>8, <2>1, StepCallIs DEF NextStepCall, StepFails, LastStepCall
  <2> QED
    BY <1>6, <2>1, <2>2, StepCallIs, CallKinds
<1>9. ASSUME NEW d \in Calls, Handle(d)
      PROVE  request'[c] = request[c] \/ Handle(c)
  BY <1>0, <1>9, HandlerEffect
<1> QED
  BY <1>1, <1>2, <1>4, <1>5, <1>7, <1>8, <1>9
     DEF Next, vars, adjudicationVars, File, Create, RaisedOnChain, Trigger,
         Accept, TriggerLost, Start, NoAvailableModels, PanelStep,
         Adjudicating, Decide, AggregateVotes, BundleNotStored, Submit,
         KeeperFails, Settle, WriteReputations, PanelCrash, Crash, ApiStep,
         Stopped

(* What moves a panelist on.                                               *)
LEMMA MemberProgress ==
  ASSUME Inv, [Next]_vars, NEW p \in Panel
  PROVE  \/ member'[p] = member[p] /\ verdicts'[p] = verdicts[p]
         \/ member'[p] = "Reasoning"
         \/ RunPanelist(p) \/ Report(p)
         \/ \E v \in PanelistVerdicts : Conclude(p, v)
<1>1. CASE UNCHANGED <<member, verdicts>>
  BY <1>1
<1>2. CASE Convene
  BY <1>2 DEF Convene
<1>3. ASSUME NEW q \in Panel, Panelist(q)
      PROVE  \/ member'[p] = member[p] /\ verdicts'[p] = verdicts[p]
             \/ RunPanelist(p) \/ Report(p)
             \/ \E v \in PanelistVerdicts : Conclude(p, v)
  <2>1. member \in [Panel -> MemberStates]
        /\ verdicts \in [Panel -> PanelistVerdicts \cup {None}]
    BY DEF Inv, TypeOK, AdjudicationTypeOK
  <2>2. FailedPanelist \in PanelistVerdicts
        /\ \A choice \in VoteChoices : Voted(choice) \in PanelistVerdicts
    BY DEF PanelistVerdicts
  <2>3. \/ RunPanelist(q) \/ Report(q)
        \/ \E v \in PanelistVerdicts : Conclude(q, v)
    BY <1>3, <2>2 DEF Panelist, Answer, FailOrTimeout
  <2>4. q # p => member'[p] = member[p] /\ verdicts'[p] = verdicts[p]
    BY <2>1, <2>3 DEF RunPanelist, Report, Conclude
  <2> QED
    BY <2>3, <2>4
<1> QED
  BY <1>1, <1>2, <1>3, HandlerEffect
     DEF Next, vars, adjudicationVars, File, Create, RaisedOnChain, Trigger,
         Accept, TriggerLost, Start, NoAvailableModels, PanelStep,
         Adjudicating, Decide, AggregateVotes, BundleNotStored,
         PersistVerdictBundle, Submit, CreateKeeperRun, VerdictSubmitted,
         SubmitFails, KeeperFails, Settle, NextStepCall, StepFails,
         WriteReputations, PanelCrash, Crash, ApiStep, Stopped

(* Only the handlers write rows and announce, once the dispute is created. *)
LEMMA RowsProgress ==
  ASSUME [Next]_vars
  PROVE  \/ UNCHANGED callbackVars
         \/ /\ Create /\ phase' = phase
            /\ UNCHANGED <<request, votes, verdict, steps, announced>>
         \/ \E c \in Calls : Handle(c)
BY DEF Next, vars, adjudicationVars, File, Create, RaisedOnChain, Trigger,
       Accept, TriggerLost, Start, PanelStep, PanelCrash, ApiStep, Stopped

(* Once the verdict is there no vote-update is on its way or being handled:*)
(* the verdict's handler is not overtaken by a status written for one.     *)
LEMMA NoLateVote ==
  ASSUME Inv, Awaited, request[Verdict] # "None" \/ ~Undecided,
         NEW c \in VoteUpdates
  PROVE  request[c] \in {"None"} \cup Over
<1>1. /\ Decided /\ verdicts \in [Panel -> PanelistVerdicts]
      /\ c.subject \in Panel /\ c.status \in {"REASONING", "VOTED", "FAILED"}
      /\ c = VoteUpdate(c.subject, c.status)
  BY AskedToStore, VoteUpdateIs
<1>2. CASE c.status = "REASONING"
  BY <1>1, <1>2 DEF Decided, PanelComplete, Awaited
<1>3. CASE c.status # "REASONING"
  <2>1. request[c] # "None" => c.status = verdicts[c.subject].status
    BY <1>1, <1>3 DEF Inv, Concluding
  <2>2. request[VoteUpdate(c.subject, verdicts[c.subject].status)] \in Over
    BY <1>1 DEF Decided, PanelComplete, Awaited
  <2> QED
    BY <1>1, <2>1, <2>2
<1> QED
  BY <1>2, <1>3

LEMMA AwaitedKept ==
  ASSUME Without({"responseLost"}), Inv, Awaited, [Next]_vars
  PROVE  Awaited'
<1> SUFFICES ASSUME NEW p \in Panel
             PROVE  /\ member'[p] \in {"Inference", "Reporting", "Reported"} =>
                         request'[VoteUpdate(p, "REASONING")] \in Over
                    /\ member'[p] = "Reported" =>
                         request'[VoteUpdate(p, verdicts'[p].status)] \in Over
  BY DEF Awaited
<1>1. \A c \in VoteUpdates : request[c] \in Over => request'[c] \in Over
  BY CallProgress, HandlerEffect, CallKinds DEF Over, InHandler
<1>2. "responseLost" \notin Faults
  BY DEF Without, Faults, Inv, TypeOK, AdjudicationTypeOK
<1>3. \A c \in VoteUpdates : Settled(c) => request'[c] \in Over
  BY <1>2, SettledEffect, CallKinds DEF Over, Inv, TypeOK, AdjudicationTypeOK
<1>4. \A s \in {"REASONING", "VOTED", "FAILED"} : VoteUpdate(p, s) \in VoteUpdates
  BY VoteUpdateIs
<1>5. member \in [Panel -> MemberStates]
      /\ verdicts \in [Panel -> PanelistVerdicts \cup {None}]
  BY DEF Inv, TypeOK, AdjudicationTypeOK
<1>6. verdicts[p] # None => verdicts[p].status \in {"VOTED", "FAILED"}
  BY <1>5 DEF PanelistVerdicts, Voted, FailedPanelist
<1>7. CASE member'[p] = member[p] /\ verdicts'[p] = verdicts[p]
  BY <1>1, <1>4, <1>6, <1>7 DEF Awaited, Inv, Concluding
<1>8. CASE member'[p] = "Reasoning"
  BY <1>8
<1>9. CASE RunPanelist(p)
  BY <1>3, <1>4, <1>5, <1>9 DEF RunPanelist
<1>10. CASE Report(p)
  BY <1>1, <1>3, <1>4, <1>5, <1>6, <1>10 DEF Report, Awaited, Inv, Concluding
<1>11. ASSUME NEW v \in PanelistVerdicts, Conclude(p, v)
       PROVE  /\ member'[p] = "Reporting"
              /\ request'[VoteUpdate(p, "REASONING")] \in Over
  BY <1>1, <1>4, <1>5, <1>11 DEF Conclude, Awaited
<1> QED
  BY <1>7, <1>8, <1>9, <1>10, <1>11, MemberProgress

LEMMA FinalKept ==
  ASSUME Inv, Awaited, Final, [Next]_vars
  PROVE  Final'
<1>1. CASE status' = status
  <2>1. request[Verdict] \in {"StatusWritten", "Handled"} =>
          request'[Verdict] \in {"StatusWritten", "Handled"}
    <3>1. Handle(Verdict) /\ request[Verdict] = "StatusWritten" =>
            request'[Verdict] = "Handled"
      BY CallKinds DEF Handle, HandleVerdict, UpsertVerdict, SetFinalStatus,
           AnnounceFinal, Moved, Inv, TypeOK, AdjudicationTypeOK
    <3> QED
      BY <3>1, CallProgress, HandlerEffect, CallKinds DEF InHandler
  <2> QED
    BY <1>1, <2>1 DEF Final
<1>2. CASE Create
  BY <1>2 DEF Create, Final, Terminal
<1>3. ASSUME NEW c \in Calls, Handle(c), status' # status
      PROVE  Final'
  <2>1. CASE c = Verdict
    <3>1. Moved(Verdict, "StatusWritten")
      BY <1>3, <2>1, CallKinds DEF Handle, HandleVerdict, UpsertVerdict,
           SetFinalStatus, AnnounceFinal
    <3> QED
      BY <3>1, CallKinds DEF Moved, Final, Inv, TypeOK, AdjudicationTypeOK
  <2>2. CASE c # Verdict
    BY <1>3, <2>2, CallKinds
       DEF Handle, HandleVote, UpdateVote, VoteNotUpdated, SetAdjudicating,
           AnnounceAdjudicating, UpdateStep, callbackVars, Final, Terminal
  <2> QED
    BY <2>1, <2>2
<1> QED
  BY <1>1, <1>2, <1>3, RowsProgress DEF callbackVars

LEMMA AwaitedInvInit == Init => AwaitedInv
<1> SUFFICES ASSUME Init PROVE AwaitedInv
  OBVIOUS
<1>1. Inv
  BY InvInit
<1>2. Awaited /\ Final
  BY CallbackAssumption
     DEF Init, AdjudicationInit, NoRows, Awaited, Final, Terminal,
         DisputeStatuses
<1> QED
  BY <1>1, <1>2 DEF AwaitedInv

LEMMA AwaitedInvariance ==
  ASSUME Without({"responseLost"}) PROVE Spec => []AwaitedInv
<1>1. AwaitedInv /\ [Next]_vars => AwaitedInv'
  BY StepKeepsInv, AwaitedKept, FinalKept DEF AwaitedInv
<1> QED
  BY <1>1, AwaitedInvInit, PTL DEF Spec

(* Once a dispute is decided no handler writes its row, its votes or its   *)
(* verdict any more.                                                       *)
LEMMA TerminalStands ==
  ASSUME AwaitedInv, [Next]_vars, status \in Terminal
  PROVE  UNCHANGED <<status, votes, verdict>>
<1>1. /\ request[Verdict] \in {"StatusWritten", "Handled"}
      /\ \A c \in VoteUpdates : request[c] \in {"None"} \cup Over
  BY NoLateVote DEF AwaitedInv, Final
<1>2. CASE Create
  BY <1>2, CallbackAssumption
     DEF Create, AwaitedInv, Inv, Flow, Known, Terminal, DisputeStatuses
<1>3. ASSUME NEW c \in Calls, Handle(c)
      PROVE  UNCHANGED <<status, votes, verdict>>
  BY <1>1, <1>3, CallKinds
     DEF Handle, HandleVote, UpdateVote, VoteNotUpdated, SetAdjudicating,
         AnnounceAdjudicating, HandleVerdict, UpsertVerdict,
         SetFinalStatus, AnnounceFinal, UpdateStep, callbackVars, Over
<1> QED
  BY <1>2, <1>3, RowsProgress DEF callbackVars

(* A dispute that was settled or rejected stays so: no late notification   *)
(* reopens it, nor does the verdict's handler, which runs once.            *)
THEOREM DecidedForGood ==
  ASSUME Without({"responseLost"}) PROVE Spec => TerminalIsFinal
<1>1. AwaitedInv /\ [Next]_vars => [(status \in Terminal) => (status' = status)]_vars
  BY TerminalStands
<1> QED
  BY <1>1, AwaitedInvariance, PTL DEF Spec, TerminalIsFinal

-----------------------------------------------------------------------------
(* What a handler does when the database works.                            *)
LEMMA VoteHandled ==
  ASSUME Inv, ~DatabaseFails, NEW c \in VoteUpdates, Handle(c)
  PROVE  \/ /\ request[c] = "Sent" /\ request'[c] \in {"RowWritten", "Handled"}
            /\ UNCHANGED <<status, verdict, steps, announced>>
            /\ IF Known /\ c.subject \in Rows
               THEN votes' = [votes EXCEPT ![c.subject] =
                      VoteRow(@, c.status, verdicts[c.subject])]
               ELSE votes' = votes
         \/ /\ request[c] = "RowWritten" /\ request'[c] = "StatusWritten"
            /\ status' = "ADJUDICATING"
            /\ UNCHANGED <<votes, verdict, steps, announced>>
         \/ /\ request[c] = "StatusWritten" /\ request'[c] = "Handled"
            /\ announced' = "ADJUDICATING"
            /\ UNCHANGED <<status, votes, verdict, steps>>
<1>1. HandleVote(c, verdicts[c.subject])
  BY CallKinds DEF Handle
<1>2. request \in [Calls -> RequestStates] /\ c \in Calls
  BY CallKinds DEF Inv, TypeOK, AdjudicationTypeOK
<1> QED
  BY <1>1, <1>2
     DEF HandleVote, UpdateVote, VoteNotUpdated, SetAdjudicating,
         AnnounceAdjudicating, Moved, callbackVars

LEMMA VerdictHandled ==
  ASSUME Inv, ~DatabaseFails, Handle(Verdict)
  PROVE  /\ UNCHANGED <<votes, steps>>
         /\ \/ /\ request[Verdict] = "Sent" /\ request'[Verdict] = "RowWritten"
               /\ UNCHANGED <<status, announced>>
               /\ IF Known
                  THEN verdict' = [aggregate EXCEPT !.outcome = StoredOutcome(@)]
                  ELSE verdict' = verdict
            \/ /\ request[Verdict] = "RowWritten"
               /\ request'[Verdict] = "StatusWritten"
               /\ UNCHANGED <<verdict, announced>>
               /\ IF Known THEN status' = FinalStatus(aggregate.outcome)
                           ELSE status' = status
            \/ /\ request[Verdict] = "StatusWritten"
               /\ request'[Verdict] = "Handled"
               /\ announced' = FinalStatus(aggregate.outcome)
               /\ UNCHANGED <<status, verdict>>
<1>1. HandleVerdict(aggregate)
  BY CallKinds DEF Handle
<1>2. request \in [Calls -> RequestStates] /\ Verdict \in Calls
  BY CallKinds DEF Inv, TypeOK, AdjudicationTypeOK
<1> QED
  BY <1>1, <1>2 DEF HandleVerdict, UpsertVerdict, SetFinalStatus,
       AnnounceFinal, StatusAfter, Moved

LEMMA StepHandled ==
  ASSUME Inv, ~DatabaseFails, NEW c \in StepUpdates, Handle(c)
  PROVE  /\ UNCHANGED <<status, votes, verdict, announced>>
         /\ request[c] = "Sent" /\ request'[c] = "Handled"
         /\ steps' = IF Known THEN [steps EXCEPT ![c.subject] = c.status]
                     ELSE steps
BY CallKinds
   DEF Handle, UpdateStep, Moved, Inv, TypeOK, AdjudicationTypeOK

LEMMA RowShowsKept ==
  ASSUME ~DatabaseFails, Inv, Awaited, [Next]_vars, RowShowsAnswer
  PROVE  RowShowsAnswer'
<1> SUFFICES ASSUME NEW p \in Rows \cap Panel, Known', verdicts'[p] # None,
                    request'[VoteUpdate(p, verdicts'[p].status)] = "Handled"
             PROVE  votes'[p] = verdicts'[p]
  BY DEF RowShowsAnswer
<1> DEFINE c == VoteUpdate(p, verdicts[p].status)
<1>0. /\ verdicts \in [Panel -> PanelistVerdicts \cup {None}]
      /\ request \in [Calls -> RequestStates] /\ votes \in [Rows -> PanelVotes]
  BY DEF Inv, TypeOK, AdjudicationTypeOK, CallbackTypeOK
<1>1. verdicts'[p] = verdicts[p]
  <2>1. verdicts'[p] = None <=> member'[p] \notin {"Reporting", "Reported"}
    BY StepKeepsInv DEF Inv, Concluding
  <2>2. ASSUME NEW v \in PanelistVerdicts, Conclude(p, v)
        PROVE  FALSE
    <3>1. v.status \in {"VOTED", "FAILED"} /\ verdicts'[p] = v
      BY <1>0, <2>2 DEF Conclude, PanelistVerdicts, Voted, FailedPanelist
    <3>2. request'[VoteUpdate(p, v.status)] = "Sent"
      BY <1>0, <2>2, <3>1, SendsEffect, VoteUpdateIs DEF Conclude
    <3> QED
      BY <3>1, <3>2
  <2> QED
    BY <2>1, <2>2, MemberProgress DEF RunPanelist, Report
<1>2. /\ c \in VoteUpdates /\ c.subject = p
      /\ c.status = verdicts[p].status /\ c.status \in {"VOTED", "FAILED"}
  BY <1>0, <1>1, VoteUpdateIs DEF PanelistVerdicts, Voted, FailedPanelist
<1>3. request[VoteUpdate(p, "REASONING")] \in Over
  BY <1>1 DEF Inv, Concluding, Awaited
<1> HIDE DEF c
<1>4. request'[c] = "Handled"
  BY <1>1 DEF c
<1>5. ASSUME Known, request[c] = "Handled"
      PROVE  votes[p] = verdicts[p]
  BY <1>1, <1>5 DEF RowShowsAnswer, c
<1>6. CASE Create
  BY <1>1, <1>6 DEF Create, Inv, Flow, Concluding
<1>7. ASSUME NEW d \in Calls, Handle(d), Known
      PROVE  votes'[p] = verdicts'[p]
  <2>1. CASE d = c
    BY <1>0, <1>1, <1>2, <1>7, <2>1, VoteHandled DEF VoteRow, Inv, Flow, InHandler
  <2>2. CASE d # c
    <3>1. votes[p] = verdicts[p]
      BY <1>2, <1>4, <1>5, <1>7, <2>2, HandlerEffect, CallKinds
    <3>2. votes'[p] = votes[p]
      <4>1. CASE d \in VoteUpdates
        <5>1. d.subject = p => request[d] # "Sent"
          BY <1>1, <1>2, <1>3, <2>2, <4>1, VoteUpdateIs
             DEF Inv, Concluding, Over
        <5> QED
          BY <1>0, <1>7, <4>1, <5>1, VoteHandled
      <4>2. CASE d \notin VoteUpdates
        BY <1>7, <4>2, VerdictHandled, StepHandled DEF Calls
      <4> QED
        BY <4>1, <4>2
    <3> QED
      BY <1>1, <3>1, <3>2
  <2> QED
    BY <2>1, <2>2
<1>8. CASE UNCHANGED callbackVars /\ \A d \in Calls : ~Handle(d)
  BY <1>1, <1>2, <1>4, <1>5, <1>8, CallProgress, CallKinds DEF callbackVars, Known
<1>9. (\E d \in Calls : Handle(d)) => Known
  BY HandlerKeepsInv, HandlerEffect DEF Inv, Flow
<1> QED
  BY <1>6, <1>7, <1>8, <1>9, RowsProgress

(* adjudicate() does not start twice, and aggregates once.                 *)
LEMMA DecidedStands ==
  ASSUME Inv, [Next]_vars
  PROVE  /\ phase' = "Idle" => phase = "Idle"
         /\ ~Undecided => aggregate' = aggregate
BY HandlerEffect
   DEF Next, vars, adjudicationVars, File, Create, RaisedOnChain, Trigger,
       Accept, TriggerLost, Start, Convene, NoAvailableModels, PanelStep,
       Adjudicating, Panelist, RunPanelist, Answer, FailOrTimeout, Conclude,
       Report, Decide, AggregateVotes, PersistVerdictBundle, BundleNotStored,
       Submit, CreateKeeperRun, KeeperFails, VerdictSubmitted, SubmitFails,
       Settle, NextStepCall, StepFails, WriteReputations, PanelCrash, Crash,
       ApiStep, Stopped, Inv, Decision, Convened

LEMMA ToldKept ==
  ASSUME ~DatabaseFails, Inv, Awaited, [Next]_vars, Told
  PROVE  Told'
<1>0. /\ request \in [Calls -> RequestStates] /\ Verdict \in Calls
      /\ \A c \in VoteUpdates : c \in Calls /\ c # Verdict
      /\ \A c \in StepUpdates : c \in Calls /\ c # Verdict /\ c \notin VoteUpdates
  BY CallKinds DEF Inv, TypeOK, AdjudicationTypeOK
<1>1. request[Verdict] # "None" => aggregate' = aggregate
  BY DecidedStands DEF Undecided
<1>2. ASSUME UNCHANGED callbackVars, \A c \in Calls : ~Handle(c)
      PROVE  Told'
  <2>1. /\ Known' = Known
        /\ UNCHANGED <<status, verdict, announced>>
    BY <1>2 DEF callbackVars, Known
  <2>2. \A c \in VoteUpdates \cup {Verdict} :
          request'[c] \in {"RowWritten", "StatusWritten", "Handled"} =>
            request'[c] = request[c]
    BY <1>0, <1>2, CallProgress
  <2>3. request'[Verdict] \notin {"StatusWritten", "Handled"} =>
          request[Verdict] \notin {"StatusWritten", "Handled"}
    BY <1>0, <1>2, CallProgress
  <2> QED
    BY <1>1, <2>1, <2>2, <2>3, DecidedStands DEF Told
<1>3. CASE Create /\ phase' = phase
           /\ UNCHANGED <<request, votes, verdict, steps, announced>>
  <2>1. phase = "Idle" /\ announced = None /\ \A c \in Calls : request[c] = "None"
    BY <1>3 DEF Create, Inv, Flow, Told
  <2> QED
    BY <1>0, <1>3, <2>1, CallbackAssumption DEF Told, DisputeStatuses
<1>4. ASSUME NEW d \in Calls, Handle(d)
      PROVE  Told'
  <2>1. /\ \A c \in Calls \ {d} : request'[c] = request[c]
        /\ UNCHANGED <<phase, aggregate>>
        /\ phase # "Idle" /\ request[d] # "None"
    BY <1>4, HandlerEffect DEF Inv, Flow, InHandler
  <2>2. Known' = Known
    <3>1. Flow /\ Flow' /\ trigger' = trigger /\ setting' = setting
      BY <1>4, HandlerKeepsInv, HandlerEffect DEF Inv
    <3> QED
      BY <3>1 DEF Flow, Known
  <2>3. CASE d \in VoteUpdates
    <3>1. request[Verdict] = "None" /\ request'[Verdict] = "None"
      BY <1>0, <1>4, <2>1, <2>3, NoLateVote, HandlerEffect DEF Over, InHandler
    <3>2. verdict' = verdict
      BY <1>4, <2>3, VoteHandled
    <3>3. \A c \in VoteUpdates :
            request'[c] = "StatusWritten" => status' = "ADJUDICATING"
      BY <1>0, <1>4, <2>1, <2>3, VoteHandled DEF Told
    <3>4. /\ announced' \in {None, "ADJUDICATING"}
          /\ announced' = "ADJUDICATING" /\ Known => status' = "ADJUDICATING"
      BY <1>4, <2>3, <3>1, VoteHandled DEF Told
    <3> QED
      BY <2>1, <2>2, <3>1, <3>3, <3>4 DEF Told
  <2>4. CASE d = Verdict
    <3>1. \A c \in VoteUpdates : request'[c] # "StatusWritten"
      BY <1>0, <2>1, <2>4, NoLateVote DEF Over
    <3>2. aggregate \in Results
      BY <2>1, <2>4, AskedToStore
    <3>3. [aggregate EXCEPT !.outcome = StoredOutcome(@)] # None
      BY <3>2, StoredIsVerdict, CallbackAssumption
    <3> QED
      BY <1>4, <2>1, <2>2, <2>4, <3>1, <3>3, VerdictHandled DEF Told
  <2>5. CASE d \in StepUpdates
    BY <1>0, <1>4, <2>1, <2>2, <2>5, StepHandled DEF Told
  <2> QED
    BY <2>3, <2>4, <2>5 DEF Calls
<1> QED
  BY <1>2, <1>3, <1>4, RowsProgress

LEMMA ToldIsInductive ==
  ASSUME Without({"responseLost", "database"})
  PROVE  (Init => ToldInv) /\ (ToldInv /\ [Next]_vars => ToldInv')
<1>1. ASSUME Init PROVE ToldInv
  <2>1. AwaitedInv
    BY <1>1, AwaitedInvInit
  <2>2. RowShowsAnswer /\ Told
    BY <1>1, CallKinds
       DEF Init, AdjudicationInit, NoRows, RowShowsAnswer, Told, Known
  <2> QED
    BY <2>1, <2>2 DEF ToldInv
<1>2. ASSUME ToldInv, [Next]_vars PROVE ToldInv'
  <2>1. ~DatabaseFails
    BY <1>2 DEF Without, DatabaseFails, Faults, ToldInv, AwaitedInv, Inv,
                TypeOK, AdjudicationTypeOK
  <2>2. Without({"responseLost"})
    BY DEF Without
  <2>3. Inv' /\ Awaited' /\ Final'
    BY <1>2, <2>2, StepKeepsInv, AwaitedKept, FinalKept
       DEF ToldInv, AwaitedInv
  <2>4. RowShowsAnswer' /\ Told'
    BY <1>2, <2>1, RowShowsKept, ToldKept DEF ToldInv, AwaitedInv
  <2> QED
    BY <2>3, <2>4 DEF ToldInv, AwaitedInv
<1> QED
  BY <1>1, <1>2

LEMMA ToldInvariance ==
  ASSUME Without({"responseLost", "database"}) PROVE Spec => []ToldInv
BY ToldIsInductive, PTL DEF Spec

(* The row of a panelist whose final notification was handled shows what   *)
(* was counted: the REASONING notification does not overtake it.           *)
THEOREM RowsShowAnswers ==
  ASSUME Without({"responseLost", "database"})
  PROVE  Spec => []RowShowsAnswer
<1>1. ToldInv => RowShowsAnswer
  BY DEF ToldInv
<1> QED
  BY <1>1, ToldInvariance, PTL

(* Whenever no handler is between its write and its event, the viewers of  *)
(* the stream and the page that is loaded anew see the same status.        *)
THEOREM StreamAndRowAgree ==
  ASSUME Without({"responseLost", "database"})
  PROVE  Spec => []StreamAgreesWithRow
<1>1. ToldInv => StreamAgreesWithRow
  BY CallKinds DEF ToldInv, Told, StreamAgreesWithRow
<1> QED
  BY <1>1, ToldInvariance, PTL

-----------------------------------------------------------------------------
(* The calls of step k are the two in a row that name it.                  *)
LEMMA StepUpdateIs ==
  /\ \A k \in 1..4 :
       /\ 2 * k \in 1..8 /\ 2 * k - 1 \in 1..8
       /\ StepCall(2 * k) = SettlementStep(k, "COMPLETED")
       /\ StepCall(2 * k - 1) = SettlementStep(k, "IN_PROGRESS")
  /\ \A c \in StepUpdates : \E k \in 1..4 :
       \/ c = StepCall(2 * k) /\ c.subject = k /\ c.status = "COMPLETED"
       \/ c = StepCall(2 * k - 1) /\ c.subject = k /\ c.status = "IN_PROGRESS"
<1>1. ASSUME NEW k \in 1..4
      PROVE  /\ 2 * k \in 1..8 /\ 2 * k - 1 \in 1..8
             /\ StepCall(2 * k) = SettlementStep(k, "COMPLETED")
             /\ StepCall(2 * k - 1) = SettlementStep(k, "IN_PROGRESS")
  <2>1. /\ (2 * k + 1) \div 2 = k /\ (2 * k) % 2 = 0
        /\ ((2 * k - 1) + 1) \div 2 = k /\ (2 * k - 1) % 2 = 1
    OBVIOUS
  <2> QED
    BY <2>1 DEF StepCall
<1>2. ASSUME NEW c \in StepUpdates
      PROVE  \E k \in 1..4 :
        \/ c = StepCall(2 * k) /\ c.subject = k /\ c.status = "COMPLETED"
        \/ c = StepCall(2 * k - 1) /\ c.subject = k /\ c.status = "IN_PROGRESS"
  <2>1. PICK k \in 1..4, st \in {"IN_PROGRESS", "COMPLETED"} :
          c = SettlementStep(k, st)
    BY DEF StepUpdates
  <2>2. c.subject = k /\ c.status = st
    BY <2>1 DEF SettlementStep
  <2> QED
    BY <1>1, <2>1, <2>2
<1> QED
  BY <1>1, <1>2

(* What moves the settlement on.                                           *)
LEMMA SettlementProgress ==
  ASSUME Inv, [Next]_vars
  PROVE  /\ phase \in AfterSubmission => phase' \in AfterSubmission
         /\ phase' = "Reputation" => phase = "Reputation" \/ NextStepCall
         /\ reputation' = reputation \/ WriteReputations
         /\ stepCalls' = stepCalls \/ VerdictSubmitted \/ NextStepCall
BY HandlerEffect
   DEF Next, vars, adjudicationVars, File, Create, RaisedOnChain, Trigger,
       Accept, TriggerLost, Start, Convene, NoAvailableModels, PanelStep,
       Adjudicating, Panelist, RunPanelist, Answer, FailOrTimeout, Conclude,
       Report, Decide, AggregateVotes, PersistVerdictBundle, BundleNotStored,
       Submit, CreateKeeperRun, KeeperFails, VerdictSubmitted, SubmitFails,
       Settle, NextStepCall, StepFails, WriteReputations, PanelCrash, Crash,
       ApiStep, Stopped, AfterSubmission

LEMMA OtherStepCalls ==
  ASSUME Inv, [Next]_vars, ~VerdictSubmitted, ~NextStepCall, ~StepFails,
         \A d \in Calls : ~Handle(d), NEW c \in StepUpdates
  PROVE  request'[c] = request[c]
<1>0. /\ request \in [Calls -> RequestStates] /\ c \in Calls
      /\ c \notin VoteUpdates /\ c # Verdict
  BY CallKinds DEF Inv, TypeOK, AdjudicationTypeOK
<1>1. CASE Convene
  <2>1. {VoteUpdate(p, "REASONING") : p \in Panel} \subseteq VoteUpdates
    BY VoteUpdateIs
  <2> QED
    BY <1>0, <1>1, <2>1, SendsEffect, CallKinds DEF Convene
<1>2. ASSUME NEW d \in VoteUpdates, Settled(d)
      PROVE  request'[c] = request[c]
  BY <1>0, <1>2, SettledEffect, CallKinds
<1>3. ASSUME NEW p \in Panel, Panelist(p)
      PROVE  request'[c] = request[c]
  <2>1. CASE RunPanelist(p)
    BY <1>2, <2>1, VoteUpdateIs DEF RunPanelist
  <2>2. ASSUME NEW v \in PanelistVerdicts, Conclude(p, v)
        PROVE  request'[c] = request[c]
    <3>1. VoteUpdate(p, v.status) \in VoteUpdates
      BY VoteUpdateIs DEF PanelistVerdicts, Voted, FailedPanelist
    <3> QED
      BY <1>0, <2>2, <3>1, SendsEffect, CallKinds DEF Conclude
  <2>3. CASE Report(p)
    <3>1. VoteUpdate(p, verdicts[p].status) \in VoteUpdates
      BY <2>3, VoteUpdateIs
         DEF Report, Inv, Concluding, TypeOK, AdjudicationTypeOK,
             PanelistVerdicts, Voted, FailedPanelist
    <3> QED
      BY <1>2, <2>3, <3>1 DEF Report
  <2>4. FailedPanelist \in PanelistVerdicts
        /\ \A choice \in VoteChoices : Voted(choice) \in PanelistVerdicts
    BY DEF PanelistVerdicts
  <2> QED
    BY <1>3, <2>1, <2>2, <2>3, <2>4 DEF Panelist, Answer, FailOrTimeout
<1>4. CASE PersistVerdictBundle \/ CreateKeeperRun
  <2>1. Sends({}) \/ Sends({Verdict})
    BY <1>4 DEF PersistVerdictBundle, CreateKeeperRun
  <2> QED
    BY <1>0, <2>1, SendsEffect, CallKinds
<1>5. CASE SubmitFails
  BY <1>0, <1>5, ThrowsEffect, CallKinds DEF SubmitFails
<1>6. CASE UNCHANGED request
  BY <1>6
<1> QED
  BY <1>1, <1>3, <1>4, <1>5, <1>6
     DEF Next, vars, adjudicationVars, File, Create, RaisedOnChain, Trigger,
         Accept, TriggerLost, Start, NoAvailableModels, PanelStep,
         Adjudicating, Decide, AggregateVotes, BundleNotStored, Submit,
         KeeperFails, Settle, WriteReputations, PanelCrash, Crash, ApiStep,
         Stopped

(* When the verdict was submitted, or is not to be: what became of it.     *)
LEMMA SubmittedEffect ==
  ASSUME Inv, CallsInOrder, VerdictSubmitted
  PROVE  /\ stepCalls = 0 /\ stepCalls' = IF Settles THEN 1 ELSE 0
         /\ phase' \in AfterSubmission
         /\ \A j \in 1..8 :
              request'[StepCall(j)] =
                IF Settles /\ j = 1 THEN "Sent" ELSE request[StepCall(j)]
<1> DEFINE next == IF Settles THEN {StepCall(1)} ELSE {}
<1>1. /\ next \in SUBSET Calls /\ next \subseteq StepUpdates
      /\ Cardinality(next) = IF Settles THEN 1 ELSE 0
  BY StepCallIs, FS_EmptySet, FS_Singleton
<1>2. /\ phase = "Verdict" /\ phase' = IF Settles THEN "Settle" ELSE "Done"
      /\ Returns(Verdict, next) \/ Throws(Verdict, next)
      /\ stepCalls' = Cardinality(next)
  BY DEF VerdictSubmitted
<1>3. \A j \in 1..8 : StepCall(j) \in next <=> Settles /\ j = 1
  BY StepCallIs
<1> HIDE DEF next
<1>4. /\ stepCalls = 0 /\ request \in [Calls -> RequestStates]
  BY <1>2 DEF Inv, TypeOK, AdjudicationTypeOK, CallsInOrder, AfterSubmission,
              LastStepCall
<1>5. \A c \in StepUpdates :
        request'[c] = IF c \in next THEN "Sent" ELSE request[c]
  BY <1>1, <1>2, <1>4, ReturnsEffect, ThrowsEffect, CallKinds
<1> QED
  BY <1>1, <1>2, <1>3, <1>4, <1>5, StepCallIs DEF AfterSubmission

LEMMA NextStepEffect ==
  ASSUME Inv, NextStepCall
  PROVE  /\ stepCalls \in 1..8 /\ request[StepCall(stepCalls)] = "Handled"
         /\ stepCalls' = IF stepCalls = 8 THEN 8 ELSE stepCalls + 1
         /\ phase' = IF stepCalls = 8 THEN "Reputation" ELSE "Settle"
         /\ \A j \in 1..8 :
              request'[StepCall(j)] =
                IF j = stepCalls + 1 THEN "Sent" ELSE request[StepCall(j)]
<1> DEFINE next == IF stepCalls = 8 THEN {} ELSE {StepCall(stepCalls + 1)}
<1>1. stepCalls \in 1..8
  BY DEF NextStepCall, Inv, Decision, TypeOK, AdjudicationTypeOK, LastStepCall
<1>2. /\ next \in SUBSET Calls
      /\ Cardinality(next) = IF stepCalls = 8 THEN 0 ELSE 1
  <2>1. CASE stepCalls = 8
    BY <2>1, FS_EmptySet
  <2>2. CASE stepCalls # 8
    <3>1. stepCalls + 1 \in 1..8
      BY <1>1, <2>2
    <3> QED
      BY <2>2, <3>1, StepCallIs, FS_Singleton
  <2> QED
    BY <2>1, <2>2
<1>3. \A j \in 1..8 : StepCall(j) \in next <=> j = stepCalls + 1
  BY <1>1, StepCallIs
<1>4. /\ phase = "Settle" /\ Returns(StepCall(stepCalls), next)
      /\ stepCalls' = stepCalls + Cardinality(next)
      /\ phase' = IF stepCalls = 8 THEN "Reputation" ELSE phase
  BY DEF NextStepCall, LastStepCall
<1> HIDE DEF next
<1>5. request \in [Calls -> RequestStates] /\ StepCall(stepCalls) \in Calls
  BY <1>1, StepCallIs DEF Inv, TypeOK, AdjudicationTypeOK
<1>6. /\ request[StepCall(stepCalls)] = "Handled"
      /\ \A d \in Calls :
           request'[d] = IF d \in next THEN "Sent" ELSE request[d]
  BY <1>2, <1>4, <1>5, ReturnsEffect
<1> QED
  BY <1>1, <1>2, <1>3, <1>4, <1>6, StepCallIs

LEMMA StepFailsEffect ==
  ASSUME "responseLost" \notin Faults, Inv, StepFails
  PROVE  /\ stepCalls \in 1..8 /\ request[StepCall(stepCalls)] = "Sent"
         /\ stepCalls' = stepCalls /\ phase' = "StepFailed"
         /\ \A j \in 1..8 :
              request'[StepCall(j)] =
                IF j = stepCalls THEN "Lost" ELSE request[StepCall(j)]
<1>1. stepCalls \in 1..8
  BY DEF StepFails, Inv, Decision, TypeOK, AdjudicationTypeOK, LastStepCall
<1>2. /\ request \in [Calls -> RequestStates] /\ StepCall(stepCalls) \in Calls
      /\ Throws(StepCall(stepCalls), {})
  BY <1>1, StepCallIs DEF Inv, TypeOK, AdjudicationTypeOK, StepFails
<1>3. /\ request[StepCall(stepCalls)] = "Sent"
      /\ request'[StepCall(stepCalls)] = "Lost"
      /\ \A d \in Calls \ {StepCall(stepCalls)} : request'[d] = request[d]
  BY <1>2, ThrowsEffect
<1> QED
  BY <1>1, <1>3, StepCallIs DEF StepFails

LEMMA CallsInOrderKept ==
  ASSUME "responseLost" \notin Faults, Inv, CallsInOrder, [Next]_vars
  PROVE  CallsInOrder'
<1>0. stepCalls \in 0..8
  BY DEF Inv, TypeOK, AdjudicationTypeOK, LastStepCall
<1>1. CASE VerdictSubmitted
  <2>1. stepCalls = 0 /\ \A j \in 1..8 : request[StepCall(j)] = "None"
    BY <1>1, SubmittedEffect DEF CallsInOrder
  <2>2. CASE Settles
    BY <1>1, <2>1, <2>2, SubmittedEffect DEF CallsInOrder
  <2>3. CASE ~Settles
    <3>1. stepCalls' = 0 /\ \A j \in 1..8 : request'[StepCall(j)] = "None"
      BY <1>1, <2>1, <2>3, SubmittedEffect
    <3> QED
      BY <3>1 DEF CallsInOrder
  <2> QED
    BY <2>2, <2>3
<1>2. CASE NextStepCall
  BY <1>2, NextStepEffect DEF CallsInOrder, AfterSubmission
<1>3. CASE StepFails
  BY <1>3, StepFailsEffect DEF CallsInOrder, AfterSubmission
<1>4. ASSUME NEW c \in Calls, Handle(c)
      PROVE  CallsInOrder'
  <2>1. /\ request[c] \in {"Sent"} \cup InHandler
        /\ request'[c] \in {"Handled"} \cup InHandler
        /\ \A d \in Calls \ {c} : request'[d] = request[d]
        /\ UNCHANGED <<stepCalls, phase>>
    BY <1>4, HandlerEffect
  <2> QED
    BY <2>1, StepCallIs DEF CallsInOrder, InHandler
<1>5. CASE /\ ~VerdictSubmitted /\ ~NextStepCall /\ ~StepFails
           /\ \A c \in Calls : ~Handle(c)
  BY <1>5, OtherStepCalls, SettlementProgress, StepCallIs DEF CallsInOrder
<1> QED
  BY <1>1, <1>2, <1>3, <1>4, <1>5

(* Once the first settlement step is under way, the dispute was decided.   *)
LEMMA SettlementIsDecided ==
  ASSUME Inv, CallsInOrder, stepCalls > 0
  PROVE  /\ ~Undecided /\ phase # "Idle"
         /\ stepCalls \in 1..8 /\ request[StepCall(stepCalls)] # "None"
<1>1. stepCalls \in 1..8
  BY DEF Inv, TypeOK, AdjudicationTypeOK, LastStepCall
<1> QED
  BY <1>1 DEF CallsInOrder, Undecided, AfterSubmission

LEMMA StepsMarkedKept ==
  ASSUME "responseLost" \notin Faults, ~DatabaseFails, Inv, CallsInOrder,
         StepsMarked, [Next]_vars
  PROVE  StepsMarked'
<1>0. /\ request \in [Calls -> RequestStates] /\ stepCalls \in 0..8
      /\ steps \in [1..4 -> StepStatuses]
  BY DEF Inv, TypeOK, AdjudicationTypeOK, CallbackTypeOK, LastStepCall
<1>1. ASSUME UNCHANGED callbackVars, \A c \in Calls : ~Handle(c)
      PROVE  StepsMarked'
  <2>1. Known' = Known /\ steps' = steps
    BY <1>1 DEF callbackVars, Known
  <2>2. ASSUME NEW j \in 1..8
        PROVE  request'[StepCall(j)] = "Handled" <=>
                 request[StepCall(j)] = "Handled"
    <3>1. CASE VerdictSubmitted
      BY <3>1, SubmittedEffect DEF CallsInOrder
    <3>2. CASE NextStepCall
      BY <1>0, <3>2, NextStepEffect DEF CallsInOrder
    <3>3. CASE StepFails
      BY <3>3, StepFailsEffect
    <3>4. CASE ~VerdictSubmitted /\ ~NextStepCall /\ ~StepFails
      BY <1>1, <3>4, OtherStepCalls, StepCallIs
    <3> QED
      BY <3>1, <3>2, <3>3, <3>4
  <2> QED
    BY <2>1, <2>2, StepUpdateIs DEF StepsMarked, Mark
<1>2. CASE Create /\ UNCHANGED <<request, steps>>
  <2>1. ~Known /\ \A c \in Calls : request[c] = "None"
    BY <1>2 DEF Create, Inv, Flow
  <2> QED
    BY <1>2, <2>1, StepUpdateIs, StepCallIs DEF StepsMarked, Mark
<1>3. ASSUME NEW c \in Calls, Handle(c)
      PROVE  StepsMarked'
  <2>1. /\ \A d \in Calls \ {c} : request'[d] = request[d]
        /\ Known' = Known
    <3>1. Flow /\ Flow' /\ trigger' = trigger /\ setting' = setting
      BY <1>3, HandlerKeepsInv, HandlerEffect DEF Inv
    <3> QED
      BY <1>3, <3>1, HandlerEffect DEF Flow, Known
  <2>2. CASE c \notin StepUpdates
    <3>1. steps' = steps
      BY <1>3, <2>2, VoteHandled, VerdictHandled DEF Calls
    <3> QED
      BY <2>1, <2>2, <3>1, StepUpdateIs, StepCallIs DEF StepsMarked, Mark
  <2>3. CASE c \in StepUpdates
    <3>1. PICK k \in 1..4 :
            \/ c = StepCall(2 * k) /\ c.subject = k /\ c.status = "COMPLETED"
            \/ /\ c = StepCall(2 * k - 1) /\ c.subject = k
               /\ c.status = "IN_PROGRESS"
      BY <2>3, StepUpdateIs
    <3>2. /\ request[c] = "Sent" /\ request'[c] = "Handled"
          /\ steps' = IF Known THEN [steps EXCEPT ![k] = c.status] ELSE steps
      BY <1>3, <2>3, <3>1, StepHandled
    <3>3. ASSUME NEW l \in 1..4, l # k
          PROVE  /\ request'[StepCall(2 * l)] = request[StepCall(2 * l)]
                 /\ request'[StepCall(2 * l - 1)] = request[StepCall(2 * l - 1)]
                 /\ steps'[l] = steps[l]
      <4>1. /\ 2 * l \in 1..8 /\ 2 * l - 1 \in 1..8
            /\ 2 * k \in 1..8 /\ 2 * k - 1 \in 1..8
            /\ {2 * l, 2 * l - 1} \cap {2 * k, 2 * k - 1} = {}
        BY <3>3
      <4>2. c \notin {StepCall(2 * l), StepCall(2 * l - 1)}
        BY <3>1, <4>1, StepCallIs
      <4> QED
        BY <1>0, <2>1, <3>2, <3>3, <4>1, <4>2, StepCallIs
    <3>4. Known => steps'[k] = c.status
      BY <1>0, <3>2
    <3>5. \A l \in 1..4 : l # k => steps'[l] = Mark(l)'
      BY <2>1, <3>3 DEF StepsMarked, Mark
    <3>6. steps'[k] = Mark(k)'
      <4>1. CASE ~Known
        BY <2>1, <3>2, <4>1 DEF StepsMarked, Mark
      <4>2. CASE Known /\ c = StepCall(2 * k) /\ c.status = "COMPLETED"
        BY <2>1, <3>2, <3>4, <4>2 DEF Mark
      <4>3. CASE Known /\ c = StepCall(2 * k - 1) /\ c.status = "IN_PROGRESS"
        <5>1. /\ 2 * k \in 1..8 /\ 2 * k - 1 \in 1..8
              /\ stepCalls = 2 * k - 1
          BY <1>0, <3>2, <4>3 DEF CallsInOrder
        <5>2. request[StepCall(2 * k)] = "None" /\ StepCall(2 * k) # c
          BY <1>0, <4>3, <5>1, StepCallIs DEF CallsInOrder
        <5>3. request'[StepCall(2 * k)] = "None"
          BY <2>1, <5>1, <5>2, StepCallIs
        <5> QED
          BY <2>1, <3>2, <3>4, <4>3, <5>3 DEF Mark
      <4> QED
        BY <3>1, <4>1, <4>2, <4>3
    <3> QED
      BY <3>5, <3>6 DEF StepsMarked
  <2> QED
    BY <2>2, <2>3
<1> QED
  BY <1>1, <1>2, <1>3, RowsProgress

LEMMA AfterVerdictKept ==
  ASSUME "responseLost" \notin Faults, ~DatabaseFails, Inv, Awaited, Told,
         CallsInOrder, AfterVerdict, [Next]_vars
  PROVE  AfterVerdict'
<1>0. stepCalls \in 0..8 /\ stepCalls' \in 0..8
  BY StepKeepsInv DEF Inv, TypeOK, AdjudicationTypeOK, LastStepCall
<1>1. ASSUME stepCalls > 0
      PROVE  /\ aggregate' = aggregate
             /\ Known' => verdict' # None /\ status' = FinalStatus(aggregate.outcome)
  <2>1. ~Undecided /\ phase # "Idle"
    BY <1>1, SettlementIsDecided
  <2>2. aggregate' = aggregate
    BY <2>1, DecidedStands
  <2>3. CASE Create
    BY <2>1, <2>3 DEF Create, Inv, Flow
  <2>4. CASE UNCHANGED callbackVars
    <3>1. status' = status /\ verdict' = verdict /\ Known' = Known
      BY <2>4 DEF callbackVars, Known
    <3>2. Known => verdict # None /\ status = FinalStatus(aggregate.outcome)
      BY <1>1 DEF AfterVerdict
    <3> QED
      BY <2>2, <3>1, <3>2
  <2>5. ASSUME NEW c \in Calls, Handle(c), Known'
        PROVE  verdict' # None /\ status' = FinalStatus(aggregate.outcome)
    <3>1. Known
      <4>1. Flow /\ Flow' /\ trigger' = trigger /\ setting' = setting
        BY <2>5, HandlerKeepsInv, HandlerEffect DEF Inv
      <4> QED
        BY <2>5, <4>1 DEF Flow, Known
    <3>2. verdict # None /\ status = FinalStatus(aggregate.outcome)
      BY <1>1, <3>1 DEF AfterVerdict
    <3>3. CASE c \in VoteUpdates
      <4>1. request[c] \in {"None"} \cup Over
        BY <2>1, <3>3, NoLateVote
      <4> QED
        BY <2>5, <4>1, HandlerEffect DEF Over, InHandler
    <3>4. CASE c = Verdict
      <4>1. [aggregate EXCEPT !.outcome = StoredOutcome(@)] # None
        BY <2>1, AskedToStore, StoredIsVerdict, CallbackAssumption
      <4> QED
        BY <2>5, <3>1, <3>2, <3>4, <4>1, VerdictHandled
    <3>5. CASE c \in StepUpdates
      BY <2>5, <3>2, <3>5, StepHandled
    <3> QED
      BY <3>3, <3>4, <3>5 DEF Calls
  <2> QED
    BY <2>2, <2>3, <2>4, <2>5, RowsProgress
<1>2. ASSUME VerdictSubmitted, stepCalls' > 0
      PROVE  /\ aggregate' = aggregate /\ aggregate.outcome # "FAILED"
             /\ Known' => verdict' # None /\ status' = FinalStatus(aggregate.outcome)
  <2>1. aggregate' = aggregate /\ aggregate.outcome # "FAILED"
    <3>1. stepCalls' = IF Settles THEN 1 ELSE 0
      BY <1>2, SubmittedEffect
    <3>2. Settles
      BY <1>2, <3>1
    <3> QED
      BY <1>2, <3>2 DEF VerdictSubmitted, Settles
  <2>2. status' = status /\ verdict' = verdict /\ Known' = Known
    <3>1. phase' # phase
      BY <1>2 DEF VerdictSubmitted
    <3> QED
      BY <3>1, RowsProgress, HandlerEffect DEF callbackVars, Known
  <2>3. CASE setting.keeper
    <3>1. phase = "Verdict"
      BY <1>2 DEF VerdictSubmitted
    <3>2. ruling # None
      BY <2>3, <3>1 DEF Inv, Ruled
    <3>3. ~Known
      BY <3>2 DEF Inv, Ruled, Flow
    <3> QED
      BY <2>1, <2>2, <3>3
  <2>4. CASE ~setting.keeper
    <3>1. request[Verdict] = "Handled"
      BY <1>2, <2>4 DEF VerdictSubmitted, Returns
    <3>2. Known => verdict # None /\ status = FinalStatus(aggregate.outcome)
      BY <3>1 DEF Told
    <3> QED
      BY <2>1, <2>2, <3>2
  <2> QED
    BY <2>1, <2>3, <2>4
<1>3. stepCalls' > 0 =>
        /\ aggregate' = aggregate /\ aggregate.outcome # "FAILED"
        /\ Known' => verdict' # None /\ status' = FinalStatus(aggregate.outcome)
  <2>1. CASE stepCalls > 0
    BY <1>1, <2>1 DEF AfterVerdict
  <2>2. CASE stepCalls = 0 /\ stepCalls' > 0
    BY <1>0, <1>2, <2>2, NextStepEffect, SettlementProgress
  <2> QED
    BY <1>0, <2>1, <2>2
<1>4. ASSUME stepCalls = 8, request[StepCall(8)] = "Handled"
      PROVE  stepCalls' = 8 /\ request'[StepCall(8)] = "Handled"
  <2>1. CASE VerdictSubmitted
    BY <1>4, <2>1, SubmittedEffect
  <2>2. CASE NextStepCall
    BY <1>4, <2>2, NextStepEffect
  <2>3. CASE StepFails
    BY <1>4, <2>3, StepFailsEffect
  <2>4. ASSUME NEW c \in Calls, Handle(c)
        PROVE  stepCalls' = 8 /\ request'[StepCall(8)] = "Handled"
    BY <1>4, <2>4, HandlerEffect, StepCallIs DEF InHandler
  <2>5. CASE /\ ~VerdictSubmitted /\ ~NextStepCall /\ ~StepFails
             /\ \A c \in Calls : ~Handle(c)
    BY <1>4, <2>5, OtherStepCalls, SettlementProgress, StepCallIs
  <2> QED
    BY <2>1, <2>2, <2>3, <2>4, <2>5
<1>5. phase' = "Reputation" =>
        stepCalls' = 8 /\ request'[StepCall(8)] = "Handled"
  <2>1. CASE NextStepCall /\ phase' = "Reputation"
    BY <2>1, NextStepEffect
  <2>2. CASE phase = "Reputation"
    BY <1>4, <2>2 DEF AfterVerdict
  <2> QED
    BY <2>1, <2>2, SettlementProgress
<1>6. ASSUME NEW party \in Parties, reputation'[party] # None
      PROVE  /\ stepCalls' = 8 /\ request'[StepCall(8)] = "Handled"
             /\ aggregate'.outcome # "ABSTAIN"
             /\ reputation'[party] = ReputationOutcome(party)'
  <2>1. CASE reputation[party] # None /\ reputation'[party] = reputation[party]
    <3>1. stepCalls = 8 /\ request[StepCall(8)] = "Handled"
      BY <2>1 DEF AfterVerdict
    <3>2. aggregate' = aggregate
      BY <1>1, <3>1
    <3> QED
      BY <1>4, <2>1, <3>1, <3>2 DEF AfterVerdict, ReputationOutcome
  <2>2. CASE WriteReputations /\ reputation'[party] # reputation[party]
    <3>1. /\ phase = "Reputation" /\ aggregate' = aggregate
          /\ aggregate.outcome # "ABSTAIN"
          /\ reputation'[party] = ReputationOutcome(party)
      BY <2>2 DEF WriteReputations
    <3>2. stepCalls = 8 /\ request[StepCall(8)] = "Handled"
      BY <3>1 DEF AfterVerdict
    <3> QED
      BY <1>4, <3>1, <3>2 DEF ReputationOutcome
  <2> QED
    BY <1>6, <2>1, <2>2, SettlementProgress
<1> QED
  BY <1>3, <1>5, <1>6 DEF AfterVerdict

LEMMA SettlementIsInductive ==
  ASSUME Without({"responseLost", "database"})
  PROVE  /\ Init => SettlementInv
         /\ SettlementInv /\ [Next]_vars => SettlementInv'
<1>1. ASSUME Init PROVE CallsInOrder /\ StepsMarked /\ AfterVerdict
  BY <1>1, StepCallIs
     DEF Init, AdjudicationInit, NoRows, CallsInOrder, StepsMarked, Mark,
         AfterVerdict, Known
<1>2. ASSUME ToldInv, CallsInOrder, StepsMarked, AfterVerdict, [Next]_vars
      PROVE  CallsInOrder' /\ StepsMarked' /\ AfterVerdict'
  <2>1. ~DatabaseFails /\ "responseLost" \notin Faults
    BY <1>2 DEF Without, DatabaseFails, Faults, ToldInv, AwaitedInv, Inv,
                TypeOK, AdjudicationTypeOK
  <2>2. Inv /\ Awaited /\ Told
    BY <1>2 DEF ToldInv, AwaitedInv
  <2> QED
    BY <1>2, <2>1, <2>2, CallsInOrderKept, StepsMarkedKept, AfterVerdictKept
<1> QED
  BY <1>1, <1>2, ToldIsInductive DEF SettlementInv

LEMMA SettlementInvariance ==
  ASSUME Without({"responseLost", "database"}) PROVE Spec => []SettlementInv
BY SettlementIsInductive, PTL DEF Spec

(* What the rows show of the settlement once a step was marked: the dispute*)
(* was decided with at least one vote, and the mark says how far it got.   *)
LEMMA SettledRows ==
  ASSUME SettlementInv, stepCalls > 0, Known
  PROVE  /\ aggregate.outcome \in VoteChoices
         /\ verdict # None /\ verdict.outcome = aggregate.outcome
         /\ status = FinalStatus(aggregate.outcome)
         /\ \E p \in Panel : verdicts[p].status = "VOTED"
<1> USE DEF SettlementInv, ToldInv, AwaitedInv
<1>1. /\ Decided /\ verdicts \in [Panel -> PanelistVerdicts]
      /\ aggregate \in Results
  BY SettlementIsDecided, AskedToStore
<1>2. /\ aggregate.outcome # "FAILED"
      /\ verdict # None /\ status = FinalStatus(aggregate.outcome)
  BY DEF AfterVerdict
<1>3. aggregate.outcome \in VoteChoices
  BY <1>1, <1>2 DEF Results, Result, Outcomes
<1>4. verdict.outcome = aggregate.outcome
  <2>1. verdict = [aggregate EXCEPT !.outcome = StoredOutcome(@)]
    BY <1>2 DEF Inv, Stored
  <2>2. PICK o \in Outcomes, f \in 0..3, a \in 0..3 :
          aggregate = Result(o, f, a)
    BY <1>1 DEF Results
  <2> QED
    BY <1>2, <2>1, <2>2 DEF Result, StoredOutcome
<1>5. \E p \in Panel : verdicts[p].status = "VOTED"
  <2>1. Aggregate(verdicts).outcome # "FAILED"
    BY <1>1, <1>2 DEF Decided
  <2>2. PICK p \in Panel : verdicts[p] # FailedPanelist
    BY <1>1, <2>1, AdjudicationAssumption, FailedOnlyWithoutVotes
  <2> QED
    BY <1>1, <2>2 DEF PanelistVerdicts, Voted
<1> QED
  BY <1>2, <1>3, <1>4, <1>5

(* Settlement steps complete in their order, only for a dispute whose      *)
(* verdict and final status are stored, and never when nobody voted.       *)
THEOREM SettlementIsEarned ==
  ASSUME Without({"responseLost", "database"})
  PROVE  Spec => []SettlementFollowsVerdict
<1>1. ASSUME SettlementInv, NEW k \in 1..4, steps[k] # "PENDING"
      PROVE  /\ k > 1 => steps[k - 1] = "COMPLETED"
             /\ verdict # None /\ status = FinalStatus(verdict.outcome)
             /\ \E p \in Panel : verdicts[p].status = "VOTED"
  <2>0. stepCalls \in 0..8
    BY <1>1 DEF SettlementInv, ToldInv, AwaitedInv, Inv, TypeOK,
                AdjudicationTypeOK, LastStepCall
  <2>1. /\ Known /\ 2 * k \in 1..8 /\ 2 * k - 1 \in 1..8
        /\ \/ request[StepCall(2 * k)] = "Handled"
           \/ request[StepCall(2 * k - 1)] = "Handled"
    BY <1>1, StepUpdateIs DEF SettlementInv, StepsMarked, Mark
  <2>2. stepCalls >= 2 * k - 1
    BY <1>1, <2>0, <2>1 DEF SettlementInv, CallsInOrder
  <2>3. ASSUME k > 1
        PROVE  steps[k - 1] = "COMPLETED"
    <3>1. /\ k - 1 \in 1..4 /\ 2 * (k - 1) \in 1..8
          /\ 2 * (k - 1) < stepCalls
      BY <2>0, <2>2, <2>3
    <3>2. request[StepCall(2 * (k - 1))] = "Handled"
      BY <1>1, <3>1 DEF SettlementInv, CallsInOrder
    <3> QED
      BY <1>1, <2>1, <3>1, <3>2 DEF SettlementInv, StepsMarked, Mark
  <2>4. stepCalls > 0
    BY <2>0, <2>2
  <2> QED
    BY <1>1, <2>1, <2>3, <2>4, SettledRows
<1>2. SettlementInv => SettlementFollowsVerdict
  BY <1>1 DEF SettlementFollowsVerdict
<1> QED
  BY <1>2, SettlementInvariance, PTL

(* Reputations are written for a settlement the rows show as complete, and *)
(* say of either side what the status of the dispute says.                 *)
THEOREM ReputationIsSettled ==
  ASSUME Without({"responseLost", "database"})
  PROVE  Spec => []ReputationFollowsSettlement
<1>1. ASSUME SettlementInv, NEW party \in Parties, Known,
             reputation[party] # None
      PROVE  /\ \A k \in 1..4 : steps[k] = "COMPLETED"
             /\ verdict.outcome # "ABSTAIN"
             /\ (reputation[party] = "won")
                  = ((status = "SETTLED") = (party = "claimant"))
  <2>1. /\ stepCalls = 8 /\ request[StepCall(8)] = "Handled"
        /\ aggregate.outcome # "ABSTAIN"
        /\ reputation[party] = ReputationOutcome(party)
    BY <1>1 DEF SettlementInv, AfterVerdict
  <2>2. ASSUME NEW k \in 1..4
        PROVE  steps[k] = "COMPLETED"
    <3>1. request[StepCall(2 * k)] = "Handled"
      <4>1. 2 * k \in 1..8 /\ (2 * k < 8 \/ 2 * k = 8)
        OBVIOUS
      <4> QED
        BY <1>1, <2>1, <4>1 DEF SettlementInv, CallsInOrder
    <3> QED
      BY <1>1, <3>1 DEF SettlementInv, StepsMarked, Mark
  <2>3. /\ verdict.outcome = aggregate.outcome
        /\ status = FinalStatus(aggregate.outcome)
    BY <1>1, <2>1, SettledRows
  <2>4. (reputation[party] = "won")
          = ((status = "SETTLED") = (party = "claimant"))
    BY <2>1, <2>3 DEF ReputationOutcome, FinalStatus
  <2> QED
    BY <2>1, <2>2, <2>3, <2>4
<1>2. SettlementInv => ReputationFollowsSettlement
  BY <1>1 DEF ReputationFollowsSettlement
<1> QED
  BY <1>2, SettlementInvariance, PTL
============================================================================
