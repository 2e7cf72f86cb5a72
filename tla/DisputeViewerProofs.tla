------------------------ MODULE DisputeViewerProofs ------------------------
(***************************************************************************)
(* What a browser is shown of a dispute, filed through the form or seeded, *)
(* for every panel, every evidence and whatever fails between the browser  *)
(* and apps/api.                                                           *)
(***************************************************************************)
EXTENDS DisputeViewer, DisputeSettlementProofs

-----------------------------------------------------------------------------
(* The dispute does not know its viewers: a step of the whole is a step of *)
(* the dispute, or none.                                                   *)
LEMMA ViewerStep ==
  ASSUME [ViewerNext]_viewerVars
  PROVE  [Next]_vars
<1>1. CASE Filing
  BY <1>1
     DEF Filing, AddSampleEvidence, RemoveEvidence, SubmitForm, Creation,
         CreationFails, Created, Pushed, Visit, Next, File
<1>2. CASE Navigate
  BY <1>2 DEF Navigate, Open, Load, Leave, RouteOn, Redirect, Browse, Visit
<1>3. CASE Browser
  BY <1>3 DEF Browser, Fetched, FetchFails, OnChange, OnFinal
<1>4. CASE Reads
  BY <1>4 DEF Reads
<1>5. CASE Panelists
  BY <1>5 DEF Panelists, Next
<1>6. ASSUME NEW c \in Calls, HandleAndRelay(c)
      PROVE  Next
  BY <1>6 DEF HandleAndRelay, Next, ApiStep
<1>7. CASE GetStats \/ UNCHANGED viewerVars
  BY <1>7 DEF GetStats, viewerVars
<1> QED
  BY <1>1, <1>2, <1>3, <1>4, <1>5, <1>6, <1>7 DEF ViewerNext

(* A dispute of the seed is there, and nobody adjudicates it.              *)
Frozen ==
  /\ TypeOK
  /\ trigger = "Lost" /\ phase = "Idle"
  /\ \A c \in Calls : request[c] = "None"
  /\ \E rows \in SeededRows :
       /\ status = rows.status /\ votes = rows.votes
       /\ verdict = rows.verdict /\ steps = rows.steps

LEMMA SeededVerdictType ==
  ASSUME NEW fixture \in SettledFixtures
  PROVE  SeededVerdict(fixture) \in StoredVerdicts
<1>1. ASSUME NEW choice \in VoteChoices
      PROVE  Counted(fixture, choice) \in 0..3
  <2> DEFINE having == {model \in Rows : fixture.votes[model] = choice}
  <2>1. having \in SUBSET Rows
    OBVIOUS
  <2>2. IsFiniteSet(having) /\ Cardinality(having) <= Cardinality(Rows)
    BY <2>1, RowsAssumption, FS_Subset
  <2> QED
    BY <2>2, RowsAssumption, FS_CardinalityType DEF Counted
<1>2. /\ fixture.outcome \in VoteChoices
      /\ Opposite(fixture.outcome) \in VoteChoices
  BY DEF SettledFixtures, Opposite, VoteChoices
<1> QED
  BY <1>1, <1>2 DEF SeededVerdict, StoredVerdicts

LEMMA SeededTypes ==
  ASSUME NEW rows \in SeededRows
  PROVE  /\ rows.status \in DisputeStatuses
         /\ rows.votes \in [Rows -> PanelVotes]
         /\ rows.verdict \in StoredVerdicts \cup {None}
         /\ rows.steps \in [1..4 -> StepStatuses]
<1>1. ASSUME NEW fixture \in SettledFixtures, rows = SeedSettled(fixture)
      PROVE  /\ rows.status \in DisputeStatuses
             /\ rows.votes \in [Rows -> PanelVotes]
             /\ rows.verdict \in StoredVerdicts
             /\ rows.steps \in [1..4 -> StepStatuses]
  <2>1. /\ fixture.status \in Terminal
        /\ \A model \in Rows : fixture.votes[model] \in VoteChoices
    BY DEF SettledFixtures, Unanimous, Terminal, VoteChoices
  <2>2. \A choice \in VoteChoices : Voted(choice) \in PanelVotes
    BY DEF Voted, PanelVotes, VoteStatuses
  <2> QED
    BY <1>1, <2>1, <2>2, SeededVerdictType
       DEF SeedSettled, DisputeStatuses, StepStatuses
<1>2. ASSUME NEW last \in Rows, rows = SeedActive(last)
      PROVE  /\ rows.status \in DisputeStatuses
             /\ rows.votes \in [Rows -> PanelVotes]
             /\ rows.verdict = None
             /\ rows.steps \in [1..4 -> StepStatuses]
  <2>1. /\ [PendingVote EXCEPT !.status = "REASONING"] \in PanelVotes
        /\ Voted("REFUND") \in PanelVotes
    BY DEF PendingVote, PanelVotes, VoteStatuses, VoteChoices, Voted
  <2> QED
    BY <1>2, <2>1 DEF SeedActive, DisputeStatuses, StepStatuses
<1> QED
  BY <1>1, <1>2 DEF SeededRows

LEMMA SeededIsFrozen == SeededInit => Frozen
<1> SUFFICES ASSUME SeededInit PROVE Frozen
  OBVIOUS
<1>1. AdjudicationTypeOK
  BY DEF SeededInit, AdjudicationInit, AdjudicationTypeOK, RequestStates,
         MemberStates, LastStepCall
<1>2. PICK rows \in SeededRows :
        /\ status = rows.status /\ votes = rows.votes
        /\ verdict = rows.verdict /\ steps = rows.steps
  BY ViewerAssumption DEF SeededInit
<1>3. CallbackTypeOK
  BY <1>2, SeededTypes DEF SeededInit, CallbackTypeOK
<1> QED
  BY <1>1, <1>2, <1>3
     DEF SeededInit, AdjudicationInit, Frozen, TypeOK, Triggers

LEMMA FrozenStays ==
  ASSUME Frozen, [Next]_vars
  PROVE  UNCHANGED vars
<1>1. ASSUME NEW c \in Calls PROVE ~Handle(c)
  BY CallKinds DEF Frozen, Handle, HandleVote, UpdateVote, VoteNotUpdated,
       SetAdjudicating, AnnounceAdjudicating, HandleVerdict, UpsertVerdict,
       SetFinalStatus, AnnounceFinal, UpdateStep
<1> QED
  BY <1>1
     DEF Frozen, Next, File, Create, RaisedOnChain, Trigger, Accept,
         TriggerLost, Start, PanelStep, Adjudicating, Panelist, RunPanelist,
         Answer, FailOrTimeout, Conclude, Report, Decide, AggregateVotes,
         PersistVerdictBundle, BundleNotStored, Submit, CreateKeeperRun,
         KeeperFails, VerdictSubmitted, SubmitFails, Settle, NextStepCall,
         StepFails, WriteReputations, PanelCrash, Crash, Active, ApiStep,
         Stopped

-----------------------------------------------------------------------------
(* The types of what the browser keeps.                                    *)
FetchBodies == DisputeStatuses \cup Shown \cup {None}

BrowserTyped ==
  /\ attached \in [Files -> AttachStates]
  /\ bundle \in (SUBSET Files) \cup {None}
  /\ fetch \in [at : {"Idle", "Sent", "RowRead", "Answered"},
                body : FetchBodies, error : BOOLEAN]
  /\ fetch.at = "RowRead" => fetch.body \in DisputeStatuses
  /\ fetch.at = "Answered" => fetch.body \in Shown
  /\ stream \in {"Closed", "Connecting", "Open"}
  /\ inbox \in [changes : BOOLEAN, final : BOOLEAN]
  /\ page \in Pages /\ filing \in FilingStates
  /\ draft \subseteq [id : Nat \ {0}, file : Files] /\ IsFiniteSet(draft)
  /\ cache \in Shown \cup {None}

(* What StatsService keeps counts the dispute as decided only when it is,  *)
(* and then as it is.                                                      *)
NoneDecided(answer) ==
  answer.active = answer.total /\ answer.settled = 0 /\ answer.refunded = {}

StatsBehind ==
  stats # None =>
    NoneDecided(stats) \/ (status \in Terminal /\ stats = Stats(Ledger))

ViewerTyped ==
  (Inv \/ Frozen) /\ BrowserTyped /\ stats \in StatsAnswers \cup {None}

LEMMA StatsOfLedger ==
  ASSUME TypeOK
  PROVE  /\ Stats(Ledger) \in StatsAnswers
         /\ status \notin Terminal => NoneDecided(Stats(Ledger))
<1> DEFINE counted == IF Known THEN {"this"} ELSE {}
           having(statuses) == {d \in counted : status \in statuses}
<1>1. /\ DOMAIN Ledger = counted
      /\ \A d \in counted : Ledger[d] = Summary(Row, verdict)
  BY DEF Ledger, List
<1>2. Summary(Row, verdict).status = status
  BY DEF Summary, Row
<1>3. ASSUME NEW statuses
      PROVE  {d \in DOMAIN Ledger : Ledger[d].status \in statuses}
               = having(statuses)
  BY <1>1, <1>2
<1>4. \A set \in SUBSET {"this"} :
        /\ Cardinality(set) \in 0..1
        /\ set = {} => Cardinality(set) = 0
  <2>1. IsFiniteSet({"this"}) /\ Cardinality({"this"}) = 1
        /\ Cardinality({}) = 0
    BY FS_EmptySet, FS_Singleton
  <2>2. ASSUME NEW set \in SUBSET {"this"}
        PROVE  Cardinality(set) \in 0..1
    <3>1. IsFiniteSet(set) /\ Cardinality(set) <= 1
      BY <2>1, FS_Subset
    <3>2. Cardinality(set) \in Nat
      BY <3>1, FS_CardinalityType
    <3> QED
      BY <3>1, <3>2
  <2> QED
    BY <2>1, <2>2
<1>5. /\ Stats(Ledger).total = Cardinality(counted)
      /\ Stats(Ledger).active = Cardinality(having({"PENDING", "ADJUDICATING"}))
      /\ Stats(Ledger).settled = Cardinality(having({"SETTLED"}))
      /\ Stats(Ledger).refunded \in SUBSET having({"SETTLED"})
      /\ Stats(Ledger)
           = [total |-> Stats(Ledger).total, active |-> Stats(Ledger).active,
              settled |-> Stats(Ledger).settled,
              refunded |-> Stats(Ledger).refunded]
  BY <1>1, <1>3 DEF Stats
<1>6. /\ counted \in SUBSET {"this"}
      /\ \A statuses : having(statuses) \in SUBSET counted
  OBVIOUS
<1>7. Stats(Ledger) \in StatsAnswers
  BY <1>4, <1>5, <1>6 DEF StatsAnswers
<1>8. ASSUME status \notin Terminal
      PROVE  NoneDecided(Stats(Ledger))
  <2>1. /\ having({"SETTLED"}) = {}
        /\ having({"PENDING", "ADJUDICATING"}) = counted
    BY <1>8 DEF Known, TypeOK, CallbackTypeOK, DisputeStatuses, Terminal
  <2> QED
    BY <1>4, <1>5, <2>1 DEF NoneDecided
<1> QED
  BY <1>7, <1>8

LEMMA FetchTypes ==
  /\ NoFetch \in [at : {"Idle"}, body : FetchBodies, error : {FALSE}]
  /\ \A data : fetch.error \in BOOLEAN =>
       /\ Started(data) \in [at : {"Sent"}, body : FetchBodies, error : BOOLEAN]
       /\ Resting(data) \in [at : {"Idle"}, body : FetchBodies, error : BOOLEAN]
  /\ [NoFetch EXCEPT !.error = TRUE]
       \in [at : {"Idle"}, body : FetchBodies, error : {TRUE}]
  /\ NoEvents \in [changes : BOOLEAN, final : BOOLEAN]
BY DEF NoFetch, Started, Resting, Error, FetchBodies, NoEvents

LEMMA NowIsShown ==
  ASSUME TypeOK, NEW row \in DisputeStatuses
  PROVE  Serialized(row, votes, verdict, steps, Evidence) \in Shown
BY DEF TypeOK, CallbackTypeOK, Serialized, Shown, Evidence

LEMMA FreshIsShown == FreshDispute \in Shown
<1>1. PendingVote \in PanelVotes
  BY DEF PendingVote, PanelVotes, VoteStatuses, VoteChoices
<1> QED
  BY <1>1 DEF FreshDispute, Serialized, Shown, DisputeStatuses, StepStatuses

LEMMA VisitTyped ==
  ASSUME BrowserTyped, NEW next \in Pages, NEW data \in {cache, None},
         Visit(next, data), draft' = draft, bundle' = bundle,
         filing' \in FilingStates, attached' \in [Files -> AttachStates]
  PROVE  BrowserTyped'
<1>1. /\ fetch' \in [at : {"Idle", "Sent"}, body : FetchBodies,
                     error : BOOLEAN]
      /\ inbox' \in [changes : BOOLEAN, final : BOOLEAN]
      /\ stream' \in {"Closed", "Connecting"}
  BY FetchTypes DEF Visit, BrowserTyped
<1> QED
  BY <1>1 DEF Visit, BrowserTyped

LEMMA FilingKeepsTypes ==
  ASSUME BrowserTyped, Filing
  PROVE  BrowserTyped'
<1>1. CASE AddSampleEvidence
  <2>1. PICK i \in DOMAIN Templates :
          draft' = draft \cup {Item(Cardinality(draft) + 1, Templates[i])}
    BY <1>1 DEF AddSampleEvidence
  <2>2. Cardinality(draft) \in Nat
    BY FS_CardinalityType DEF BrowserTyped
  <2>3. Templates[i] \in Files
    BY ViewerAssumption
  <2>4. IsFiniteSet(draft')
    BY <2>1, FS_AddElement DEF BrowserTyped
  <2>5. draft' \subseteq [id : Nat \ {0}, file : Files]
    BY <2>1, <2>2, <2>3 DEF Item, BrowserTyped
  <2> QED
    BY <1>1, <2>4, <2>5 DEF AddSampleEvidence, BrowserTyped, readVars
<1>2. ASSUME NEW item \in draft, RemoveEvidence(item.id)
      PROVE  BrowserTyped'
  <2>1. draft' \in SUBSET draft
    BY <1>2 DEF RemoveEvidence
  <2>2. IsFiniteSet(draft')
    BY <2>1, FS_Subset DEF BrowserTyped
  <2> QED
    BY <1>2, <2>1, <2>2 DEF RemoveEvidence, BrowserTyped, readVars
<1>3. CASE SubmitForm
  BY <1>3 DEF SubmitForm, BrowserTyped, FilingStates, AttachStates
<1>4. CASE Creation
  BY <1>4 DEF Creation, BrowserTyped, readVars, browserVars
<1>5. CASE CreationFails
  BY <1>5 DEF CreationFails, BrowserTyped, FilingStates, readVars
<1>6. CASE Created
  <2>1. IsFiniteSet({})
    BY FS_EmptySet
  <2> QED
    BY <1>6, <2>1, FreshIsShown
       DEF Created, BrowserTyped, FilingStates, AttachStates
<1>7. CASE Pushed
  <2>1. attached' \in [Files -> AttachStates]
    BY <1>7 DEF Pushed, BrowserTyped, AttachStates
  <2>2. "live" \in Pages /\ "Filed" \in FilingStates
    BY DEF Pages, DetailPages, FilingStates
  <2> QED
    BY <1>7, <2>1, <2>2, VisitTyped DEF Pushed
<1> QED
  BY <1>1, <1>2, <1>3, <1>4, <1>5, <1>6, <1>7 DEF Filing

LEMMA NavigateKeepsTypes ==
  ASSUME BrowserTyped, Navigate
  PROVE  BrowserTyped'
<1>1. PICK next \in Pages, data \in {cache, None} : Browse(next, data)
  BY DEF Navigate, Open, Load, Leave, RouteOn, Redirect, Pages, DetailPages
<1> QED
  BY <1>1, VisitTyped DEF Browse, BrowserTyped

LEMMA BrowserKeepsTypes ==
  ASSUME BrowserTyped, Browser
  PROVE  BrowserTyped'
<1>1. Invalidated = fetch \/ Invalidated = Started(cache)
  BY DEF Invalidated
<1>2. CASE Fetched
  BY <1>2, FetchTypes DEF Fetched, BrowserTyped
<1>3. CASE FetchFails
  BY <1>3, FetchTypes DEF FetchFails, BrowserTyped, browserVars
<1>4. ASSUME NEW more \in BOOLEAN, OnChange(more)
      PROVE  BrowserTyped'
  BY <1>1, <1>4, FetchTypes DEF OnChange, BrowserTyped, browserVars
<1>5. CASE OnFinal
  BY <1>1, <1>5, FetchTypes DEF OnFinal, BrowserTyped, browserVars
<1> QED
  BY <1>2, <1>3, <1>4, <1>5 DEF Browser

LEMMA ReadsKeepTypes ==
  ASSUME TypeOK, BrowserTyped, Reads
  PROVE  BrowserTyped'
<1>1. CASE ReadBundle
  BY <1>1 DEF Reads, ReadBundle, Evidence, BrowserTyped, browserVars
<1>2. CASE ReadRow
  <2>1. status \in DisputeStatuses
    BY <1>2 DEF ReadRow, Known, TypeOK, CallbackTypeOK
  <2> QED
    BY <1>2, <2>1 DEF Reads, ReadRow, BrowserTyped, FetchBodies, browserVars
<1>3. CASE ReadRelations
  <2> DEFINE answer == Serialized(fetch.body, votes, verdict, steps, Evidence)
  <2>1. answer \in Shown
    BY <1>3, NowIsShown DEF ReadRelations, BrowserTyped
  <2>2. fetch' = [fetch EXCEPT !.at = "Answered", !.body = answer]
    BY <1>3 DEF ReadRelations
  <2> HIDE DEF answer
  <2> QED
    BY <1>3, <2>1, <2>2
       DEF Reads, ReadRelations, BrowserTyped, FetchBodies, browserVars
<1>4. CASE Subscribe
  BY <1>4 DEF Reads, Subscribe, BrowserTyped, browserVars
<1>5. CASE StreamDrops
  BY <1>5, FetchTypes DEF Reads, StreamDrops, BrowserTyped, browserVars
<1>6. ASSUME NEW file \in Files, Submitted(file) \/ NotSubmitted(file)
      PROVE  BrowserTyped'
  BY <1>6
     DEF Reads, Submitted, NotSubmitted, BrowserTyped, AttachStates, browserVars
<1> QED
  BY <1>1, <1>2, <1>3, <1>4, <1>5, <1>6 DEF Reads

LEMMA BrowserStaysTyped ==
  ASSUME TypeOK, BrowserTyped, [ViewerNext]_viewerVars
  PROVE  BrowserTyped'
<1>1. CASE Panelists
  BY <1>1 DEF Panelists, BrowserTyped, readVars, browserVars
<1>2. ASSUME NEW c \in Calls, HandleAndRelay(c)
      PROVE  BrowserTyped'
  <2>1. inbox' \in [changes : BOOLEAN, final : BOOLEAN]
    BY <1>2 DEF HandleAndRelay, Relay, BrowserTyped
  <2> QED
    BY <1>2, <2>1 DEF HandleAndRelay, Relay, BrowserTyped, browserVars
<1>3. CASE GetStats \/ UNCHANGED viewerVars
  BY <1>3 DEF GetStats, viewerVars, readVars, browserVars, BrowserTyped
<1>4. CASE Reads
  BY <1>4, ReadsKeepTypes
<1> QED
  BY <1>1, <1>2, <1>3, <1>4, FilingKeepsTypes, NavigateKeepsTypes,
     BrowserKeepsTypes DEF ViewerNext

LEMMA ViewerInitTyped == ViewerInit => ViewerTyped
<1> SUFFICES ASSUME ViewerInit PROVE ViewerTyped
  OBVIOUS
<1>1. Inv \/ Frozen
  BY InvInit, SeededIsFrozen DEF ViewerInit, FormInit
<1>2. draft \subseteq [id : Nat \ {0}, file : Files] /\ IsFiniteSet(draft)
  <2>1. CASE draft = {}
    BY <2>1, FS_EmptySet
  <2>2. CASE draft = {Item(i, Prefilled[i]) : i \in DOMAIN Prefilled}
    <3> DEFINE item == [i \in DOMAIN Prefilled |-> Item(i, Prefilled[i])]
    <3>1. /\ Prefilled \in Seq(Files) /\ Len(Prefilled) \in Nat
          /\ DOMAIN Prefilled = 1..Len(Prefilled)
      BY ViewerAssumption
    <3>2. IsFiniteSet(DOMAIN Prefilled)
      BY <3>1, FS_Interval
    <3>3. item \in Surjection(DOMAIN Prefilled, draft)
      BY <2>2 DEF Surjection
    <3>4. IsFiniteSet(draft)
      BY <3>2, <3>3, FS_Surjection
    <3>5. draft \subseteq [id : Nat \ {0}, file : Files]
      BY <2>2, <3>1 DEF Item
    <3> QED
      BY <3>4, <3>5
  <2> QED
    BY <2>1, <2>2 DEF ViewerInit, FormInit, SeededInit
<1>3. BrowserTyped
  BY <1>2, FetchTypes
     DEF ViewerInit, FormInit, SeededInit, BrowserTyped, AttachStates, Pages,
         FilingStates
<1> QED
  BY <1>1, <1>3 DEF ViewerTyped, ViewerInit

LEMMA ViewerStaysTyped ==
  ASSUME ViewerTyped, [ViewerNext]_viewerVars
  PROVE  ViewerTyped'
<1>1. TypeOK
  BY DEF ViewerTyped, Inv, Frozen
<1>2. Inv' \/ Frozen'
  <2>1. CASE Inv
    BY <2>1, ViewerStep, StepKeepsInv
  <2>2. CASE Frozen
    BY <2>2, ViewerStep, FrozenStays
       DEF Frozen, vars, adjudicationVars, callbackVars, TypeOK,
           AdjudicationTypeOK, CallbackTypeOK
  <2> QED
    BY <2>1, <2>2 DEF ViewerTyped
<1>3. stats' = stats \/ stats' = Stats(Ledger)
  BY DEF ViewerNext, viewerVars, GetStats
<1> QED
  BY <1>1, <1>2, <1>3, BrowserStaysTyped, StatsOfLedger DEF ViewerTyped

(* The browser never holds anything but a dispute as apps/api serves it,   *)
(* be it mixed from two moments.                                           *)
THEOREM ViewerTypeCorrect == ViewerSpec => []ViewerTypeOK
<1>1. ViewerTyped => ViewerTypeOK
  BY DEF ViewerTyped, BrowserTyped, ViewerTypeOK, Inv, Frozen
<1> QED
  BY <1>1, ViewerInitTyped, ViewerStaysTyped, PTL DEF ViewerSpec

-----------------------------------------------------------------------------
(* What a viewer may go by.  A row that shows a vote shows it for good: the*)
(* call that wrote it is over, and so is the one before it.                *)
RowsStand ==
  \A p \in Rows : votes[p].status = "VOTED" =>
    /\ p \in Panel /\ verdicts[p] # None
    /\ request[VoteUpdate(p, verdicts[p].status)] = "Handled"

LEMMA AnswerStands ==
  ASSUME Inv, [Next]_vars, NEW p \in Panel, verdicts[p] # None
  PROVE  verdicts'[p] = verdicts[p]
<1>1. \/ verdicts' = verdicts
      \/ \E q \in Panel, v \in PanelistVerdicts : Conclude(q, v)
  <2>1. FailedPanelist \in PanelistVerdicts
        /\ \A choice \in VoteChoices : Voted(choice) \in PanelistVerdicts
    BY DEF PanelistVerdicts
  <2> QED
    BY <2>1, HandlerEffect
       DEF Next, vars, adjudicationVars, File, Create, RaisedOnChain, Trigger,
           Accept, TriggerLost, Start, Convene, NoAvailableModels, PanelStep,
           Adjudicating, Panelist, RunPanelist, Answer, FailOrTimeout, Report,
           Decide, AggregateVotes, PersistVerdictBundle, BundleNotStored,
           Submit, CreateKeeperRun, KeeperFails, VerdictSubmitted,
           SubmitFails, Settle, NextStepCall, StepFails, WriteReputations,
           PanelCrash, Crash, ApiStep, Stopped
<1>2. ASSUME NEW q \in Panel, NEW v \in PanelistVerdicts, Conclude(q, v)
      PROVE  verdicts'[p] = verdicts[p]
  BY <1>2 DEF Conclude, Inv, Concluding, TypeOK, AdjudicationTypeOK
<1> QED
  BY <1>1, <1>2

(* Once a row shows a vote no call is on its way that would change it.     *)
LEMMA NothingBehindTheVote ==
  ASSUME Inv, Awaited, RowsStand, NEW c \in VoteUpdates,
         c.subject \in Rows, votes[c.subject].status = "VOTED"
  PROVE  request[c] # "Sent"
<1> DEFINE p == c.subject
<1>1. /\ p \in Panel /\ verdicts[p] # None
      /\ request[VoteUpdate(p, verdicts[p].status)] = "Handled"
  BY DEF RowsStand
<1>2. /\ c = VoteUpdate(p, c.status)
      /\ c.status \in {"REASONING", "VOTED", "FAILED"}
  BY VoteUpdateIs
<1>3. request[VoteUpdate(p, "REASONING")] \in Over
  BY <1>1 DEF Inv, Concluding, Awaited
<1>4. c.status # "REASONING" /\ request[c] # "None" =>
        c.status = verdicts[p].status
  BY <1>1, <1>2 DEF Inv, Concluding
<1> HIDE DEF p
<1> QED
  BY <1>1, <1>2, <1>3, <1>4 DEF Over

LEMMA VotedStands ==
  ASSUME ~DatabaseFails, Inv, Awaited, RowsStand, [Next]_vars,
         NEW p \in Rows, votes[p].status = "VOTED"
  PROVE  votes'[p] = votes[p]
<1>1. ASSUME NEW c \in VoteUpdates, Handle(c)
      PROVE  votes'[p] = votes[p]
  BY <1>1, VoteHandled, NothingBehindTheVote
     DEF Inv, TypeOK, CallbackTypeOK
<1>2. ASSUME NEW c \in Calls \ VoteUpdates, Handle(c)
      PROVE  votes' = votes
  BY <1>2, VerdictHandled, StepHandled DEF Calls
<1> QED
  BY <1>1, <1>2, RowsProgress DEF callbackVars

LEMMA RowsStandKept ==
  ASSUME ~DatabaseFails, Inv, Awaited, RowsStand, [Next]_vars
  PROVE  RowsStand'
<1> SUFFICES ASSUME NEW p \in Rows, votes'[p].status = "VOTED"
             PROVE  /\ p \in Panel /\ verdicts'[p] # None
                    /\ request'[VoteUpdate(p, verdicts'[p].status)] = "Handled"
  BY DEF RowsStand
<1>0. /\ verdicts \in [Panel -> PanelistVerdicts \cup {None}]
      /\ request \in [Calls -> RequestStates] /\ votes \in [Rows -> PanelVotes]
  BY DEF Inv, TypeOK, AdjudicationTypeOK, CallbackTypeOK
<1>1. CASE votes[p].status = "VOTED"
  <2>1. /\ p \in Panel /\ verdicts[p] # None
        /\ request[VoteUpdate(p, verdicts[p].status)] = "Handled"
    BY <1>1 DEF RowsStand
  <2>2. verdicts[p].status \in {"VOTED", "FAILED"}
    BY <1>0, <2>1 DEF PanelistVerdicts, Voted, FailedPanelist
  <2>3. VoteUpdate(p, verdicts[p].status) \in VoteUpdates
        /\ VoteUpdate(p, verdicts[p].status) \in Calls
    BY <2>1, <2>2, VoteUpdateIs
  <2>4. request'[VoteUpdate(p, verdicts[p].status)] = "Handled"
    BY <2>1, <2>3, CallProgress, HandlerEffect DEF InHandler
  <2> QED
    BY <2>1, <2>4, AnswerStands
<1>2. CASE votes[p].status # "VOTED"
  <2>1. PICK c \in VoteUpdates : Handle(c)
    <3>1. ASSUME NEW c \in Calls \ VoteUpdates, Handle(c)
          PROVE  votes' = votes
      BY <3>1, VerdictHandled, StepHandled DEF Calls
    <3> QED
      BY <1>2, <3>1, RowsProgress DEF callbackVars
  <2>2. c.subject \in Panel /\ c = VoteUpdate(c.subject, c.status)
        /\ c.status \in {"REASONING", "VOTED", "FAILED"} /\ c \in Calls
    BY VoteUpdateIs
  <2>3. /\ request[c] = "Sent" /\ c.subject = p /\ c.status # "REASONING"
        /\ votes'[p] = verdicts[p]
    <3>1. /\ request[c] = "Sent" /\ c.subject \in Rows
          /\ votes' = [votes EXCEPT ![c.subject] =
                         VoteRow(@, c.status, verdicts[c.subject])]
      BY <1>2, <2>1, VoteHandled
    <3>2. c.subject = p /\ votes'[p] = VoteRow(votes[p], c.status, verdicts[p])
      BY <1>0, <1>2, <3>1
    <3>3. c.status # "REASONING"
      BY <1>0, <3>2 DEF VoteRow, PanelVotes
    <3> QED
      BY <3>1, <3>2, <3>3 DEF VoteRow
  <2>4. verdicts[p] # None /\ verdicts[p].status = c.status
    BY <2>2, <2>3 DEF Inv, Concluding
  <2>5. request'[c] = "Handled"
    BY <2>1, <2>3, HandlerKeepsInv, VoteHandled, CallKinds
       DEF Inv, Flow, InHandler
  <2>6. verdicts' = verdicts
    BY <2>1, <2>2, HandlerEffect
  <2> QED
    BY <2>2, <2>3, <2>4, <2>5, <2>6
<1> QED
  BY <1>1, <1>2

(* A row that shows no vote has none to count.                             *)
RowsPlain ==
  \A p \in Rows : votes[p].status # "VOTED" => votes[p].vote = "ABSTAIN"

LEMMA RowsPlainKept ==
  ASSUME ~DatabaseFails, Inv, Awaited, RowsStand, RowsPlain, [Next]_vars
  PROVE  RowsPlain'
<1> SUFFICES ASSUME NEW p \in Rows, votes'[p].status # "VOTED"
             PROVE  votes'[p].vote = "ABSTAIN"
  BY DEF RowsPlain
<1>1. /\ votes \in [Rows -> PanelVotes]
      /\ verdicts \in [Panel -> PanelistVerdicts \cup {None}]
  BY DEF Inv, TypeOK, AdjudicationTypeOK, CallbackTypeOK
<1>2. votes[p].vote = "ABSTAIN"
  BY VotedStands DEF RowsPlain
<1>3. CASE votes'[p] # votes[p]
  <2>1. PICK c \in VoteUpdates : Handle(c)
    <3>1. ASSUME NEW c \in Calls \ VoteUpdates, Handle(c)
          PROVE  votes' = votes
      BY <3>1, VerdictHandled, StepHandled DEF Calls
    <3> QED
      BY <1>3, <3>1, RowsProgress DEF callbackVars
  <2>2. /\ request[c] = "Sent" /\ c.subject = p
        /\ votes'[p] = VoteRow(votes[p], c.status, verdicts[p])
    BY <1>1, <1>3, <2>1, VoteHandled
  <2>3. CASE c.status = "REASONING"
    BY <1>1, <1>2, <2>2, <2>3 DEF VoteRow, PanelVotes
  <2>4. CASE c.status # "REASONING"
    <3>1. c = VoteUpdate(p, c.status) /\ c.status \in {"VOTED", "FAILED"}
          /\ p \in Panel
      BY <2>2, <2>4, VoteUpdateIs
    <3>2. verdicts[p] # None
      BY <2>2, <3>1 DEF Inv, Concluding
    <3>3. votes'[p] \in PanelistVerdicts
      BY <1>1, <2>2, <2>4, <3>1, <3>2 DEF VoteRow
    <3> QED
      BY <3>3 DEF PanelistVerdicts, Voted, FailedPanelist
  <2> QED
    BY <2>3, <2>4
<1> QED
  BY <1>2, <1>3

(* A settlement step never goes back.                                      *)
Rank(step) ==
  CASE step = "COMPLETED" -> 2 [] step = "IN_PROGRESS" -> 1 [] OTHER -> 0

LEMMA StepsAdvance ==
  ASSUME ~DatabaseFails, SettlementInv, [Next]_vars, NEW k \in 1..4
  PROVE  Rank(steps[k]) <= Rank(steps'[k])
<1> USE DEF SettlementInv, ToldInv, AwaitedInv
<1>0. steps \in [1..4 -> StepStatuses] /\ stepCalls \in 0..8
  BY DEF Inv, TypeOK, AdjudicationTypeOK, CallbackTypeOK, LastStepCall
<1>1. CASE steps' = steps
  BY <1>1 DEF Rank
<1>2. ASSUME NEW c \in StepUpdates, Handle(c)
      PROVE  Rank(steps[k]) <= Rank(steps'[k])
  <2>1. PICK j \in 1..4 :
          \/ c = StepCall(2 * j) /\ c.subject = j /\ c.status = "COMPLETED"
          \/ c = StepCall(2 * j - 1) /\ c.subject = j
               /\ c.status = "IN_PROGRESS"
    BY StepUpdateIs
  <2>2. /\ request[c] = "Sent"
        /\ steps' = IF Known THEN [steps EXCEPT ![c.subject] = c.status]
                    ELSE steps
    BY <1>2, StepHandled
  <2>3. CASE j = k /\ Known /\ c.status = "IN_PROGRESS"
    <3>1. c = StepCall(2 * k - 1) /\ 2 * k - 1 \in 1..8 /\ 2 * k \in 1..8
      BY <2>1, <2>3
    <3>2. stepCalls = 2 * k - 1
      BY <1>0, <2>2, <3>1 DEF CallsInOrder
    <3>3. request[StepCall(2 * k)] = "None"
      BY <3>1, <3>2 DEF CallsInOrder
    <3>4. steps[k] = "PENDING"
      BY <2>2, <3>1, <3>3 DEF StepsMarked, Mark
    <3> QED
      BY <3>4 DEF Rank
  <2>4. CASE j = k /\ Known /\ c.status = "COMPLETED"
    BY <1>0, <2>1, <2>2, <2>4 DEF Rank
  <2>5. CASE j # k \/ ~Known
    BY <1>0, <2>1, <2>2, <2>5 DEF Rank
  <2> QED
    BY <2>1, <2>3, <2>4, <2>5
<1>3. ASSUME NEW c \in Calls \ StepUpdates, Handle(c)
      PROVE  steps' = steps
  BY <1>3, VerdictHandled, VoteHandled DEF Calls
<1> QED
  BY <1>1, <1>2, <1>3, RowsProgress DEF callbackVars

-----------------------------------------------------------------------------
(* What the browser may hold of the dispute.  Of two answers about it, b is*)
(* not behind a.                                                           *)
NotBehind(a, b) ==
  /\ a.status \in Terminal =>
       b.status = a.status /\ b.verdict = a.verdict /\ b.votes = a.votes
  /\ \A model \in Rows :
       a.votes[model].status = "VOTED" => b.votes[model] = a.votes[model]
  /\ \A k \in 1..4 : Rank(a.steps[k]) <= Rank(b.steps[k])
  /\ a.evidence \subseteq b.evidence

Now == Serialized(status, votes, verdict, steps, Evidence)

(* Nothing is fetched, attached or cached before there is a dispute.       *)
FormFirst ==
  /\ filing # "Filed" => page = "form"
  /\ page = "form" => fetch.at = "Idle" /\ stream = "Closed"
  /\ filing \in {"Editing", "Creating"} =>
       cache = None /\ Evidence = {} /\ \A file \in Files : attached[file] # "Sent"

(* What is cached is not behind what is being fetched, nor that behind the *)
(* rows; an answer of which the dispute row was read says when it ended.   *)
Answers ==
  /\ cache # None => NotBehind(cache, Now)
  /\ fetch.at = "RowRead" =>
       /\ fetch.body \in Terminal => status = fetch.body
       /\ cache # None /\ cache.status \in Terminal => fetch.body = cache.status
  /\ fetch.at = "Answered" =>
       /\ NotBehind(fetch.body, Now)
       /\ cache # None => NotBehind(cache, fetch.body)

Live == SettlementInv /\ RowsStand /\ RowsPlain

ViewerInv ==
  (Live \/ Frozen) /\ BrowserTyped /\ FormFirst /\ Answers /\ StatsBehind

LEMMA RankType == \A step : Rank(step) \in 0..2
BY DEF Rank

LEMMA NotBehindItself == \A a : NotBehind(a, a)
BY RankType DEF NotBehind

LEMMA NotBehindChain ==
  ASSUME NEW a, NEW b, NEW c, NotBehind(a, b), NotBehind(b, c)
  PROVE  NotBehind(a, c)
<1>1. \A k \in 1..4 : Rank(a.steps[k]) <= Rank(c.steps[k])
  <2>1. ASSUME NEW k \in 1..4
        PROVE  Rank(a.steps[k]) <= Rank(c.steps[k])
    <3>1. /\ Rank(a.steps[k]) \in 0..2 /\ Rank(b.steps[k]) \in 0..2
          /\ Rank(c.steps[k]) \in 0..2
      BY RankType
    <3>2. /\ Rank(a.steps[k]) <= Rank(b.steps[k])
          /\ Rank(b.steps[k]) <= Rank(c.steps[k])
      BY DEF NotBehind
    <3> QED
      BY <3>1, <3>2
  <2> QED
    BY <2>1
<1> QED
  BY <1>1 DEF NotBehind

(* What the rows show from one step to the next.                           *)
LEMMA RowsAdvance ==
  ASSUME Without({"responseLost", "database"}), Live \/ Frozen,
         [Next]_vars, Evidence \subseteq Evidence'
  PROVE  NotBehind(Now, Now')
<1>1. CASE Frozen
  BY <1>1, FrozenStays, RankType
     DEF vars, callbackVars, Now, Serialized, NotBehind
<1>2. CASE Live
  <2>1. ~DatabaseFails
    BY <1>2 DEF Without, DatabaseFails, Faults, Live, SettlementInv, ToldInv,
                AwaitedInv, Inv, TypeOK, AdjudicationTypeOK
  <2>2. AwaitedInv /\ Inv /\ Awaited /\ RowsStand /\ SettlementInv
    BY <1>2 DEF Live, SettlementInv, ToldInv, AwaitedInv
  <2>3. status \in Terminal => UNCHANGED <<status, votes, verdict>>
    BY <2>2, TerminalStands
  <2>4. \A p \in Rows : votes[p].status = "VOTED" => votes'[p] = votes[p]
    BY <2>1, <2>2, VotedStands
  <2>5. \A k \in 1..4 : Rank(steps[k]) <= Rank(steps'[k])
    BY <2>1, <2>2, StepsAdvance
  <2> QED
    BY <2>3, <2>4, <2>5 DEF NotBehind, Now, Serialized
<1> QED
  BY <1>1, <1>2

LEMMA EvidenceGrows ==
  ASSUME BrowserTyped, FormFirst, [ViewerNext]_viewerVars
  PROVE  Evidence \subseteq Evidence'
<1>1. CASE attached' = attached
  BY <1>1 DEF Evidence
<1>2. CASE SubmitForm
  BY <1>2 DEF SubmitForm, FormFirst
<1>3. CASE Created
  BY <1>3 DEF Created, FormFirst
<1>4. CASE Pushed
  BY <1>4 DEF Pushed, Evidence
<1>5. ASSUME NEW file \in Files, Submitted(file) \/ NotSubmitted(file)
      PROVE  Evidence \subseteq Evidence'
  BY <1>5 DEF Submitted, NotSubmitted, Evidence, BrowserTyped
<1> QED
  BY <1>1, <1>2, <1>3, <1>4, <1>5
     DEF ViewerNext, viewerVars, readVars, Filing, AddSampleEvidence,
         RemoveEvidence, Creation, CreationFails, Navigate, Open, Load,
         Leave, RouteOn, Redirect, Browse, Browser, Fetched, FetchFails,
         OnChange, OnFinal, Reads, ReadBundle, ReadRow, ReadRelations,
         Subscribe, StreamDrops, Panelists, HandleAndRelay, Relay, GetStats

LEMMA FormFirstKept ==
  ASSUME BrowserTyped, FormFirst, [ViewerNext]_viewerVars
  PROVE  FormFirst'
<1>1. CASE AddSampleEvidence \/ \E item \in draft : RemoveEvidence(item.id)
  BY <1>1 DEF AddSampleEvidence, RemoveEvidence, readVars, FormFirst, Evidence
<1>2. CASE SubmitForm
  BY <1>2 DEF SubmitForm, FormFirst, Evidence
<1>3. CASE Creation \/ CreationFails
  BY <1>3 DEF Creation, CreationFails, readVars, browserVars, FormFirst,
              Evidence
<1>4. CASE Created
  BY <1>4 DEF Created, FormFirst
<1>5. CASE Pushed
  BY <1>5 DEF Pushed, Visit, FormFirst
<1>6. ASSUME NEW next \in Pages \ {"form"}, NEW data, Browse(next, data),
             page # "form"
      PROVE  FormFirst'
  BY <1>6 DEF Browse, Visit, FormFirst
<1>7. CASE Navigate
  <2>1. PICK next \in Pages \ {"form"}, data \in {cache, None} :
          Browse(next, data) /\ page # "form"
    BY <1>7
       DEF Navigate, Open, Load, Leave, RouteOn, Redirect, Pages, DetailPages
  <2> QED
    BY <1>6, <2>1
<1>8. CASE Browser
  BY <1>8, FetchTypes DEF Browser, Fetched, FetchFails, OnChange, OnFinal,
       browserVars, FormFirst, Evidence, BrowserTyped
<1>9. CASE ReadBundle /\ Reads
  BY <1>9 DEF Reads, ReadBundle, browserVars, FormFirst, Evidence
<1>10. CASE (ReadRow \/ ReadRelations \/ Subscribe \/ StreamDrops) /\ Reads
  BY <1>10 DEF Reads, ReadRow, ReadRelations, Subscribe, StreamDrops,
       browserVars, FormFirst, Evidence
<1>11. ASSUME NEW file \in Files, Submitted(file) \/ NotSubmitted(file), Reads
       PROVE  FormFirst'
  BY <1>11 DEF Reads, Submitted, NotSubmitted, browserVars, FormFirst
<1>12. CASE Panelists
  BY <1>12 DEF Panelists, readVars, browserVars, FormFirst, Evidence
<1>13. ASSUME NEW c \in Calls, HandleAndRelay(c)
       PROVE  FormFirst'
  BY <1>13 DEF HandleAndRelay, Relay, browserVars, FormFirst, Evidence
<1>14. CASE GetStats \/ UNCHANGED viewerVars
  BY <1>14 DEF GetStats, viewerVars, readVars, browserVars, FormFirst, Evidence
<1> QED
  BY <1>1, <1>2, <1>3, <1>4, <1>5, <1>7, <1>8, <1>9, <1>10, <1>11, <1>12,
     <1>13, <1>14 DEF ViewerNext, Filing, Reads

LEMMA AnswersKept ==
  ASSUME TypeOK, BrowserTyped, FormFirst, Answers, NotBehind(Now, Now'),
         [ViewerNext]_viewerVars
  PROVE  Answers'
<1> DEFINE Lasts ==
       /\ cache' # None => NotBehind(cache', Now)
       /\ fetch'.at = "RowRead" =>
            /\ fetch'.body \in Terminal => status = fetch'.body
            /\ cache' # None /\ cache'.status \in Terminal =>
                 fetch'.body = cache'.status
       /\ fetch'.at = "Answered" =>
            /\ NotBehind(fetch'.body, Now)
            /\ cache' # None => NotBehind(cache', fetch'.body)
<1>1. ASSUME Lasts
      PROVE  Answers'
  <2>1. status \in Terminal => status' = status
    BY DEF NotBehind, Now, Serialized
  <2>2. \A a : NotBehind(a, Now) => NotBehind(a, Now')
    BY NotBehindChain
  <2> QED
    BY <1>1, <2>1, <2>2 DEF Answers
<1>2. CASE cache' = cache /\ fetch' = fetch
  BY <1>1, <1>2 DEF Answers
<1>3. CASE cache' \in {cache, None} /\ fetch'.at \in {"Idle", "Sent"}
  BY <1>1, <1>3 DEF Answers
<1>4. CASE Created
  <2>1. NotBehind(FreshDispute, Now)
    BY RankType DEF NotBehind, FreshDispute, Now, Serialized, PendingVote,
       Terminal, Rank
  <2>2. cache' = FreshDispute /\ fetch'.at = "Idle"
    BY <1>4 DEF Created, FormFirst
  <2> QED
    BY <1>1, <2>1, <2>2
<1>5. CASE Fetched
  BY <1>1, <1>5, FetchTypes DEF Fetched, Answers
<1>6. CASE ReadRow /\ Reads
  <2>1. cache' = cache /\ fetch'.at = "RowRead" /\ fetch'.body = status
    BY <1>6 DEF Reads, ReadRow, browserVars, BrowserTyped
  <2> QED
    BY <1>1, <2>1 DEF Answers, NotBehind, Now, Serialized
<1>7. CASE ReadRelations /\ Reads
  <2> DEFINE answer == Serialized(fetch.body, votes, verdict, steps, Evidence)
  <2>1. cache' = cache /\ fetch'.at = "Answered" /\ fetch'.body = answer
    BY <1>7 DEF Reads, ReadRelations, browserVars, BrowserTyped
  <2>2. NotBehind(answer, Now)
    BY <1>7, RankType DEF ReadRelations, Answers, NotBehind, Now, Serialized
  <2>3. cache # None => NotBehind(cache, answer)
    BY <1>7 DEF ReadRelations, Answers, NotBehind, Now, Serialized
  <2> QED
    BY <1>1, <2>1, <2>2, <2>3 DEF Answers
<1>8. CASE OnFinal \/ \E more \in BOOLEAN : OnChange(more)
  <2>1. cache' = cache /\ fetch' \in {fetch, Started(cache)}
    BY <1>8 DEF OnFinal, OnChange, browserVars, Invalidated
  <2> QED
    BY <1>2, <1>3, <2>1, FetchTypes DEF BrowserTyped
<1>9. CASE Navigate \/ Pushed
  <2>1. PICK next \in Pages, data \in {cache, None} : Visit(next, data)
    BY <1>9 DEF Navigate, Open, Load, Leave, RouteOn, Redirect, Browse, Pages,
       DetailPages, Pushed
  <2> QED
    BY <1>3, <2>1, FetchTypes DEF Visit, BrowserTyped
<1>10. CASE FetchFails
  BY <1>3, <1>10, FetchTypes DEF FetchFails, browserVars
<1> QED
  BY <1>2, <1>4, <1>5, <1>6, <1>7, <1>8, <1>9, <1>10
     DEF ViewerNext, viewerVars, readVars, browserVars, Filing,
         AddSampleEvidence, RemoveEvidence, SubmitForm, Creation,
         CreationFails, Browser, Reads, ReadBundle, Subscribe, StreamDrops,
         Submitted, NotSubmitted, Panelists, HandleAndRelay, Relay, GetStats

(* An answer that is kept may fall behind, but an outcome it counted stands*)
LEMMA StatsBehindKept ==
  ASSUME TypeOK, StatsBehind, NotBehind(Now, Now'), [ViewerNext]_viewerVars
  PROVE  StatsBehind'
<1>1. CASE GetStats
  <2>1. stats' = Stats(Ledger) /\ UNCHANGED <<status, verdict>>
    BY <1>1 DEF GetStats, vars, callbackVars
  <2>2. Ledger' = Ledger
    BY <2>1 DEF Ledger, Known, Row
  <2> QED
    BY <2>1, <2>2, StatsOfLedger DEF StatsBehind, NoneDecided
<1>2. CASE stats' = stats
  <2>1. status \in Terminal => status' = status /\ verdict' = verdict
    BY DEF NotBehind, Now, Serialized
  <2>2. status \in Terminal => Ledger' = Ledger
    BY <2>1 DEF Ledger, Known, Row
  <2> QED
    BY <1>2, <2>1, <2>2 DEF StatsBehind, NoneDecided
<1> QED
  BY <1>1, <1>2 DEF ViewerNext, viewerVars

LEMMA ViewerInvInit ==
  ASSUME Without({"responseLost", "database"})
  PROVE  ViewerInit => ViewerInv
<1> SUFFICES ASSUME ViewerInit PROVE ViewerInv
  OBVIOUS
<1>1. BrowserTyped
  BY ViewerInitTyped DEF ViewerTyped
<1>2. Live \/ Frozen
  <2>1. FormInit => RowsStand /\ RowsPlain
    BY DEF FormInit, Init, NoRows, RowsStand, RowsPlain, PendingVote
  <2> QED
    BY <2>1, SettlementIsInductive, SeededIsFrozen
       DEF ViewerInit, FormInit, Live
<1>3. FormFirst /\ Answers /\ StatsBehind
  BY DEF ViewerInit, FormInit, SeededInit, FormFirst, Answers, Evidence,
         NoFetch, StatsBehind
<1> QED
  BY <1>1, <1>2, <1>3 DEF ViewerInv

LEMMA ViewerInvKept ==
  ASSUME Without({"responseLost", "database"}), ViewerInv,
         [ViewerNext]_viewerVars
  PROVE  ViewerInv' /\ NotBehind(Now, Now')
<1>1. [Next]_vars /\ (Live \/ Frozen) /\ TypeOK
  BY ViewerStep
     DEF ViewerInv, Live, SettlementInv, ToldInv, AwaitedInv, Inv, Frozen
<1>2. NotBehind(Now, Now')
  BY <1>1, RowsAdvance, EvidenceGrows DEF ViewerInv
<1>3. Live' \/ Frozen'
  <2>1. CASE Frozen
    BY <1>1, <2>1, FrozenStays
       DEF Frozen, vars, adjudicationVars, callbackVars, TypeOK,
           AdjudicationTypeOK, CallbackTypeOK
  <2>2. CASE Live
    <3>1. ~DatabaseFails
      BY <1>1 DEF Without, DatabaseFails, Faults, TypeOK, AdjudicationTypeOK
    <3>2. SettlementInv'
      BY <1>1, <2>2, SettlementIsInductive DEF Live
    <3>3. RowsStand' /\ RowsPlain'
      BY <1>1, <2>2, <3>1, RowsStandKept, RowsPlainKept
         DEF Live, SettlementInv, ToldInv, AwaitedInv
    <3> QED
      BY <3>2, <3>3 DEF Live
  <2> QED
    BY <1>1, <2>1, <2>2
<1>4. BrowserTyped' /\ FormFirst' /\ Answers' /\ StatsBehind'
  BY <1>1, <1>2, BrowserStaysTyped, FormFirstKept, AnswersKept,
     StatsBehindKept DEF ViewerInv
<1> QED
  BY <1>2, <1>3, <1>4 DEF ViewerInv

LEMMA ViewerInvariance ==
  ASSUME Without({"responseLost", "database"})
  PROVE  ViewerSpec => []ViewerInv
<1>1. ViewerInv /\ [ViewerNext]_viewerVars => ViewerInv'
  BY ViewerInvKept
<1> QED
  BY <1>1, ViewerInvInit, PTL DEF ViewerSpec

-----------------------------------------------------------------------------
(* What was shown stays.                                                   *)
LEMMA CacheAdvances ==
  ASSUME BrowserTyped, FormFirst, Answers, [ViewerNext]_viewerVars,
         cache # None, cache' # None
  PROVE  NotBehind(cache, cache')
<1>1. CASE cache' = cache
  BY <1>1, NotBehindItself
<1>2. CASE Created
  BY <1>2 DEF Created, FormFirst
<1>3. CASE Fetched
  BY <1>3 DEF Fetched, Answers
<1>4. CASE Navigate \/ Pushed
  <2>1. cache' \in {cache, None}
    BY <1>4 DEF Navigate, Open, Load, Leave, RouteOn, Redirect, Browse,
                Visit, Pushed
  <2> QED
    BY <1>1, <2>1
<1> QED
  BY <1>1, <1>2, <1>3, <1>4
     DEF ViewerNext, viewerVars, readVars, browserVars, Filing,
         AddSampleEvidence, RemoveEvidence, SubmitForm, Creation,
         CreationFails, Browser, FetchFails, OnChange, OnFinal, Reads,
         Panelists, HandleAndRelay, GetStats

(* The live page counts the votes that were cast.                          *)
Cast(dispute, choice) ==
  {model \in Rows : dispute.votes[model] = Voted(choice)}

LEMMA CastCounts ==
  ASSUME NEW dispute \in Shown
  PROVE  /\ \A choice \in {"REFUND", "REJECT"} :
              /\ IsFiniteSet(Cast(dispute, choice))
              /\ Cardinality(Cast(dispute, choice)) \in Nat
         /\ LiveTally(dispute).pending =
              Cardinality(Rows) - Cardinality(Cast(dispute, "REFUND"))
                - Cardinality(Cast(dispute, "REJECT"))
<1> DEFINE shown == [model \in Rows |-> PanelistCard(dispute.votes[model]).vote]
<1>1. ASSUME NEW choice \in {"REFUND", "REJECT"}
      PROVE  /\ IsFiniteSet(Cast(dispute, choice))
             /\ Cardinality(Cast(dispute, choice)) \in Nat
  <2>1. Cast(dispute, choice) \in SUBSET Rows
    BY DEF Cast
  <2> QED
    BY <2>1, RowsAssumption, FS_Subset, FS_CardinalityType
<1>2. ASSUME NEW choice \in {"REFUND", "REJECT"}
      PROVE  {model \in DOMAIN shown : shown[model] = choice}
               = Cast(dispute, choice)
  <2>1. ASSUME NEW model \in Rows
        PROVE  shown[model] = choice <=> dispute.votes[model] = Voted(choice)
    <3>1. dispute.votes[model] \in PanelVotes
      BY DEF Shown
    <3>2. choice # None
      BY ShownAssumption DEF VoteChoices
    <3> QED
      BY <3>1, <3>2 DEF PanelistCard, PanelVotes, Voted
  <2> QED
    BY <2>1 DEF Cast
<1>3. DOMAIN shown = Rows
  OBVIOUS
<1>4. LiveTally(dispute) = VoteTally(shown)
  BY DEF LiveTally
<1> HIDE DEF shown
<1> QED
  BY <1>1, <1>2, <1>3, <1>4 DEF VoteTally

LEMMA NothingPendingAgain ==
  ASSUME NEW old \in Shown, NEW new \in Shown, NotBehind(old, new)
  PROVE  LiveTally(new).pending <= LiveTally(old).pending
<1>1. ASSUME NEW choice \in {"REFUND", "REJECT"}
      PROVE  Cardinality(Cast(old, choice)) <= Cardinality(Cast(new, choice))
  <2>1. Cast(old, choice) \in SUBSET Cast(new, choice)
    BY DEF Cast, NotBehind, Voted
  <2> QED
    BY <2>1, CastCounts, FS_Subset
<1>2. Cardinality(Rows) \in Nat
  BY RowsAssumption, FS_CardinalityType
<1> QED
  BY <1>1, <1>2, CastCounts

LEMMA ShownStays ==
  ASSUME NEW old \in Shown, NEW new \in Shown, NotBehind(old, new)
  PROVE  TakesNothingBack(old, new)
<1>1. ASSUME NEW model \in Rows, PanelistCard(old.votes[model]).vote # None
      PROVE  /\ PanelistCard(new.votes[model]) = PanelistCard(old.votes[model])
             /\ ReasoningHead(new.votes[model]) = old.votes[model].vote
  <2>1. old.votes[model].status = "VOTED"
    <3>1. old.votes[model] \in PanelVotes
      BY DEF Shown
    <3> QED
      BY <1>1, <3>1 DEF PanelistCard, PanelVotes
  <2>2. new.votes[model] = old.votes[model]
    BY <2>1 DEF NotBehind
  <2> QED
    BY <2>2 DEF ReasoningHead
<1>2. \A k \in 1..4 : TimelineStep(new, k) >= TimelineStep(old, k)
  <2>1. \A d : \A k \in 1..4 : TimelineStep(d, k) = Rank(d.steps[k])
    BY DEF TimelineStep, Rank
  <2> QED
    BY <2>1, RankType DEF NotBehind
<1>3. IsTerminal(old) => Pill(new) = Pill(old) /\ Banner(new) = Banner(old)
  BY DEF IsTerminal, NotBehind, Pill, Banner, IsRefund
<1>4. EvidenceConsidered(old) \subseteq EvidenceConsidered(new)
  BY DEF EvidenceConsidered, NotBehind
<1> QED
  BY <1>1, <1>2, <1>3, <1>4, NothingPendingAgain DEF TakesNothingBack

(* However the answers of several GETs and the writes of the callbacks fall*)
(* together, a browser never takes back a vote, a settlement step, a file  *)
(* or a decision it has shown.                                             *)
THEOREM ShownIsNotTakenBack ==
  ASSUME Without({"responseLost", "database"})
  PROVE  ViewerSpec => NothingTakenBack
<1>1. ASSUME ViewerInv, [ViewerNext]_viewerVars, cache # None, cache' # None
      PROVE  TakesNothingBack(cache, cache')
  <2>1. NotBehind(cache, cache')
    BY <1>1, CacheAdvances DEF ViewerInv
  <2>2. cache \in Shown /\ cache' \in Shown
    BY <1>1, ViewerInvKept DEF ViewerInv, BrowserTyped
  <2> QED
    BY <2>1, <2>2, ShownStays
<1>2. ViewerInv /\ [ViewerNext]_viewerVars =>
        [cache # None /\ cache' # None
           => TakesNothingBack(cache, cache')]_cache
  BY <1>1
<1> QED
  BY <1>2, ViewerInvariance, PTL DEF ViewerSpec, NothingTakenBack

-----------------------------------------------------------------------------
(* What a browser that sees the dispute decided holds of it is what the    *)
(* rows say, and they agree with one another.                              *)
LEMMA RowsAgree ==
  ASSUME Live \/ Frozen, status \in Terminal
  PROVE  /\ verdict \in StoredVerdicts /\ verdict # None
         /\ verdict.outcome \in VoteChoices
         /\ status = FinalStatus(verdict.outcome)
<1>1. CASE Live
  <2> USE <1>1 DEF Live, SettlementInv, ToldInv, AwaitedInv
  <2>1. Known /\ request[Verdict] \in {"StatusWritten", "Handled"}
    BY CallbackAssumption DEF Known, Final, Terminal, DisputeStatuses
  <2>2. verdict # None /\ status = FinalStatus(aggregate.outcome)
    BY <2>1 DEF Told
  <2>3. aggregate \in Results
    BY <2>1, AskedToStore
  <2>4. verdict = [aggregate EXCEPT !.outcome = StoredOutcome(@)]
    BY <2>2 DEF Inv, Stored
  <2>5. PICK o \in Outcomes, f \in 0..3, a \in 0..3 : aggregate = Result(o, f, a)
    BY <2>3 DEF Results
  <2>6. verdict.outcome = StoredOutcome(o) /\ aggregate.outcome = o
    BY <2>4, <2>5 DEF Result
  <2>7. /\ StoredOutcome(o) \in VoteChoices
        /\ FinalStatus(StoredOutcome(o)) = FinalStatus(o)
    BY DEF StoredOutcome, FinalStatus, Outcomes, VoteChoices
  <2> QED
    BY <2>2, <2>3, <2>4, <2>6, <2>7, StoredIsVerdict
<1>2. CASE Frozen
  <2>1. PICK rows \in SeededRows :
          /\ status = rows.status /\ verdict = rows.verdict
    BY <1>2 DEF Frozen
  <2>2. PICK fixture \in SettledFixtures : rows = SeedSettled(fixture)
    BY <2>1 DEF SeededRows, SeedActive, Terminal
  <2>3. /\ verdict.outcome = fixture.outcome /\ status = fixture.status
        /\ verdict = SeededVerdict(fixture)
    BY <2>1, <2>2 DEF SeedSettled, SeededVerdict, Result
  <2>4. fixture.outcome \in VoteChoices
        /\ fixture.status = FinalStatus(fixture.outcome)
    BY DEF SettledFixtures, FinalStatus, VoteChoices
  <2>5. verdict # None
    BY <2>3, CallbackAssumption, SeededVerdictType
  <2> QED
    BY <1>2, <2>3, <2>4, <2>5 DEF Frozen, TypeOK, CallbackTypeOK
<1> QED
  BY <1>1, <1>2

LEMMA DecidedView ==
  ASSUME ViewerInv, cache # None, IsTerminal(cache)
  PROVE  /\ status = cache.status /\ verdict = cache.verdict
         /\ votes = cache.votes
         /\ status \in Terminal
BY DEF ViewerInv, Answers, NotBehind, Now, Serialized, IsTerminal

LEMMA LedgerOfDecided ==
  ASSUME ViewerInv, cache # None, IsTerminal(cache)
  PROVE  LET won == Banner(cache) = "Refund"
             fresh == Stats(Ledger)
         IN
         /\ Visible(Ledger, "active", "claimant") = {}
         /\ Visible(Ledger, "settled", "claimant") = fresh.refunded
         /\ fresh.active = 0 /\ fresh.settled = Cardinality(fresh.refunded)
         /\ (fresh.refunded # {}) = won
         /\ DisputeCard(Ledger["this"], "claimant")
              = (IF won THEN "Won" ELSE "Lost")
         /\ DisputeCard(Ledger["this"], "respondent") = Pill(cache)
         /\ \A ens \in Parties :
              LET recent == RecentDisputes(Ledger, ens)["this"]
              IN recent.closed /\ RecentDisputeRow(recent) = Banner(cache)
<1> DEFINE list == Ledger
           won == Banner(cache) = "Refund"
           this == [status |-> status, claimantEns |-> "claimant",
                    respondentEns |-> "respondent", outcome |-> verdict.outcome]
<1>1. /\ status \in Terminal /\ verdict # None
      /\ status = cache.status /\ verdict = cache.verdict
      /\ verdict.outcome \in VoteChoices
      /\ status = FinalStatus(verdict.outcome)
  BY DecidedView, RowsAgree DEF ViewerInv
<1>2. list = [d \in {"this"} |-> this]
  <2>1. Known
    BY <1>1, CallbackAssumption DEF Known, DisputeStatuses
  <2> QED
    BY <1>1, <2>1 DEF Ledger, List, Summary, Row
<1>3. DOMAIN list = {"this"} /\ list["this"] = this
  BY <1>2
<1>4. /\ Banner(cache) = IF verdict.outcome = "REFUND" THEN "Refund" ELSE "Reject"
      /\ won <=> verdict.outcome = "REFUND"
      /\ status = IF verdict.outcome = "REFUND" THEN "SETTLED" ELSE "REJECTED"
  BY <1>1 DEF Banner, IsRefund, FinalStatus
<1>5. None # "mine" /\ verdict.outcome # None
  BY <1>1, ShownAssumption
<1> HIDE DEF list, won
<1>6. /\ Visible(list, "active", "claimant") = {}
      /\ Visible(list, "settled", "claimant") = Stats(list).refunded
  BY <1>3, <1>4 DEF Visible, Stats
<1>7. /\ Stats(list).active = 0
      /\ Stats(list).settled = Cardinality(Stats(list).refunded)
  <2>1. {d \in DOMAIN list : list[d].status \in {"PENDING", "ADJUDICATING"}} = {}
    BY <1>3, <1>4
  <2>2. {d \in DOMAIN list : list[d].status \in {"SETTLED"}}
          = Stats(list).refunded
    BY <1>3, <1>4 DEF Stats
  <2>3. Cardinality({}) = 0
    BY FS_EmptySet
  <2> QED
    BY <2>1, <2>2, <2>3 DEF Stats
<1>8. (Stats(list).refunded # {}) = won
  <2>1. Stats(list).refunded =
          IF verdict.outcome = "REFUND" THEN {"this"} ELSE {}
    BY <1>3, <1>4 DEF Stats
  <2> QED
    BY <1>4, <2>1 DEF won
<1>9. /\ DisputeCard(list["this"], "claimant") = (IF won THEN "Won" ELSE "Lost")
      /\ DisputeCard(list["this"], "respondent") = Pill(cache)
  <2>1. /\ Perspective("claimant", this) = "mine"
        /\ Perspective("respondent", this) = "counterparty"
    BY DEF Perspective
  <2>2. \A perspective :
          /\ DeriveStatus("SETTLED", perspective) =
               IF perspective = "mine" THEN "Won" ELSE "Settled - refund"
          /\ DeriveStatus("REJECTED", perspective) =
               IF perspective = "mine" THEN "Lost" ELSE "Settled - rejected"
    BY DEF DeriveStatus
  <2>3. /\ DisputeCard(list["this"], "claimant") = DeriveStatus(status, "mine")
        /\ DisputeCard(list["this"], "respondent")
             = DeriveStatus(status, "counterparty")
    BY <1>3, <2>1 DEF DisputeCard
  <2>4. Pill(cache) = DeriveStatus(status, None)
    BY <1>1 DEF Pill
  <2>5. CASE verdict.outcome = "REFUND"
    <3>1. status = "SETTLED" /\ won
      BY <1>4, <2>5
    <3>2. DeriveStatus(status, "mine") = "Won"
      BY <2>2, <3>1
    <3>3. DeriveStatus(status, "counterparty") = DeriveStatus(status, None)
      BY <1>5, <2>2, <3>1
    <3> QED
      BY <2>3, <2>4, <3>1, <3>2, <3>3
  <2>6. CASE verdict.outcome # "REFUND"
    <3>1. status = "REJECTED" /\ ~won
      BY <1>4, <2>6
    <3>2. DeriveStatus(status, "mine") = "Lost"
      BY <2>2, <3>1
    <3>3. DeriveStatus(status, "counterparty") = DeriveStatus(status, None)
      BY <1>5, <2>2, <3>1
    <3> QED
      BY <2>3, <2>4, <3>1, <3>2, <3>3
  <2> QED
    BY <2>5, <2>6
<1>10. ASSUME NEW ens \in Parties
       PROVE  LET recent == RecentDisputes(list, ens)["this"]
              IN recent.closed /\ RecentDisputeRow(recent) = Banner(cache)
  <2>1. RecentDisputes(list, ens)["this"] = RecentDispute(this, ens)
    BY <1>3 DEF RecentDisputes, ListForEns, Involves, Restrict, Parties
  <2>2. /\ RecentDispute(this, ens).closed
        /\ RecentDisputeRow(RecentDispute(this, ens)) = Banner(cache)
    BY <1>4, <1>5 DEF RecentDispute, RecentDisputeRow
  <2> QED
    BY <2>1, <2>2
<1> QED
  BY <1>6, <1>7, <1>8, <1>9, <1>10 DEF list, won

LEMMA TilesOfSeeded ==
  ASSUME NEW outcome \in VoteChoices, NEW ens \in Parties
  PROVE  LET row == Reputation(SeededReputations(outcome), ens)
             upheld == (ens = "claimant") = (outcome = "REFUND")
         IN AgentTiles(row) =
              [disputes |-> 1, won |-> IF upheld THEN 1 ELSE 0,
               lost |-> IF upheld THEN 0 ELSE 1,
               upheld |-> IF upheld THEN 100 ELSE 0]
<1> DEFINE upheld == (ens = "claimant") = (outcome = "REFUND")
<1>1. Reputation(SeededReputations(outcome), ens) =
        [totalDisputes |-> 1, disputesWon |-> IF upheld THEN 1 ELSE 0,
         disputesLost |-> IF upheld THEN 0 ELSE 1]
  BY DEF Reputation, SeededReputations, BumpReputation, NewReputation, Parties
<1>2. (200 * 1 + 1) \div (2 * 1) = 100 /\ (200 * 0 + 1) \div (2 * 1) = 0
  OBVIOUS
<1> QED
  BY <1>1, <1>2 DEF AgentTiles

(* After a browser was shown the decision the ledger and the agents' pages *)
(* say the same of the dispute as its verdict page.  The statistics do too *)
(* when they are counted, and what StatsService keeps of an earlier count  *)
(* misses the decision but never has another.                              *)
THEOREM LedgerSaysTheSame ==
  ASSUME Without({"responseLost", "database"})
  PROVE  ViewerSpec => []LedgerAgrees
<1>1. ASSUME ViewerInv, cache # None, IsTerminal(cache), NEW ens \in Parties
      PROVE  LET row == Reputation(SeededReputations(verdict.outcome), ens)
                 upheld == (ens = "claimant") = (Banner(cache) = "Refund")
             IN AgentTiles(row) =
                  [disputes |-> 1, won |-> IF upheld THEN 1 ELSE 0,
                   lost |-> IF upheld THEN 0 ELSE 1,
                   upheld |-> IF upheld THEN 100 ELSE 0]
  <2>1. /\ verdict.outcome \in VoteChoices
        /\ (Banner(cache) = "Refund") = (verdict.outcome = "REFUND")
    BY <1>1, DecidedView, RowsAgree DEF ViewerInv, Banner, IsRefund
  <2> QED
    BY <2>1, TilesOfSeeded
<1>2. ASSUME ViewerInv, cache # None, IsTerminal(cache)
      PROVE  LET won == Banner(cache) = "Refund"
             IN PagesAgree(won) /\ StatsAgree(won)
  <2> DEFINE won == Banner(cache) = "Refund"
  <2>1. PagesAgree(won)
    BY <1>1, <1>2, LedgerOfDecided DEF PagesAgree
  <2>2. StatsAgree(won)
    <3>1. TypeOK
      BY <1>2 DEF ViewerInv, Live, SettlementInv, ToldInv, AwaitedInv, Inv,
                  Frozen
    <3>2. Stats(Ledger).settled \in 0..1
      BY <3>1, StatsOfLedger DEF StatsAnswers
    <3> QED
      BY <1>2, <3>2, LedgerOfDecided
         DEF StatsAgree, ViewerInv, StatsBehind, NoneDecided
  <2> QED
    BY <2>1, <2>2
<1>3. ViewerInv => LedgerAgrees
  BY <1>2 DEF LedgerAgrees
<1> QED
  BY <1>3, ViewerInvariance, PTL

-----------------------------------------------------------------------------
(* The numbers of the verdict page.                                        *)

(* A stored verdict counts the votes for it and those against it; an       *)
(* ABSTAIN counts none and had none to reject.                             *)
Counts(result, refunds, rejects) ==
  LET own == IF result.outcome = "REFUND" THEN refunds ELSE rejects
      other == IF result.outcome = "REFUND" THEN rejects ELSE refunds
  IN IF result.outcome = "ABSTAIN"
     THEN rejects = 0 /\ refunds <= 1
     ELSE result.votesFor = own /\ result.votesAgainst = other /\ own >= other

LEMMA PanelVerdictCounts ==
  ASSUME NEW panelists \in [Panel -> PanelistVerdicts]
  PROVE  Counts([Aggregate(panelists) EXCEPT !.outcome = StoredOutcome(@)],
                Tally(panelists, "REFUND"), Tally(panelists, "REJECT"))
<1> DEFINE refunds  == Tally(panelists, "REFUND")
           rejects  == Tally(panelists, "REJECT")
           abstains == Tally(panelists, "ABSTAIN")
           result   == Aggregate(panelists)
<1>1. refunds \in Nat /\ rejects \in Nat /\ abstains \in Nat
  BY AdjudicationAssumption, TallyType
<1>2. refunds + rejects <= 3
  BY <1>1, AdjudicationAssumption, TalliesDisjoint, FS_CardinalityType
<1>3. result =
        IF refunds + rejects + abstains = 0 THEN Result("FAILED", 0, 0)
        ELSE IF Majority(refunds) THEN Result("REFUND", refunds, rejects)
        ELSE IF Majority(rejects) THEN Result("REJECT", rejects, refunds)
        ELSE WithoutMajority(refunds, rejects, abstains)
  BY DEF Aggregate
<1> HIDE DEF refunds, rejects, abstains, result
<1>4. PICK o \in Outcomes, f \in Nat, a \in Nat :
        /\ result = Result(o, f, a)
        /\ o = "REFUND" => f = refunds /\ a = rejects /\ refunds >= rejects
        /\ o = "REJECT" => f = rejects /\ a = refunds /\ rejects >= refunds
        /\ o \in {"ABSTAIN", "FAILED"} => rejects = 0 /\ refunds <= 1
  <2>1. CASE refunds + rejects + abstains = 0
    BY <1>1, <1>3, <2>1 DEF Outcomes
  <2>2. CASE Majority(refunds) /\ refunds + rejects + abstains # 0
    <3>1. result = Result("REFUND", refunds, rejects) /\ refunds >= rejects
      BY <1>1, <1>2, <1>3, <2>2 DEF Majority
    <3> QED
      BY <1>1, <3>1 DEF Outcomes, VoteChoices
  <2>3. CASE ~Majority(refunds) /\ Majority(rejects)
    <3>1. result = Result("REJECT", rejects, refunds) /\ rejects >= refunds
      BY <1>1, <1>3, <2>3 DEF Majority
    <3> QED
      BY <1>1, <3>1 DEF Outcomes, VoteChoices
  <2>4. CASE /\ ~Majority(refunds) /\ ~Majority(rejects)
             /\ refunds + rejects + abstains # 0
    <3>1. result = WithoutMajority(refunds, rejects, abstains)
          /\ refunds \in {0, 1} /\ rejects \in {0, 1}
      BY <1>1, <1>3, <2>4 DEF Majority
    <3> QED
      BY <1>1, <3>1 DEF WithoutMajority, Outcomes, VoteChoices
  <2> QED
    BY <1>1, <2>1, <2>2, <2>3, <2>4 DEF Majority
<1>5. [result EXCEPT !.outcome = StoredOutcome(@)]
        = Result(StoredOutcome(o), f, a)
  BY <1>4 DEF Result
<1>6. Counts(Result(StoredOutcome(o), f, a), refunds, rejects)
  BY <1>4 DEF Counts, Result, StoredOutcome, Outcomes, VoteChoices
<1> QED
  BY <1>5, <1>6 DEF refunds, rejects, result

Showing(choice) == {model \in Rows : votes[model].vote = choice}


LEMMA VerdictCountsSeeded ==
  ASSUME Frozen, status \in Terminal
  PROVE  Counts(verdict, Cardinality(Showing("REFUND")),
                Cardinality(Showing("REJECT")))
<1>1. PICK rows \in SeededRows :
        /\ status = rows.status /\ votes = rows.votes
        /\ verdict = rows.verdict
  BY DEF Frozen
<1>2. PICK fixture \in SettledFixtures : rows = SeedSettled(fixture)
  BY <1>1 DEF SeededRows, SeedActive, Terminal
<1>3. ASSUME NEW choice
      PROVE  Cardinality(Showing(choice)) = Counted(fixture, choice)
  <2>1. \A model \in Rows : votes[model].vote = fixture.votes[model]
    BY <1>1, <1>2 DEF SeedSettled, Voted
  <2> QED
    BY <2>1 DEF Showing, Counted
<1>4. /\ fixture.outcome \in {"REFUND", "REJECT"}
      /\ \A model \in Rows : fixture.votes[model] = fixture.outcome
  BY DEF SettledFixtures, Unanimous
<1>5. Counted(fixture, Opposite(fixture.outcome)) = 0
  <2>1. {model \in Rows : fixture.votes[model] = Opposite(fixture.outcome)} = {}
    BY <1>4 DEF Opposite
  <2> QED
    BY <2>1, FS_EmptySet DEF Counted
<1>6. Counted(fixture, fixture.outcome) \in Nat
  <2>1. {model \in Rows : fixture.votes[model] = fixture.outcome} \in SUBSET Rows
    OBVIOUS
  <2> QED
    BY <2>1, RowsAssumption, FS_Subset, FS_CardinalityType DEF Counted
<1>7. verdict = Result(fixture.outcome, Counted(fixture, fixture.outcome),
                       Counted(fixture, Opposite(fixture.outcome)))
  BY <1>1, <1>2 DEF SeedSettled, SeededVerdict
<1> HIDE DEF Counted
<1> QED
  BY <1>3, <1>4, <1>5, <1>6, <1>7 DEF Counts, Result, Opposite

(* The rows of a decided dispute show votes the panel cast, all but those  *)
(* of the panelists no row shows.                                          *)
LEMMA RowsShowVotes ==
  ASSUME Live, status \in Terminal
  PROVE  /\ verdicts \in [Panel -> PanelistVerdicts]
         /\ verdict = [Aggregate(verdicts) EXCEPT !.outcome = StoredOutcome(@)]
         /\ \A choice \in {"REFUND", "REJECT"} :
              /\ Showing(choice) \subseteq Voters(verdicts, choice)
              /\ Voters(verdicts, choice) \ Unshown \subseteq Showing(choice)
<1> USE DEF Live, SettlementInv, ToldInv, AwaitedInv
<1>1. Known /\ request[Verdict] \in {"StatusWritten", "Handled"}
  BY CallbackAssumption DEF Known, Final, Terminal, DisputeStatuses
<1>2. Decided /\ verdicts \in [Panel -> PanelistVerdicts]
  BY <1>1, AskedToStore
<1>3. verdict = [Aggregate(verdicts) EXCEPT !.outcome = StoredOutcome(@)]
  <2>1. verdict # None
    BY <1>1 DEF Told
  <2> QED
    BY <1>2, <2>1 DEF Decided, Inv, Stored
<1>4. votes \in [Rows -> PanelVotes]
  BY DEF Inv, TypeOK, CallbackTypeOK
<1>5. ASSUME NEW choice \in {"REFUND", "REJECT"}, NEW p \in Showing(choice)
      PROVE  p \in Voters(verdicts, choice)
  <2>1. p \in Rows /\ votes[p].vote = choice /\ votes[p].status = "VOTED"
    BY <1>5 DEF Showing, RowsPlain
  <2>2. p \in Panel /\ votes[p] = verdicts[p]
    BY <1>1, <2>1 DEF RowsStand, RowShowsAnswer
  <2>3. verdicts[p] = Voted(choice)
    BY <1>2, <2>1, <2>2 DEF PanelistVerdicts, Voted, FailedPanelist
  <2> QED
    BY <1>2, <2>2, <2>3 DEF Voters
<1>6. ASSUME NEW choice \in {"REFUND", "REJECT"},
             NEW p \in Voters(verdicts, choice) \ Unshown
      PROVE  p \in Showing(choice)
  <2>1. p \in Panel /\ verdicts[p] = Voted(choice) /\ verdicts[p] # None
    BY <1>2 DEF Voters, Decided, PanelComplete, Inv, Concluding
  <2>2. p \in Rows /\ request[VoteUpdate(p, verdicts[p].status)] # "Lost"
    BY <2>1 DEF Unshown
  <2>3. request[VoteUpdate(p, verdicts[p].status)] \in Over
    BY <1>2, <2>1 DEF Decided, PanelComplete, Awaited, Inv, Concluding
  <2>4. votes[p] = Voted(choice)
    BY <1>1, <2>1, <2>2, <2>3 DEF Over, RowShowsAnswer
  <2> QED
    BY <2>2, <2>4 DEF Showing, Voted
<1> QED
  BY <1>2, <1>3, <1>5, <1>6

LEMMA NearlyAll ==
  ASSUME NEW A, NEW B, NEW X, NEW Y, NEW U,
         IsFiniteSet(A), IsFiniteSet(B), IsFiniteSet(U), A \cap B = {},
         X \in SUBSET A, Y \in SUBSET B, A \ U \subseteq X, B \ U \subseteq Y
  PROVE  /\ Cardinality(X) \in Nat /\ Cardinality(X) <= Cardinality(A)
         /\ Cardinality(Y) \in Nat /\ Cardinality(Y) <= Cardinality(B)
         /\ Cardinality(A) \in Nat /\ Cardinality(B) \in Nat
         /\ Cardinality(U) \in Nat
         /\ Cardinality(A) + Cardinality(B)
              <= Cardinality(X) + Cardinality(Y) + Cardinality(U)
<1>1. /\ IsFiniteSet(X) /\ Cardinality(X) <= Cardinality(A)
      /\ IsFiniteSet(Y) /\ Cardinality(Y) <= Cardinality(B)
  BY FS_Subset
<1>2. /\ Cardinality(X) \in Nat /\ Cardinality(Y) \in Nat
      /\ Cardinality(A) \in Nat /\ Cardinality(B) \in Nat
      /\ Cardinality(U) \in Nat
  BY <1>1, FS_CardinalityType
<1>3. Cardinality(A \cup B) = Cardinality(A) + Cardinality(B)
  <2>1. Cardinality(A \cup B)
          = Cardinality(A) + Cardinality(B) - Cardinality(A \cap B)
    BY FS_Union
  <2>2. Cardinality(A \cap B) = 0
    BY FS_EmptySet
  <2> QED
    BY <1>2, <2>1, <2>2
<1>4. /\ IsFiniteSet(X \cup Y)
      /\ Cardinality(X \cup Y) <= Cardinality(X) + Cardinality(Y)
  <2>1. /\ IsFiniteSet(X \cup Y)
        /\ Cardinality(X \cup Y)
             = Cardinality(X) + Cardinality(Y) - Cardinality(X \cap Y)
    BY <1>1, FS_Union
  <2>2. X \cap Y = {}
    OBVIOUS
  <2>3. Cardinality(X \cap Y) = 0
    BY <2>2, FS_EmptySet
  <2> QED
    BY <1>2, <2>1, <2>3
<1>5. /\ IsFiniteSet((X \cup Y) \cup U)
      /\ Cardinality((X \cup Y) \cup U) <= Cardinality(X \cup Y) + Cardinality(U)
  <2>1. /\ IsFiniteSet((X \cup Y) \cup U)
        /\ Cardinality((X \cup Y) \cup U)
             = Cardinality(X \cup Y) + Cardinality(U)
                 - Cardinality((X \cup Y) \cap U)
    BY <1>4, FS_Union
  <2>2. (X \cup Y) \cap U \in SUBSET U
    OBVIOUS
  <2>3. Cardinality((X \cup Y) \cap U) \in Nat
    BY <2>2, FS_Subset, FS_CardinalityType
  <2>4. Cardinality(X \cup Y) \in Nat
    BY <1>4, FS_CardinalityType
  <2> QED
    BY <1>2, <2>1, <2>3, <2>4
<1>6. Cardinality(A \cup B) <= Cardinality((X \cup Y) \cup U)
  <2>1. A \cup B \in SUBSET ((X \cup Y) \cup U)
    OBVIOUS
  <2> QED
    BY <1>5, <2>1, FS_Subset
<1>7. Cardinality(X \cup Y) \in Nat /\ Cardinality((X \cup Y) \cup U) \in Nat
  BY <1>4, <1>5, FS_CardinalityType
<1> QED
  BY <1>1, <1>2, <1>3, <1>4, <1>5, <1>6, <1>7

(* The verdict counts the votes that show, and at most as many more as     *)
(* there are panelists no row shows.                                       *)
LEMMA VerdictCountsRows ==
  ASSUME Live \/ Frozen, status \in Terminal
  PROVE  LET shown(choice) == Cardinality(Showing(choice))
         IN
         /\ shown("REFUND") \in Nat /\ shown("REJECT") \in Nat
         /\ \E refunds, rejects \in Nat :
              /\ Counts(verdict, refunds, rejects)
              /\ shown("REFUND") <= refunds /\ shown("REJECT") <= rejects
              /\ refunds + rejects
                   <= shown("REFUND") + shown("REJECT") + Cardinality(Unshown)
<1>1. IsFiniteSet(Unshown) /\ Cardinality(Unshown) \in Nat
  <2>1. Unshown \in SUBSET Panel
    BY DEF Unshown
  <2> QED
    BY <2>1, AdjudicationAssumption, FS_Subset, FS_CardinalityType
<1>2. CASE Live
  <2> DEFINE refunds == Voters(verdicts, "REFUND")
             rejects == Voters(verdicts, "REJECT")
  <2>1. /\ verdicts \in [Panel -> PanelistVerdicts]
        /\ verdict = [Aggregate(verdicts) EXCEPT !.outcome = StoredOutcome(@)]
        /\ Showing("REFUND") \in SUBSET refunds
        /\ Showing("REJECT") \in SUBSET rejects
        /\ refunds \ Unshown \subseteq Showing("REFUND")
        /\ rejects \ Unshown \subseteq Showing("REJECT")
    BY <1>2, RowsShowVotes
  <2>2. /\ IsFiniteSet(refunds) /\ IsFiniteSet(rejects)
        /\ Tally(verdicts, "REFUND") = Cardinality(refunds)
        /\ Tally(verdicts, "REJECT") = Cardinality(rejects)
    <3>1. DOMAIN verdicts = Panel
      BY <2>1
    <3>2. IsFiniteSet(Panel)
      BY AdjudicationAssumption
    <3> QED
      BY <3>1, <3>2, TallyType
  <2>3. refunds \cap rejects = {}
    BY DEF Voters, Voted
  <2>4. Counts(verdict, Cardinality(refunds), Cardinality(rejects))
    BY <2>1, <2>2, PanelVerdictCounts
  <2> HIDE DEF refunds, rejects
  <2> QED
    BY <1>1, <2>1, <2>2, <2>3, <2>4, NearlyAll
<1>3. CASE Frozen
  <2>1. \A choice : Cardinality(Showing(choice)) \in Nat
    <3>1. \A choice : Showing(choice) \in SUBSET Rows
      BY DEF Showing
    <3> QED
      BY <3>1, RowsAssumption, FS_Subset, FS_CardinalityType
  <2> QED
    BY <1>1, <1>3, <2>1, VerdictCountsSeeded
<1> QED
  BY <1>2, <1>3

(* The verdict page shows one decision, although what it shows was read at *)
(* different moments: banner and pill agree, and the votes it counts are   *)
(* those of the verdict but for the panelists no row shows.                *)
THEOREM VerdictPageAgrees ==
  ASSUME Without({"responseLost", "database"})
  PROVE  ViewerSpec => []OneDecisionShown
<1>1. ASSUME ViewerInv, page = "verdict", cache # None, IsTerminal(cache)
      PROVE  OneDecisionShown
  <2> DEFINE refunds == Cardinality(Showing("REFUND"))
             rejects == Cardinality(Showing("REJECT"))
             tally == VerdictTally(cache)
             result == cache.verdict
             own == IF result.outcome = "REFUND"
                    THEN tally.refunds ELSE tally.rejects
             other == tally.refunds + tally.rejects - own
  <2>1. /\ status = cache.status /\ verdict = cache.verdict
        /\ votes = cache.votes /\ status \in Terminal
    BY <1>1, DecidedView
  <2>2. /\ verdict # None /\ verdict.outcome \in VoteChoices
        /\ status = FinalStatus(verdict.outcome)
    BY <1>1, <2>1, RowsAgree DEF ViewerInv
  <2>3. refunds \in Nat /\ rejects \in Nat
    BY <1>1, <2>1, VerdictCountsRows DEF ViewerInv
  <2>4. PICK f \in Nat, a \in Nat :
          /\ Counts(result, f, a) /\ refunds <= f /\ rejects <= a
          /\ f + a <= refunds + rejects + Cardinality(Unshown)
    BY <1>1, <2>1, VerdictCountsRows DEF ViewerInv
  <2>5. tally.refunds = refunds /\ tally.rejects = rejects
    <3> DEFINE choices == [model \in Rows |-> cache.votes[model].vote]
    <3>1. \A choice : {model \in DOMAIN choices : choices[model] = choice}
                        = Showing(choice)
      BY <2>1 DEF Showing
    <3>2. VerdictTally(cache) = VoteTally(choices)
      BY DEF VerdictTally
    <3> HIDE DEF choices
    <3> QED
      BY <3>1, <3>2 DEF VoteTally
  <2>6. SettledAtShown(cache)
    BY <2>1, <2>2 DEF SettledAtShown
  <2>7. (Banner(cache) = "Refund") = (Pill(cache) = "Settled - refund")
    BY <2>1, <2>2, ShownAssumption
       DEF Banner, IsRefund, Pill, DeriveStatus, FinalStatus
  <2> HIDE DEF refunds, rejects, tally, result
  <2>8. IF result.outcome = "ABSTAIN"
        THEN tally.rejects = 0 /\ tally.refunds <= 1
        ELSE /\ own <= result.votesFor /\ other <= result.votesAgainst
             /\ result.votesFor + result.votesAgainst
                  <= own + other + Cardinality(Unshown)
             /\ result.votesFor >= result.votesAgainst
    <3>1. CASE result.outcome = "ABSTAIN"
      BY <2>3, <2>4, <2>5, <3>1 DEF Counts
    <3>2. CASE result.outcome = "REFUND"
      <4>1. own = refunds /\ other = rejects
        BY <2>3, <2>5, <3>2
      <4>2. result.votesFor = f /\ result.votesAgainst = a /\ f >= a
        BY <2>4, <3>2 DEF Counts
      <4> QED
        BY <2>4, <3>2, <4>1, <4>2
    <3>3. CASE result.outcome \notin {"ABSTAIN", "REFUND"}
      <4>1. own = rejects /\ other = refunds
        BY <2>3, <2>5, <3>3
      <4>2. result.votesFor = a /\ result.votesAgainst = f /\ a >= f
        BY <2>4, <3>3 DEF Counts
      <4>3. a + f = f + a /\ rejects + refunds = refunds + rejects
        BY <2>3
      <4> HIDE DEF own, other
      <4> QED
        BY <2>4, <3>3, <4>1, <4>2, <4>3
    <3> QED
      BY <3>1, <3>2, <3>3
  <2> QED
    BY <2>6, <2>7, <2>8 DEF OneDecisionShown, tally, result
<1>2. ViewerInv => OneDecisionShown
  BY <1>1 DEF OneDecisionShown
<1> QED
  BY <1>2, ViewerInvariance, PTL
=============================================================================
