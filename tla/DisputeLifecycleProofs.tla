----------------------- MODULE DisputeLifecycleProofs -----------------------
(***************************************************************************)
(* What holds of a dispute whatever goes wrong, for every panel of at most *)
(* three, every set of rows and every set of faults.                       *)
(***************************************************************************)
EXTENDS DisputeLifecycle, FiniteSetTheorems, TLAPS

-----------------------------------------------------------------------------
(* What PanelVoteAggregator computes, for every finite set of panelists.    *)
Voters(panelists, choice) ==
  {p \in DOMAIN panelists : panelists[p] = Voted(choice)}

(* A tally counts some of the panelists.                                   *)
LEMMA TallyType ==
  ASSUME NEW Judges, IsFiniteSet(Judges), NEW panelists,
         DOMAIN panelists = Judges, NEW choice
  PROVE  /\ IsFiniteSet(Voters(panelists, choice))
         /\ Tally(panelists, choice) = Cardinality(Voters(panelists, choice))
         /\ Tally(panelists, choice) \in Nat
<1>1. Voters(panelists, choice) \in SUBSET Judges
  BY DEF Voters
<1>2. IsFiniteSet(Voters(panelists, choice))
  BY <1>1, FS_Subset
<1>3. Cardinality(Voters(panelists, choice)) \in Nat
  BY <1>2, FS_CardinalityType
<1> QED
  BY <1>2, <1>3 DEF Tally, Voters

(* A tally is zero when nobody voted that way.                             *)
LEMMA TallyZero ==
  ASSUME NEW Judges, IsFiniteSet(Judges), NEW panelists,
         DOMAIN panelists = Judges, NEW choice
  PROVE  Tally(panelists, choice) = 0
           <=> \A p \in Judges : panelists[p] # Voted(choice)
<1>1. Tally(panelists, choice) = 0 <=> Voters(panelists, choice) = {}
  BY TallyType, FS_EmptySet
<1> QED
  BY <1>1 DEF Voters

(* The FAILED that ends aggregate() is never reached: the outcome is FAILED*)
(* only when nobody voted, the case adjudicate() settles nothing for.      *)
THEOREM FailedOnlyWithoutVotes ==
  ASSUME NEW Judges, IsFiniteSet(Judges),
         NEW panelists \in [Judges -> PanelistVerdicts]
  PROVE  Aggregate(panelists).outcome = "FAILED"
           <=> \A p \in Judges : panelists[p] = FailedPanelist
<1> DEFINE refunds  == Tally(panelists, "REFUND")
           rejects  == Tally(panelists, "REJECT")
           abstains == Tally(panelists, "ABSTAIN")
<1>1. refunds \in Nat /\ rejects \in Nat /\ abstains \in Nat
  BY TallyType
<1>2. (\A p \in Judges : panelists[p] = FailedPanelist)
        <=> refunds = 0 /\ rejects = 0 /\ abstains = 0
  <2>1. \A p \in Judges : panelists[p] = FailedPanelist
                           <=> \A choice \in VoteChoices :
                                 panelists[p] # Voted(choice)
    BY DEF PanelistVerdicts, FailedPanelist, Voted
  <2>2. refunds = 0 <=> \A p \in Judges : panelists[p] # Voted("REFUND")
    BY TallyZero
  <2>3. rejects = 0 <=> \A p \in Judges : panelists[p] # Voted("REJECT")
    BY TallyZero
  <2>4. abstains = 0 <=> \A p \in Judges : panelists[p] # Voted("ABSTAIN")
    BY TallyZero
  <2> QED
    BY <2>1, <2>2, <2>3, <2>4 DEF VoteChoices
<1>3. Aggregate(panelists).outcome = "FAILED"
        <=> refunds = 0 /\ rejects = 0 /\ abstains = 0
  <2> HIDE DEF refunds, rejects, abstains
  <2>1. Aggregate(panelists) =
          IF refunds + rejects + abstains = 0 THEN Result("FAILED", 0, 0)
          ELSE IF Majority(refunds) THEN Result("REFUND", refunds, rejects)
          ELSE IF Majority(rejects) THEN Result("REJECT", rejects, refunds)
          ELSE WithoutMajority(refunds, rejects, abstains)
    BY DEF Aggregate, refunds, rejects, abstains
  <2> QED
    BY <1>1, <2>1 DEF WithoutMajority, Majority, Result
<1> QED
  BY <1>2, <1>3

(* Two choices divide the panel: a panelist votes once.                    *)
LEMMA TalliesDisjoint ==
  ASSUME NEW Judges, IsFiniteSet(Judges), NEW panelists,
         DOMAIN panelists = Judges
  PROVE  Tally(panelists, "REFUND") + Tally(panelists, "REJECT")
           <= Cardinality(Judges)
<1> DEFINE F == Voters(panelists, "REFUND")
           A == Voters(panelists, "REJECT")
<1>1. F \cap A = {} /\ F \cup A \in SUBSET Judges
  BY DEF Voters, Voted
<1>2. IsFiniteSet(F) /\ IsFiniteSet(A)
  BY TallyType
<1>3. Cardinality(F \cup A) = Cardinality(F) + Cardinality(A)
  <2>1. Cardinality(F \cup A)
          = Cardinality(F) + Cardinality(A) - Cardinality(F \cap A)
    BY <1>2, FS_Union
  <2>2. Cardinality(F \cap A) = 0
    BY <1>1, FS_EmptySet
  <2>3. Cardinality(F) \in Nat /\ Cardinality(A) \in Nat
    BY <1>2, FS_CardinalityType
  <2> QED
    BY <2>1, <2>2, <2>3
<1>4. Cardinality(F \cup A) <= Cardinality(Judges)
  BY <1>1, FS_Subset
<1> QED
  BY <1>3, <1>4, TallyType

(* A panel of three never decides against the votes: a REFUND has more of  *)
(* them than a REJECT, a REJECT at least as many as a REFUND, and an       *)
(* ABSTAIN stands for neither a REJECT nor two REFUNDs.                    *)
THEOREM OutcomeBackedByVotes ==
  ASSUME NEW Judges, IsFiniteSet(Judges), Cardinality(Judges) <= 3,
         NEW panelists, DOMAIN panelists = Judges
  PROVE  LET outcome == Aggregate(panelists).outcome
             refunds == Tally(panelists, "REFUND")
             rejects == Tally(panelists, "REJECT")
         IN  /\ outcome \in Outcomes
             /\ outcome = "REFUND" => refunds > rejects
             /\ outcome = "REJECT" => rejects > 0 /\ rejects >= refunds
             /\ outcome \in {"ABSTAIN", "FAILED"} => rejects = 0 /\ refunds < 2
<1> DEFINE refunds  == Tally(panelists, "REFUND")
           rejects  == Tally(panelists, "REJECT")
           abstains == Tally(panelists, "ABSTAIN")
<1>1. refunds \in Nat /\ rejects \in Nat /\ abstains \in Nat
  BY TallyType
<1>2. refunds + rejects <= 3
  BY <1>1, TalliesDisjoint, FS_CardinalityType
<1>3. Aggregate(panelists) =
        IF refunds + rejects + abstains = 0 THEN Result("FAILED", 0, 0)
        ELSE IF Majority(refunds) THEN Result("REFUND", refunds, rejects)
        ELSE IF Majority(rejects) THEN Result("REJECT", rejects, refunds)
        ELSE WithoutMajority(refunds, rejects, abstains)
  BY DEF Aggregate
<1> DEFINE outcome == Aggregate(panelists).outcome
<1> SUFFICES /\ outcome \in Outcomes
             /\ outcome = "REFUND" => refunds > rejects
             /\ outcome = "REJECT" => rejects > 0 /\ rejects >= refunds
             /\ outcome \in {"ABSTAIN", "FAILED"} => rejects = 0 /\ refunds < 2
  OBVIOUS
<1> HIDE DEF refunds, rejects, abstains
<1>4. outcome \in Outcomes
  BY <1>1, <1>3
     DEF WithoutMajority, Majority, Result, Outcomes, VoteChoices
<1>5. outcome = "REFUND" => refunds > rejects
  BY <1>1, <1>2, <1>3 DEF WithoutMajority, Majority, Result
<1>6. outcome = "REJECT" => rejects > 0 /\ rejects >= refunds
  BY <1>1, <1>2, <1>3 DEF WithoutMajority, Majority, Result
<1>7. outcome \in {"ABSTAIN", "FAILED"} => rejects = 0 /\ refunds < 2
  BY <1>1, <1>2, <1>3 DEF WithoutMajority, Majority, Result
<1> QED
  BY <1>4, <1>5, <1>6, <1>7

(* What a change of one vote does to the tallies.                          *)
LEMMA OneMoreVote ==
  ASSUME NEW Judges, IsFiniteSet(Judges), NEW panelists,
         DOMAIN panelists = Judges, NEW choice \in VoteChoices,
         NEW p \in Judges, panelists[p] # Voted(choice),
         NEW after, DOMAIN after = Judges, after[p] = Voted(choice),
         \A q \in Judges \ {p} : after[q] = panelists[q]
  PROVE  /\ Tally(after, choice) = Tally(panelists, choice) + 1
         /\ \A other \in VoteChoices \ {choice} :
              Tally(after, other) <= Tally(panelists, other)
<1>2. Voters(after, choice) = Voters(panelists, choice) \cup {p}
  BY DEF Voters
<1>3. p \notin Voters(panelists, choice)
  BY DEF Voters
<1>4. Tally(after, choice) = Tally(panelists, choice) + 1
  <2>1. Cardinality(Voters(after, choice))
          = Cardinality(Voters(panelists, choice)) + 1
    <3>1. IsFiniteSet(Voters(panelists, choice))
      BY TallyType
    <3> QED
      BY <1>2, <1>3, <3>1, FS_AddElement
  <2> QED
    BY <2>1, TallyType
<1>5. ASSUME NEW other \in VoteChoices \ {choice}
      PROVE  Tally(after, other) <= Tally(panelists, other)
  <2>1. Voters(after, other) \in SUBSET Voters(panelists, other)
    BY DEF Voters, Voted
  <2>2. Cardinality(Voters(after, other))
          <= Cardinality(Voters(panelists, other))
    BY <2>1, TallyType, FS_Subset
  <2> QED
    BY <2>2, TallyType
<1> QED
  BY <1>4, <1>5

(* Two panels that differ in one panelist, who votes for the side that won *)
(* with the first: it wins with the second as well.                        *)
LEMMA WinnerKeepsWinning ==
  ASSUME NEW Judges, IsFiniteSet(Judges),
         NEW panelists \in [Judges -> PanelistVerdicts],
         NEW after \in [Judges -> PanelistVerdicts], NEW p \in Judges,
         NEW choice \in {"REFUND", "REJECT"},
         after[p] = Voted(choice),
         \A q \in Judges \ {p} : after[q] = panelists[q],
         Aggregate(panelists).outcome = choice
  PROVE  Aggregate(after).outcome = choice
<1>1. CASE panelists[p] = Voted(choice)
  <2>1. after = panelists
    BY <1>1
  <2> QED
    BY <2>1
<1>2. CASE panelists[p] # Voted(choice)
  <2>1. DOMAIN after = Judges
    OBVIOUS
  <2>2. /\ Tally(after, choice) = Tally(panelists, choice) + 1
        /\ \A other \in VoteChoices \ {choice} :
             Tally(after, other) <= Tally(panelists, other)
    <3>1. choice \in VoteChoices /\ DOMAIN panelists = Judges
      BY DEF VoteChoices
    <3>2. \A q \in Judges \ {p} : after[q] = panelists[q]
      OBVIOUS
    <3> QED
      BY ONLY IsFiniteSet(Judges), p \in Judges, after[p] = Voted(choice),
              <1>2, <2>1, <3>1, <3>2, OneMoreVote
  <2>3. \A c \in VoteChoices :
          Tally(panelists, c) \in Nat /\ Tally(after, c) \in Nat
    BY <2>1, TallyType
  <2>4. CASE choice = "REFUND"
    <3>1. Tally(panelists, "REFUND") >= 1
      BY <2>3, <2>4
         DEF Aggregate, WithoutMajority, Majority, Result, VoteChoices
    <3>2. Tally(after, "REFUND") >= 2
      BY <2>2, <2>3, <2>4, <3>1 DEF VoteChoices
    <3> QED
      BY <2>3, <2>4, <3>2 DEF Aggregate, Majority, Result, VoteChoices
  <2>5. CASE choice = "REJECT"
    <3>1. Tally(panelists, "REJECT") >= 1 /\ Tally(panelists, "REFUND") < 2
      BY <2>3, <2>5
         DEF Aggregate, WithoutMajority, Majority, Result, VoteChoices
    <3>2. Tally(after, "REJECT") >= 2 /\ Tally(after, "REFUND") < 2
      BY <2>2, <2>3, <2>5, <3>1 DEF VoteChoices
    <3> QED
      BY <2>3, <2>5, <3>2 DEF Aggregate, Majority, Result, VoteChoices
  <2> QED
    BY <2>4, <2>5
<1> QED
  BY <1>1, <1>2

(* One more vote for the winning side never loses it the dispute.          *)
THEOREM OneMoreVoteKeepsOutcome ==
  ASSUME NEW Judges, IsFiniteSet(Judges),
         NEW panelists \in [Judges -> PanelistVerdicts], NEW p \in Judges,
         NEW choice \in {"REFUND", "REJECT"},
         Aggregate(panelists).outcome = choice
  PROVE  Aggregate([panelists EXCEPT ![p] = Voted(choice)]).outcome = choice
<1> DEFINE after == [panelists EXCEPT ![p] = Voted(choice)]
<1>1. Voted(choice) \in PanelistVerdicts
  BY DEF PanelistVerdicts, VoteChoices
<1>2. /\ after \in [Judges -> PanelistVerdicts]
      /\ after[p] = Voted(choice)
      /\ \A q \in Judges \ {p} : after[q] = panelists[q]
  BY <1>1
<1> HIDE DEF after
<1>3. Aggregate(after).outcome = choice
  BY <1>2, WinnerKeepsWinning
<1> QED
  BY <1>3 DEF after

-----------------------------------------------------------------------------
(* The calls are distinct: a call is made by one place in adjudicate().    *)
LEMMA CallKinds ==
  /\ VoteUpdates \subseteq Calls /\ StepUpdates \subseteq Calls
  /\ Verdict \in Calls
  /\ Verdict \notin VoteUpdates /\ Verdict \notin StepUpdates
  /\ VoteUpdates \cap StepUpdates = {}
<1>1. /\ \A c \in VoteUpdates : c.kind = "vote-update"
      /\ \A c \in StepUpdates : c.kind = "settlement-step"
      /\ Verdict.kind = "verdict"
  BY DEF VoteUpdates, StepUpdates, VoteUpdate, SettlementStep, Verdict
<1> QED
  BY <1>1 DEF Calls

LEMMA VoteUpdateIs ==
  /\ \A p \in Panel, s \in {"REASONING", "VOTED", "FAILED"} :
       /\ VoteUpdate(p, s) \in VoteUpdates
       /\ VoteUpdate(p, s) \in Calls
       /\ VoteUpdate(p, s).subject = p /\ VoteUpdate(p, s).status = s
  /\ \A c \in VoteUpdates :
       /\ c.subject \in Panel /\ c.status \in {"REASONING", "VOTED", "FAILED"}
       /\ c = VoteUpdate(c.subject, c.status)
<1>1. \A p \in Panel, s \in {"REASONING", "VOTED", "FAILED"} :
        /\ VoteUpdate(p, s) \in VoteUpdates
        /\ VoteUpdate(p, s).subject = p /\ VoteUpdate(p, s).status = s
  BY DEF VoteUpdates, VoteUpdate
<1>2. ASSUME NEW c \in VoteUpdates
      PROVE  /\ c.subject \in Panel
             /\ c.status \in {"REASONING", "VOTED", "FAILED"}
             /\ c = VoteUpdate(c.subject, c.status)
  <2>1. PICK p \in Panel, s \in {"REASONING", "VOTED", "FAILED"} :
          c = VoteUpdate(p, s)
    BY DEF VoteUpdates
  <2> QED
    BY <1>1, <2>1
<1> QED
  BY <1>1, <1>2, CallKinds

LEMMA StepCallIs ==
  /\ \A k \in 1..8 : StepCall(k) \in StepUpdates /\ StepCall(k) \in Calls
  /\ \A j, k \in 1..8 : StepCall(j) = StepCall(k) => j = k
<1> DEFINE half(k) == (k + 1) \div 2
           stage(k) == IF k % 2 = 1 THEN "IN_PROGRESS" ELSE "COMPLETED"
<1>1. \A k \in 1..8 : half(k) \in 1..4 /\ (k = 2 * half(k) \/ k = 2 * half(k) - 1)
  OBVIOUS
<1>2. \A k \in 1..8 : /\ k = 2 * half(k) => k % 2 = 0
                      /\ k = 2 * half(k) - 1 => k % 2 = 1
  OBVIOUS
<1>3. \A k \in 1..8 : /\ StepCall(k).subject = half(k)
                      /\ StepCall(k).status = stage(k)
                      /\ StepCall(k) = SettlementStep(half(k), stage(k))
  BY DEF StepCall, SettlementStep
<1> HIDE DEF half
<1>4. \A k \in 1..8 : StepCall(k) \in StepUpdates
  BY <1>1, <1>3 DEF StepUpdates
<1>5. \A j, k \in 1..8 : StepCall(j) = StepCall(k) => j = k
  BY <1>1, <1>2, <1>3
<1> QED
  BY <1>4, <1>5, CallKinds

(* What WithSent and Moved do to the state of a call.                      *)
LEMMA SentValue ==
  ASSUME NEW requests \in [Calls -> RequestStates], NEW next \in SUBSET Calls
  PROVE  /\ WithSent(requests, next) \in [Calls -> RequestStates]
         /\ \A c \in Calls : WithSent(requests, next)[c] =
                               IF c \in next THEN "Sent" ELSE requests[c]
BY DEF WithSent, RequestStates

(* What a call that returns or throws does to the others.                  *)
LEMMA ReturnsEffect ==
  ASSUME request \in [Calls -> RequestStates], NEW c \in Calls,
         NEW next \in SUBSET Calls, Returns(c, next)
  PROVE  /\ request[c] = "Handled"
         /\ request' \in [Calls -> RequestStates]
         /\ \A d \in Calls :
              request'[d] = IF d \in next THEN "Sent" ELSE request[d]
BY SentValue DEF Returns

LEMMA ThrowsEffect ==
  ASSUME request \in [Calls -> RequestStates], NEW c \in Calls,
         NEW next \in SUBSET Calls, Throws(c, next)
  PROVE  /\ request[c] # "None"
         /\ request' \in [Calls -> RequestStates]
         /\ \A d \in next : request'[d] = "Sent"
         /\ \A d \in Calls \ (next \cup {c}) : request'[d] = request[d]
         /\ c \notin next =>
              \/ /\ "unreachable" \in Faults
                 /\ request[c] = "Sent" /\ request'[c] = "Lost"
              \/ "responseLost" \in Faults /\ request'[c] = request[c]
<1>1. CASE "unreachable" \in Faults /\ request[c] = "Sent"
           /\ request' = WithSent([request EXCEPT ![c] = "Lost"], next)
  <2> DEFINE lost == [request EXCEPT ![c] = "Lost"]
  <2>1. /\ lost \in [Calls -> RequestStates]
        /\ lost[c] = "Lost" /\ \A d \in Calls \ {c} : lost[d] = request[d]
    BY DEF RequestStates
  <2>2. request' = WithSent(lost, next)
    BY <1>1
  <2> HIDE DEF lost
  <2>3. /\ request' \in [Calls -> RequestStates]
        /\ \A d \in Calls :
             request'[d] = IF d \in next THEN "Sent" ELSE lost[d]
    BY <2>1, <2>2, SentValue
  <2> QED
    BY <1>1, <2>1, <2>3
<1>2. CASE "responseLost" \in Faults
           /\ request[c] \in {"Sent", "Handled"} \cup InHandler
           /\ request' = WithSent(request, next)
  BY <1>2, SentValue DEF InHandler
<1> QED
  BY <1>1, <1>2 DEF Throws

LEMMA SettledEffect ==
  ASSUME request \in [Calls -> RequestStates], NEW c \in Calls, Settled(c)
  PROVE  /\ request[c] # "None"
         /\ request' \in [Calls -> RequestStates]
         /\ \A d \in Calls \ {c} : request'[d] = request[d]
         /\ \/ request[c] = "Handled" /\ request'[c] = "Handled"
            \/ /\ "unreachable" \in Faults
               /\ request[c] = "Sent" /\ request'[c] = "Lost"
            \/ "responseLost" \in Faults /\ request'[c] = request[c]
<1>1. CASE Returns(c, {})
  BY <1>1, ReturnsEffect
<1>2. CASE Throws(c, {})
  BY <1>2, ThrowsEffect
<1> QED
  BY <1>1, <1>2 DEF Settled

LEMMA SendsEffect ==
  ASSUME request \in [Calls -> RequestStates], NEW next \in SUBSET Calls,
         Sends(next)
  PROVE  /\ request' \in [Calls -> RequestStates]
         /\ \A d \in Calls :
              request'[d] = IF d \in next THEN "Sent" ELSE request[d]
BY SentValue DEF Sends

-----------------------------------------------------------------------------
(* The inductive invariant.  Whoever works for the dispute was asked to ... *)
Flow ==
  /\ phase # "Idle" => trigger = "Accepted"
  /\ Known <=> (trigger # "None" /\ ~setting.numericID)
  /\ phase \in {"Idle", "NoModels"} =>
       /\ \A c \in Calls : request[c] = "None"
       /\ \A p \in Panel : member[p] = "Idle"
  /\ \A c \in VoteUpdates :
       request[c] \in InHandler => Known /\ c.status = "REASONING"

(* ... a panelist that concluded has a verdict, and its final notification *)
(* tells that one ...                                                      *)
Concluding ==
  \A p \in Panel :
    /\ verdicts[p] # None <=> member[p] \in {"Reporting", "Reported"}
    /\ \A s \in {"VOTED", "FAILED"} :
         request[VoteUpdate(p, s)] # "None" =>
           verdicts[p] # None /\ verdicts[p].status = s

(* ... once the panel was left, its verdicts and their aggregate stand, and*)
(* nothing that depends on them was there before ...                       *)
Convened == phase \in {"Idle", "Panel", "NoModels"}
Undecided ==
  /\ aggregate = None /\ ruling = None
  /\ request[Verdict] = "None"
  /\ \A k \in 1..8 : request[StepCall(k)] = "None"
  /\ verdict = None /\ \A party \in Parties : reputation[party] = None
Decided == PanelComplete /\ aggregate = Aggregate(verdicts)

Decision ==
  /\ Convened => Undecided
  /\ ~Convened /\ phase # "Crashed" => Decided
  /\ phase = "Crashed" => Undecided \/ Decided
  /\ phase \in {"Bundle", "Keeper"} => request[Verdict] = "None"
  /\ phase = "Settle" => stepCalls # 0

(* ... the keeper was handed the ruling of that aggregate, before apps/api *)
(* was told ...                                                            *)
Ruled ==
  /\ ruling # None =>
       ruling = RulingForOutcome(aggregate.outcome) /\ setting.numericID
  /\ setting.keeper /\ (phase = "Verdict" \/ request[Verdict] # "None") =>
       ruling # None

(* ... and what is stored and announced is of that aggregate as well.      *)
Stored ==
  /\ verdict # None => verdict = [aggregate EXCEPT !.outcome = StoredOutcome(@)]
  /\ verdict # None \/ {status, announced} \cap Terminal # {} =>
       request[Verdict] # "None"
  /\ \A shown \in {status, announced} \cap Terminal :
       shown = FinalStatus(aggregate.outcome)

Inv == TypeOK /\ Flow /\ Concluding /\ Decision /\ Ruled /\ Stored

-----------------------------------------------------------------------------
LEMMA AggregateType ==
  ASSUME NEW panelists \in [Panel -> PanelistVerdicts]
  PROVE  Aggregate(panelists) \in Results
<1> DEFINE refunds  == Tally(panelists, "REFUND")
           rejects  == Tally(panelists, "REJECT")
           abstains == Tally(panelists, "ABSTAIN")
<1>1. refunds \in Nat /\ rejects \in Nat /\ abstains \in Nat
  BY AdjudicationAssumption, TallyType
<1>2. Cardinality(Panel) \in Nat /\ refunds + rejects <= Cardinality(Panel)
  BY AdjudicationAssumption, TalliesDisjoint, FS_CardinalityType
<1>3. refunds \in 0..3 /\ rejects \in 0..3
  BY <1>1, <1>2, AdjudicationAssumption
<1>4. Aggregate(panelists) =
        IF refunds + rejects + abstains = 0 THEN Result("FAILED", 0, 0)
        ELSE IF Majority(refunds) THEN Result("REFUND", refunds, rejects)
        ELSE IF Majority(rejects) THEN Result("REJECT", rejects, refunds)
        ELSE WithoutMajority(refunds, rejects, abstains)
  BY DEF Aggregate
<1>5. \A o \in Outcomes, f \in 0..3, a \in 0..3 : Result(o, f, a) \in Results
  BY DEF Results
<1> HIDE DEF refunds, rejects, abstains
<1>6. WithoutMajority(refunds, rejects, abstains) \in
        {Result("REJECT", 1, 1), Result("ABSTAIN", 0, 0),
         Result("REJECT", 1, 0), Result("REFUND", 1, 0),
         Result("FAILED", 0, 0)}
  BY DEF WithoutMajority
<1> QED
  BY <1>3, <1>4, <1>5, <1>6 DEF Outcomes, VoteChoices

LEMMA InvInit == Init => Inv
<1> SUFFICES ASSUME Init PROVE Inv
  OBVIOUS
<1> USE DEF Init, AdjudicationInit, NoRows
<1>1. TypeOK
  BY DEF TypeOK, AdjudicationTypeOK, CallbackTypeOK, RequestStates,
         MemberStates, PanelVotes, PendingVote, VoteStatuses, VoteChoices,
         StepStatuses, LastStepCall, Triggers
<1>2. Flow
  BY CallKinds DEF Flow, Known, InHandler
<1>3. Concluding
  BY VoteUpdateIs DEF Concluding
<1>4. Decision
  BY CallKinds, StepCallIs DEF Decision, Convened, Undecided
<1>5. Ruled
  BY CallKinds DEF Ruled
<1>6. Stored
  BY CallbackAssumption DEF Stored, Terminal, DisputeStatuses
<1> QED
  BY <1>1, <1>2, <1>3, <1>4, <1>5, <1>6 DEF Inv

LEMMA FileKeepsInv == Inv /\ File => Inv'
<1> SUFFICES ASSUME Inv, File PROVE Inv'
  OBVIOUS
<1> USE DEF Inv, adjudicationVars, callbackVars
<1>1. /\ UNCHANGED <<adjudicationVars, votes, verdict, steps, announced>>
      /\ trigger = "None" /\ trigger' = "Posting"
      /\ ~Known /\ phase = "Idle"
      /\ \/ ~setting.numericID /\ status' = "PENDING"
         \/ setting.numericID /\ status' = status
  BY DEF File, Create, RaisedOnChain, Flow
<1>2. TypeOK'
  BY <1>1 DEF TypeOK, AdjudicationTypeOK, CallbackTypeOK, Triggers,
              DisputeStatuses
<1>3. Flow'
  BY <1>1, CallbackAssumption, CallKinds
     DEF Flow, Known, DisputeStatuses, InHandler
<1>4. Concluding' /\ Ruled'
  BY <1>1 DEF Concluding, Ruled
<1>5. Decision'
  BY <1>1 DEF Decision, Convened, Undecided, Decided, PanelComplete
<1>6. Stored'
  BY <1>1 DEF Stored, Terminal
<1> QED
  BY <1>2, <1>3, <1>4, <1>5, <1>6

LEMMA TriggerKeepsInv == Inv /\ Trigger => Inv'
<1> SUFFICES ASSUME Inv, Trigger PROVE Inv'
  OBVIOUS
<1> USE DEF Inv, adjudicationVars, callbackVars
<1>1. /\ UNCHANGED <<adjudicationVars, callbackVars>>
      /\ trigger = "Posting" /\ trigger' \in {"Accepted", "Lost"}
  BY DEF Trigger, Accept, TriggerLost
<1>2. TypeOK'
  BY <1>1 DEF TypeOK, AdjudicationTypeOK, CallbackTypeOK, Triggers
<1>3. Flow'
  BY <1>1 DEF Flow, Known
<1>4. Concluding' /\ Ruled'
  BY <1>1 DEF Concluding, Ruled
<1>5. Decision'
  BY <1>1 DEF Decision, Convened, Undecided, Decided, PanelComplete
<1>6. Stored'
  BY <1>1 DEF Stored
<1> QED
  BY <1>2, <1>3, <1>4, <1>5, <1>6

LEMMA StartKeepsInv == Inv /\ Start => Inv'
<1> SUFFICES ASSUME Inv, Start PROVE Inv'
  OBVIOUS
<1> USE DEF Inv, callbackVars
<1>1. CASE Convene
  <2> DEFINE asked == {VoteUpdate(p, "REASONING") : p \in Panel}
  <2>1. /\ asked \subseteq VoteUpdates /\ asked \subseteq Calls
        /\ Verdict \notin asked
        /\ \A k \in 1..8 : StepCall(k) \notin asked
        /\ \A p \in Panel, s \in {"VOTED", "FAILED"} : VoteUpdate(p, s) \notin asked
    BY VoteUpdateIs, StepCallIs, CallKinds
  <2>2. /\ request' \in [Calls -> RequestStates]
        /\ \A d \in Calls :
              request'[d] = IF d \in asked THEN "Sent" ELSE request[d]
    BY <1>1, <2>1, SendsEffect DEF Convene, TypeOK, AdjudicationTypeOK
  <2>3. /\ phase = "Idle" /\ phase' = "Panel"
        /\ member' = [p \in Panel |-> "Reasoning"]
        /\ UNCHANGED <<setting, verdicts, aggregate, stepCalls, ruling,
                       reputation, callbackVars, trigger>>
        /\ trigger = "Accepted"
    BY <1>1 DEF Convene, Start
  <2> HIDE DEF asked
  <2>4. TypeOK'
    BY <2>2, <2>3 DEF TypeOK, AdjudicationTypeOK, CallbackTypeOK, Active,
                      MemberStates
  <2>5. Flow'
    BY <2>2, <2>3, CallKinds DEF Flow, Known, InHandler
  <2>6. Concluding'
    BY <2>1, <2>2, <2>3, VoteUpdateIs DEF Concluding, Flow, TypeOK, AdjudicationTypeOK
  <2>7. Decision'
    BY <2>1, <2>2, <2>3, CallKinds, StepCallIs
       DEF Decision, Convened, Undecided
  <2>8. Ruled' /\ Stored'
    BY <2>1, <2>2, <2>3, CallKinds DEF Ruled, Stored
  <2> QED
    BY <2>4, <2>5, <2>6, <2>7, <2>8
<1>2. CASE NoAvailableModels
  <2>1. /\ phase = "Idle" /\ phase' = "NoModels" /\ trigger = "Accepted"
        /\ UNCHANGED <<request, setting, member, verdicts, aggregate,
                       stepCalls, ruling, reputation, callbackVars, trigger>>
    BY <1>2 DEF NoAvailableModels, Start
  <2>2. TypeOK'
    BY <2>1 DEF TypeOK, AdjudicationTypeOK, CallbackTypeOK, Ended
  <2>3. Flow' /\ Concluding' /\ Ruled' /\ Stored'
    BY <2>1 DEF Flow, Known, Concluding, Ruled, Stored
  <2>4. Decision'
    BY <2>1 DEF Decision, Convened, Undecided
  <2> QED
    BY <2>2, <2>3, <2>4
<1> QED
  BY <1>1, <1>2 DEF Start

LEMMA PanelistKeepsInv ==
  ASSUME Inv, NEW p \in Panel, Panelist(p), UNCHANGED <<callbackVars, trigger>>
  PROVE  Inv'
<1> USE DEF Inv, callbackVars
<1> DEFINE frame == UNCHANGED <<setting, phase, aggregate, stepCalls, ruling,
                                reputation, callbackVars, trigger>>
<1>0. request \in [Calls -> RequestStates] /\ member \in [Panel -> MemberStates]
  BY DEF TypeOK, AdjudicationTypeOK
<1>1. ASSUME NEW c \in VoteUpdates, Settled(c), frame, UNCHANGED verdicts,
             phase = "Panel", member[p] \in {"Reasoning", "Reporting"},
             NEW to \in MemberStates, member' = [member EXCEPT ![p] = to],
             to = IF member[p] = "Reasoning" THEN "Inference" ELSE "Reported"
      PROVE  Inv'
  <2>1. /\ request[c] # "None" /\ request' \in [Calls -> RequestStates]
        /\ \A d \in Calls \ {c} : request'[d] = request[d]
        /\ request'[c] \in {request[c], "Handled", "Lost"}
    BY <1>0, <1>1, SettledEffect, CallKinds
  <2>2. TypeOK'
    BY <1>1, <2>1 DEF TypeOK, AdjudicationTypeOK, CallbackTypeOK, MemberStates
  <2>3. Flow'
    BY <1>0, <1>1, <2>1, CallKinds DEF Flow, Known, InHandler
  <2>4. Concluding'
    BY <1>0, <1>1, <2>1, VoteUpdateIs, CallKinds DEF Concluding
  <2>5. Decision'
    BY <1>1, <2>1, StepCallIs, CallKinds DEF Decision, Convened, Undecided
  <2>6. Ruled' /\ Stored'
    BY <1>1, <2>1, CallKinds DEF Ruled, Stored
  <2> QED
    BY <2>2, <2>3, <2>4, <2>5, <2>6
<1>2. ASSUME RunPanelist(p)
      PROVE  Inv'
  BY <1>1, <1>2, VoteUpdateIs DEF RunPanelist, MemberStates
<1>3. ASSUME NEW v \in PanelistVerdicts, Conclude(p, v)
      PROVE  Inv'
  <2> DEFINE c == VoteUpdate(p, v.status)
  <2>1. v # None /\ v.status \in {"VOTED", "FAILED"}
    BY AdjudicationAssumption DEF PanelistVerdicts, Voted, FailedPanelist
  <2>2. c \in VoteUpdates /\ c.subject = p /\ c.status = v.status
    BY <2>1, VoteUpdateIs
  <2>3. /\ request' \in [Calls -> RequestStates]
        /\ \A d \in Calls : request'[d] = IF d = c THEN "Sent" ELSE request[d]
    BY <1>0, <1>3, <2>2, SendsEffect, CallKinds DEF Conclude
  <2>4. /\ frame /\ phase = "Panel" /\ member[p] = "Inference"
        /\ verdicts' = [verdicts EXCEPT ![p] = v]
        /\ member' = [member EXCEPT ![p] = "Reporting"]
    BY <1>3 DEF Conclude
  <2> HIDE DEF c
  <2>5. TypeOK'
    BY <1>3, <2>3, <2>4
       DEF TypeOK, AdjudicationTypeOK, CallbackTypeOK, MemberStates
  <2>6. Flow'
    BY <2>2, <2>3, <2>4, CallKinds DEF Flow, Known, InHandler
  <2>7. Concluding'
    <3> SUFFICES ASSUME NEW q \in Panel
                 PROVE  /\ verdicts'[q] # None <=>
                             member'[q] \in {"Reporting", "Reported"}
                        /\ \A s \in {"VOTED", "FAILED"} :
                             request'[VoteUpdate(q, s)] # "None" =>
                               verdicts'[q] # None /\ verdicts'[q].status = s
      BY DEF Concluding
    <3>1. verdicts \in [Panel -> PanelistVerdicts \cup {None}]
      BY DEF TypeOK, AdjudicationTypeOK
    <3>2. verdicts[p] = None
      BY <2>4 DEF Concluding
    <3>3. CASE q = p
      BY <1>0, <2>1, <2>2, <2>3, <2>4, <3>1, <3>2, <3>3, VoteUpdateIs
         DEF Concluding
    <3>4. CASE q # p
      BY <1>0, <2>2, <2>3, <2>4, <3>1, <3>4, VoteUpdateIs DEF Concluding
    <3> QED
      BY <3>3, <3>4
  <2>8. Decision'
    BY <2>2, <2>3, <2>4, StepCallIs, CallKinds
       DEF Decision, Convened, Undecided
  <2>9. Ruled' /\ Stored'
    BY <2>2, <2>3, <2>4, CallKinds DEF Ruled, Stored
  <2> QED
    BY <2>5, <2>6, <2>7, <2>8, <2>9
<1>4. ASSUME Report(p)
      PROVE  Inv'
  <2>1. verdicts[p] \in PanelistVerdicts
    BY <1>0, <1>4 DEF Report, Concluding, TypeOK, AdjudicationTypeOK
  <2>2. VoteUpdate(p, verdicts[p].status) \in VoteUpdates
    BY <2>1, VoteUpdateIs DEF PanelistVerdicts, Voted, FailedPanelist
  <2> QED
    BY <1>1, <1>4, <2>2 DEF Report, MemberStates
<1>5. FailedPanelist \in PanelistVerdicts
      /\ \A choice \in VoteChoices : Voted(choice) \in PanelistVerdicts
  BY DEF PanelistVerdicts
<1> QED
  BY <1>2, <1>3, <1>4, <1>5 DEF Panelist, Answer, FailOrTimeout

LEMMA DecideKeepsInv ==
  ASSUME Inv, Decide, UNCHANGED <<callbackVars, trigger>>
  PROVE  Inv'
<1> USE DEF Inv, callbackVars
<1>0. request \in [Calls -> RequestStates]
  BY DEF TypeOK, AdjudicationTypeOK
<1>1. CASE AggregateVotes
  <2>1. /\ phase = "Panel" /\ phase' = "Bundle" /\ PanelComplete
        /\ aggregate' = Aggregate(verdicts)
        /\ UNCHANGED <<setting, request, member, verdicts, stepCalls, ruling,
                       reputation, callbackVars, trigger>>
    BY <1>1 DEF AggregateVotes
  <2>2. aggregate' \in Results
    <3>1. verdicts \in [Panel -> PanelistVerdicts]
      BY <2>1 DEF PanelComplete, Concluding, TypeOK, AdjudicationTypeOK
    <3> QED
      BY <2>1, <3>1, AggregateType
  <2>3. TypeOK'
    BY <2>1, <2>2 DEF TypeOK, AdjudicationTypeOK, CallbackTypeOK, Active
  <2>4. Flow' /\ Concluding'
    BY <2>1 DEF Flow, Known, Concluding
  <2>5. Decision'
    BY <2>1 DEF Decision, Convened, Undecided, Decided, PanelComplete
  <2>6. Ruled' /\ Stored'
    BY <2>1 DEF Ruled, Stored, Decision, Convened, Undecided
  <2> QED
    BY <2>3, <2>4, <2>5, <2>6
<1>2. CASE PersistVerdictBundle
  <2>1. /\ phase = "Bundle" /\ phase' \in {"Keeper", "Verdict"}
        /\ phase' = "Verdict" => ~setting.keeper
        /\ UNCHANGED <<setting, member, verdicts, aggregate, stepCalls, ruling,
                       reputation, callbackVars, trigger>>
        /\ \/ phase' = "Keeper" /\ Sends({})
           \/ phase' = "Verdict" /\ Sends({Verdict})
    BY <1>2 DEF PersistVerdictBundle, SubmitsOnChain
  <2>2. /\ request' \in [Calls -> RequestStates]
        /\ \A d \in Calls : request'[d] =
             IF d = Verdict /\ phase' = "Verdict" THEN "Sent" ELSE request[d]
    BY <1>0, <2>1, SendsEffect, CallKinds
  <2>3. TypeOK'
    BY <2>1, <2>2 DEF TypeOK, AdjudicationTypeOK, CallbackTypeOK, Active
  <2>4. Flow' /\ Concluding'
    BY <2>1, <2>2, CallKinds, VoteUpdateIs DEF Flow, Known, Concluding, InHandler
  <2>5. Decision'
    BY <2>1, <2>2, CallKinds
       DEF Decision, Convened, Undecided, Decided, PanelComplete
  <2>6. Ruled' /\ Stored'
    BY <2>1, <2>2, CallKinds DEF Ruled, Stored, Decision
  <2> QED
    BY <2>3, <2>4, <2>5, <2>6
<1>3. CASE BundleNotStored
  <2>1. /\ phase = "Bundle" /\ phase' = "StorageFailed"
        /\ UNCHANGED <<request, setting, member, verdicts, aggregate,
                       stepCalls, ruling, reputation, callbackVars, trigger>>
    BY <1>3 DEF BundleNotStored
  <2>2. TypeOK'
    BY <2>1 DEF TypeOK, AdjudicationTypeOK, CallbackTypeOK, Ended
  <2>3. Flow' /\ Concluding' /\ Ruled' /\ Stored'
    BY <2>1 DEF Flow, Known, Concluding, Ruled, Stored
  <2>4. Decision'
    BY <2>1 DEF Decision, Convened, Undecided, Decided, PanelComplete
  <2> QED
    BY <2>2, <2>3, <2>4
<1> QED
  BY <1>1, <1>2, <1>3 DEF Decide

(* After the panel was left the calls that were made are of no interest to *)
(* the parts that follow, but whether one was made is.                     *)
LEMMA LaterCallKeepsInv ==
  ASSUME Inv, NEW c \in Calls \ VoteUpdates, NEW next \in SUBSET StepUpdates,
         Returns(c, next) \/ Throws(c, next),
         phase \in {"Verdict", "Settle"}, ~Convened',
         phase' \in Active \cup Ended, phase' \notin {"Bundle", "Keeper", "Crashed"},
         phase' = "Verdict" => phase = "Verdict", stepCalls' \in 0..LastStepCall,
         phase' = "Settle" => stepCalls' # 0,
         UNCHANGED <<setting, member, verdicts, aggregate, ruling, reputation,
                     callbackVars, trigger>>
  PROVE  Inv'
<1> USE DEF Inv, callbackVars
<1>1. /\ request' \in [Calls -> RequestStates]
      /\ request[c] # "None"
      /\ \A d \in next : request'[d] = "Sent"
      /\ \A d \in Calls \ (next \cup {c}) : request'[d] = request[d]
  <2>1. request \in [Calls -> RequestStates] /\ next \in SUBSET Calls
    BY CallKinds DEF TypeOK, AdjudicationTypeOK
  <2> QED
    BY <2>1, ReturnsEffect, ThrowsEffect
<1>2. \A d \in VoteUpdates : request'[d] = request[d]
  BY <1>1, CallKinds
<1>3. request'[Verdict] # "None" => request[Verdict] # "None"
  BY <1>1, CallKinds
<1>4. request[Verdict] # "None" => request'[Verdict] # "None"
  <2>1. CASE c # Verdict
    BY <1>1, <2>1, CallKinds
  <2>2. CASE c = Verdict
    <3>1. request \in [Calls -> RequestStates] /\ next \in SUBSET Calls
          /\ c \notin next
      BY <2>2, CallKinds DEF TypeOK, AdjudicationTypeOK
    <3> QED
      BY <2>2, <3>1, ReturnsEffect, ThrowsEffect
  <2> QED
    BY <2>1, <2>2
<1>5. TypeOK'
  BY <1>1 DEF TypeOK, AdjudicationTypeOK, CallbackTypeOK, Convened
<1>6. Flow' /\ Concluding'
  BY <1>2, VoteUpdateIs DEF Flow, Known, Concluding, InHandler, Convened
<1>7. Decision'
  BY DEF Decision, Convened, Decided, PanelComplete
<1>8. Ruled'
  BY <1>3 DEF Ruled
<1>9. Stored'
  BY <1>4 DEF Stored
<1> QED
  BY <1>5, <1>6, <1>7, <1>8, <1>9

(* A step of adjudicate() that makes no call.                              *)
LEMMA NoCallKeepsInv ==
  ASSUME Inv, ~Convened, ~Convened', phase' \in Active \cup Ended,
         phase' \in {"Bundle", "Keeper", "Verdict", "Settle"} => phase' = phase,
         phase' # "Crashed",
         phase # "Crashed", reputation' \in [Parties -> {"won", "lost", None}],
         UNCHANGED <<request, setting, member, verdicts, aggregate, stepCalls,
                     callbackVars, trigger>>,
         \/ ruling' = ruling
         \/ /\ ruling' = RulingForOutcome(aggregate.outcome)
            /\ setting.numericID /\ request[Verdict] = "None"
  PROVE  Inv'
<1> USE DEF Inv, callbackVars
<1>1. RulingForOutcome(aggregate.outcome) \in 0..2
  BY DEF RulingForOutcome
<1>2. TypeOK'
  BY <1>1 DEF TypeOK, AdjudicationTypeOK, CallbackTypeOK
<1>3. Flow' /\ Concluding' /\ Stored'
  BY DEF Flow, Known, Concluding, Stored, Convened
<1>4. Decision'
  BY DEF Decision, Convened, Decided, PanelComplete
<1>5. Ruled'
  BY <1>1, AdjudicationAssumption DEF Ruled
<1> QED
  BY <1>2, <1>3, <1>4, <1>5

LEMMA SubmitKeepsInv ==
  ASSUME Inv, Submit, UNCHANGED <<callbackVars, trigger>>
  PROVE  Inv'
<1> USE DEF callbackVars
<1>0. request \in [Calls -> RequestStates] /\ stepCalls \in 0..LastStepCall
      /\ reputation \in [Parties -> {"won", "lost", None}]
  BY DEF Inv, TypeOK, AdjudicationTypeOK
<1>1. CASE CreateKeeperRun
  <2>1. /\ phase = "Keeper" /\ phase' = "Verdict" /\ setting.numericID
        /\ ruling' = RulingForOutcome(aggregate.outcome)
        /\ UNCHANGED <<setting, member, verdicts, aggregate, stepCalls,
                       reputation, callbackVars, trigger>>
    BY <1>1 DEF CreateKeeperRun
  <2>2. /\ request' \in [Calls -> RequestStates]
        /\ \A d \in Calls :
             request'[d] = IF d = Verdict THEN "Sent" ELSE request[d]
    BY <1>0, <1>1, SendsEffect, CallKinds DEF CreateKeeperRun
  <2>3. ruling' \in 0..2 /\ ruling' # None
    BY <2>1, AdjudicationAssumption DEF RulingForOutcome
  <2>4. TypeOK'
    BY <2>1, <2>2, <2>3
       DEF Inv, TypeOK, AdjudicationTypeOK, CallbackTypeOK, Active
  <2>5. Flow' /\ Concluding'
    BY <2>1, <2>2, CallKinds, VoteUpdateIs
       DEF Inv, Flow, Known, Concluding, InHandler
  <2>6. Decision'
    BY <2>1 DEF Inv, Decision, Convened, Decided, PanelComplete
  <2>7. Ruled' /\ Stored'
    BY <2>1, <2>2, <2>3, CallKinds DEF Inv, Ruled, Stored, Decision
  <2> QED
    BY <2>4, <2>5, <2>6, <2>7 DEF Inv
<1>2. CASE KeeperFails
  <2>1. request[Verdict] = "None"
    BY <1>2 DEF KeeperFails, Inv, Decision
  <2> QED
    BY <1>0, <1>2, <2>1, NoCallKeepsInv
       DEF KeeperFails, EncodingFails, InvokeFails, Convened, Ended
<1>3. CASE VerdictSubmitted
  <2> DEFINE next == IF Settles THEN {StepCall(1)} ELSE {}
  <2>1. /\ next \subseteq StepUpdates /\ Cardinality(next) \in 0..LastStepCall
        /\ Settles => Cardinality(next) # 0
    <3>1. StepCall(1) \in StepUpdates
      BY StepCallIs
    <3>2. Cardinality({}) = 0 /\ Cardinality({StepCall(1)}) = 1
      BY FS_EmptySet, FS_Singleton
    <3> QED
      BY <3>1, <3>2 DEF LastStepCall
  <2>2. /\ phase = "Verdict" /\ phase' = IF Settles THEN "Settle" ELSE "Done"
        /\ Returns(Verdict, next) \/ Throws(Verdict, next)
        /\ stepCalls' = Cardinality(next)
        /\ UNCHANGED <<setting, member, verdicts, aggregate, ruling,
                       reputation, callbackVars, trigger>>
    BY <1>3 DEF VerdictSubmitted
  <2> HIDE DEF next
  <2> QED
    BY <2>1, <2>2, CallKinds, LaterCallKeepsInv DEF Convened, Active, Ended
<1>4. CASE SubmitFails
  BY <1>0, <1>4, CallKinds, LaterCallKeepsInv
     DEF SubmitFails, Convened, Ended
<1> QED
  BY <1>1, <1>2, <1>3, <1>4 DEF Submit

LEMMA SettleKeepsInv ==
  ASSUME Inv, Settle, UNCHANGED <<callbackVars, trigger>>
  PROVE  Inv'
<1> USE DEF callbackVars
<1>0. /\ stepCalls \in 0..LastStepCall
      /\ reputation \in [Parties -> {"won", "lost", None}]
  BY DEF Inv, TypeOK, AdjudicationTypeOK
<1>1. phase = "Settle" => /\ stepCalls \in 1..8
                          /\ StepCall(stepCalls) \in Calls \ VoteUpdates
  <2>1. phase = "Settle" => stepCalls \in 1..8
    BY <1>0 DEF Inv, Decision, LastStepCall
  <2> QED
    BY <2>1, StepCallIs, CallKinds
<1>2. CASE NextStepCall
  <2> DEFINE last == stepCalls = LastStepCall
             next == IF last THEN {} ELSE {StepCall(stepCalls + 1)}
  <2>1. /\ phase = "Settle"
        /\ Returns(StepCall(stepCalls), next)
        /\ stepCalls' = stepCalls + Cardinality(next)
        /\ phase' = IF last THEN "Reputation" ELSE phase
        /\ UNCHANGED <<setting, member, verdicts, aggregate, ruling,
                       reputation, callbackVars, trigger>>
    BY <1>2 DEF NextStepCall
  <2>2. /\ ~last => stepCalls + 1 \in 1..8
        /\ Cardinality(next) = IF last THEN 0 ELSE 1
    BY <1>1, <2>1, FS_EmptySet, FS_Singleton DEF LastStepCall
  <2>3. next \subseteq StepUpdates
    BY <2>2, StepCallIs
  <2>4. /\ stepCalls' \in 0..LastStepCall /\ stepCalls' # 0
        /\ phase' \in {"Settle", "Reputation"}
    BY <1>1, <2>1, <2>2 DEF LastStepCall
  <2> HIDE DEF next, last
  <2> QED
    BY <1>1, <2>1, <2>3, <2>4, LaterCallKeepsInv DEF Convened, Active
<1>3. CASE StepFails
  BY <1>0, <1>1, <1>3, LaterCallKeepsInv DEF StepFails, Convened, Ended
<1>4. CASE WriteReputations
  BY <1>0, <1>4, NoCallKeepsInv
     DEF WriteReputations, Convened, Ended, ReputationOutcome
<1> QED
  BY <1>2, <1>3, <1>4 DEF Settle

LEMMA CrashKeepsInv == Inv /\ PanelCrash => Inv'
<1> SUFFICES ASSUME Inv, PanelCrash PROVE Inv'
  OBVIOUS
<1> USE DEF Inv, callbackVars
<1>1. /\ phase \in Active /\ phase' = "Crashed"
      /\ UNCHANGED <<request, setting, member, verdicts, aggregate, stepCalls,
                     ruling, reputation, callbackVars, trigger>>
  BY DEF PanelCrash, Crash
<1>2. TypeOK'
  BY <1>1 DEF TypeOK, AdjudicationTypeOK, CallbackTypeOK, Ended
<1>3. Flow' /\ Concluding' /\ Ruled' /\ Stored'
  BY <1>1 DEF Flow, Known, Concluding, Ruled, Stored, Active
<1>4. Decision'
  BY <1>1 DEF Decision, Convened, Undecided, Decided, PanelComplete, Active
<1> QED
  BY <1>2, <1>3, <1>4

(* What apps/api is asked to store is of a panel that decided.             *)
LEMMA AskedToStore ==
  ASSUME Inv, request[Verdict] # "None" \/ ~Undecided
  PROVE  /\ Decided /\ verdicts \in [Panel -> PanelistVerdicts]
         /\ aggregate \in Results
<1> USE DEF Inv
<1>1. Decided
  BY DEF Decision, Undecided
<1>2. verdicts \in [Panel -> PanelistVerdicts]
  BY <1>1 DEF Decided, PanelComplete, Concluding, TypeOK, AdjudicationTypeOK
<1> QED
  BY <1>1, <1>2, AggregateType DEF Decided

(* A FAILED result is stored as an ABSTAIN, which the schema has.          *)
LEMMA StoredIsVerdict ==
  ASSUME NEW result \in Results
  PROVE  [result EXCEPT !.outcome = StoredOutcome(@)] \in StoredVerdicts
<1>1. PICK o \in Outcomes, f \in 0..3, a \in 0..3 : result = Result(o, f, a)
  BY DEF Results
<1>2. [result EXCEPT !.outcome = StoredOutcome(@)]
        = Result(StoredOutcome(o), f, a)
  BY <1>1 DEF Result
<1>3. StoredOutcome(o) \in VoteChoices
  BY DEF StoredOutcome, Outcomes, VoteChoices
<1> QED
  BY <1>2, <1>3 DEF StoredVerdicts

(* A handler answers one call and changes the rows and the stream only.    *)
LEMMA HandlerEffect ==
  ASSUME Inv, NEW c \in Calls, Handle(c)
  PROVE  /\ request[c] \in {"Sent"} \cup InHandler
         /\ request' \in [Calls -> RequestStates]
         /\ request'[c] \in {"Handled"} \cup InHandler
         /\ \A d \in Calls \ {c} : request'[d] = request[d]
         /\ UNCHANGED <<setting, phase, member, verdicts, aggregate, stepCalls,
                        ruling, reputation, trigger>>
<1>1. PICK to \in {"Handled"} \cup InHandler : Moved(c, to)
  BY DEF Handle, HandleVote, UpdateVote, VoteNotUpdated, SetAdjudicating,
         AnnounceAdjudicating, HandleVerdict, UpsertVerdict, SetFinalStatus,
         AnnounceFinal, UpdateStep, InHandler
<1>2. request[c] \in {"Sent"} \cup InHandler
  BY DEF Handle, HandleVote, UpdateVote, VoteNotUpdated, SetAdjudicating,
         AnnounceAdjudicating, HandleVerdict, UpsertVerdict, SetFinalStatus,
         AnnounceFinal, UpdateStep, InHandler
<1>3. request \in [Calls -> RequestStates]
  BY DEF Inv, TypeOK, AdjudicationTypeOK
<1> QED
  BY <1>1, <1>2, <1>3 DEF Handle, Moved, RequestStates

(* The parts of the invariant a handler can only keep, whatever it writes. *)
LEMMA HandlerFrame ==
  ASSUME Inv, NEW c \in Calls, Handle(c), CallbackTypeOK', Known' = Known,
         c # Verdict => verdict' = verdict,
         c \in VoteUpdates /\ request'[c] \in InHandler =>
           Known /\ c.status = "REASONING"
  PROVE  TypeOK' /\ Flow' /\ Concluding' /\ Decision' /\ Ruled'
<1> USE DEF Inv
<1>1. /\ request[c] # "None" /\ request'[c] # "None"
      /\ request' \in [Calls -> RequestStates]
      /\ \A d \in Calls \ {c} : request'[d] = request[d]
      /\ UNCHANGED <<setting, phase, member, verdicts, aggregate, stepCalls,
                     ruling, reputation, trigger>>
  BY HandlerEffect DEF InHandler
<1>2. \A d \in Calls : request[d] = "None" <=> request'[d] = "None"
  BY <1>1
<1>3. TypeOK'
  BY <1>1 DEF TypeOK, AdjudicationTypeOK
<1>4. Flow'
  BY <1>1, <1>2, CallKinds DEF Flow, Known
<1>5. Concluding'
  BY <1>1, <1>2, VoteUpdateIs DEF Concluding
<1>6. Decision'
  <2>1. request[Verdict] = "None" <=> request'[Verdict] = "None"
    BY <1>2, CallKinds
  <2>2. Undecided => Undecided'
    BY <1>1, <1>2, <2>1, StepCallIs DEF Undecided
  <2>3. Decided => Decided'
    BY <1>1 DEF Decided, PanelComplete
  <2> QED
    BY <1>1, <2>1, <2>2, <2>3 DEF Decision, Convened
<1>7. Ruled'
  BY <1>1, <1>2, CallKinds DEF Ruled
<1> QED
  BY <1>3, <1>4, <1>5, <1>6, <1>7

LEMMA HandlerKeepsInv ==
  ASSUME Inv, NEW c \in Calls, Handle(c)
  PROVE  Inv'
<1> USE DEF Inv
<1>0. /\ CallbackTypeOK /\ request \in [Calls -> RequestStates]
      /\ request[c] # "None" /\ request'[c] # "None"
      /\ \A d \in Calls \ {c} : request'[d] = request[d]
      /\ aggregate' = aggregate
  BY HandlerEffect DEF TypeOK, AdjudicationTypeOK, InHandler
<1>1. CASE c \in VoteUpdates
  <2>1. HandleVote(c, verdicts[c.subject])
    BY <1>1, CallKinds DEF Handle
  <2>2. /\ UNCHANGED <<verdict, steps>>
        /\ status' = status \/ (Known /\ status' = "ADJUDICATING")
        /\ announced' \in {announced, "ADJUDICATING"}
    BY <1>1, <2>1 DEF HandleVote, UpdateVote, VoteNotUpdated, SetAdjudicating,
         AnnounceAdjudicating, callbackVars, Flow, InHandler
  <2>3. request'[c] \in InHandler => Known /\ c.status = "REASONING"
    BY <1>0, <1>1, <2>1, CallKinds
       DEF HandleVote, UpdateVote, VoteNotUpdated, SetAdjudicating,
           AnnounceAdjudicating, Moved, Flow, InHandler
  <2>4. votes' \in [Rows -> PanelVotes]
    <3>1. CASE UpdateVote(c, verdicts[c.subject])
      <4>1. /\ c.subject \in Panel
            /\ c.status # "REASONING" =>
                 verdicts[c.subject] \in PanelistVerdicts
        BY <1>0, <1>1, VoteUpdateIs
           DEF Concluding, TypeOK, AdjudicationTypeOK
      <4>2. VoteRow(votes[c.subject], c.status, verdicts[c.subject]) \in PanelVotes
        BY <1>0, <3>1, <4>1
           DEF UpdateVote, VoteRow, PanelVotes, VoteStatuses, CallbackTypeOK,
               PanelistVerdicts, Voted, FailedPanelist, VoteChoices
      <4> QED
        BY <1>0, <3>1, <4>2 DEF UpdateVote, CallbackTypeOK
    <3>2. CASE ~UpdateVote(c, verdicts[c.subject])
      BY <1>0, <2>1, <3>2 DEF HandleVote, VoteNotUpdated, SetAdjudicating,
           AnnounceAdjudicating, callbackVars, CallbackTypeOK
    <3> QED
      BY <3>1, <3>2
  <2>5. CallbackTypeOK' /\ Known' = Known
    BY <1>0, <2>2, <2>4, CallbackAssumption
       DEF CallbackTypeOK, Known, DisputeStatuses
  <2>6. Stored'
    BY <1>0, <1>1, <2>2, CallKinds DEF Stored, Terminal
  <2> QED
    BY <1>1, <2>2, <2>3, <2>5, <2>6, HandlerFrame
<1>2. CASE c = Verdict
  <2>1. HandleVerdict(aggregate)
    BY <1>2, CallKinds DEF Handle
  <2>2. aggregate \in Results
    BY <1>0, <1>2, AskedToStore
  <2>3. [aggregate EXCEPT !.outcome = StoredOutcome(@)] \in StoredVerdicts
    BY <2>2, StoredIsVerdict
  <2>4. FinalStatus(aggregate.outcome) \in Terminal
    BY DEF FinalStatus, Terminal
  <2>5. /\ UNCHANGED <<votes, steps>>
        /\ \/ verdict' = verdict
           \/ verdict' = [aggregate EXCEPT !.outcome = StoredOutcome(@)]
        /\ \/ status' = status
           \/ Known /\ status' = FinalStatus(aggregate.outcome)
        /\ announced' \in {announced, FinalStatus(aggregate.outcome)}
    BY <2>1 DEF HandleVerdict, UpsertVerdict, SetFinalStatus, AnnounceFinal,
                StatusAfter
  <2>6. CallbackTypeOK' /\ Known' = Known
    BY <1>0, <2>3, <2>4, <2>5, CallbackAssumption
       DEF CallbackTypeOK, Known, DisputeStatuses
  <2>7. Stored'
    BY <1>0, <1>2, <2>5 DEF Stored
  <2> QED
    BY <1>2, <2>6, <2>7, CallKinds, HandlerFrame
<1>3. CASE c \in StepUpdates
  <2>1. UpdateStep(c)
    BY <1>3, CallKinds DEF Handle
  <2>2. /\ UNCHANGED <<status, votes, verdict, announced>>
        /\ steps' = steps \/ steps' = [steps EXCEPT ![c.subject] = c.status]
    BY <2>1 DEF UpdateStep
  <2>3. c.subject \in 1..4 /\ c.status \in StepStatuses
    BY <1>3 DEF StepUpdates, SettlementStep, StepStatuses
  <2>4. CallbackTypeOK' /\ Known' = Known
    BY <1>0, <2>2, <2>3 DEF CallbackTypeOK, Known
  <2>5. Stored'
    BY <1>0, <1>3, <2>2, CallKinds DEF Stored
  <2> QED
    BY <1>3, <2>2, <2>4, <2>5, CallKinds, HandlerFrame
<1> QED
  BY <1>1, <1>2, <1>3, CallKinds DEF Handle

-----------------------------------------------------------------------------
(* Whatever fails, the invariant holds of every dispute.                   *)
LEMMA UnchangedKeepsInv == Inv /\ UNCHANGED vars => Inv'
BY DEF Inv, vars, adjudicationVars, callbackVars, TypeOK, AdjudicationTypeOK,
       CallbackTypeOK, Flow, Known, Concluding, Decision, Convened, Undecided,
       Decided, PanelComplete, Ruled, Stored

LEMMA StepKeepsInv == Inv /\ [Next]_vars => Inv'
<1> SUFFICES ASSUME Inv, [Next]_vars PROVE Inv'
  OBVIOUS
<1>1. CASE File
  BY <1>1, FileKeepsInv
<1>2. CASE Trigger
  BY <1>2, TriggerKeepsInv
<1>3. CASE Start
  BY <1>3, StartKeepsInv
<1>4. CASE PanelStep
  BY <1>4, PanelistKeepsInv, DecideKeepsInv, SubmitKeepsInv, SettleKeepsInv
     DEF PanelStep, Adjudicating
<1>5. CASE PanelCrash
  BY <1>5, CrashKeepsInv
<1>6. CASE ApiStep
  BY <1>6, HandlerKeepsInv DEF ApiStep
<1>7. CASE UNCHANGED vars
  BY <1>7, UnchangedKeepsInv
<1> QED
  BY <1>1, <1>2, <1>3, <1>4, <1>5, <1>6, <1>7 DEF Next, Stopped

(* The inductive invariant holds in every behaviour.                       *)
THEOREM Invariance == Spec => []Inv
BY InvInit, StepKeepsInv, PTL DEF Spec

(* Every variable keeps its type: no handler and no step of adjudicate()   *)
(* leaves a row, a call or a verdict outside of what the schema allows.    *)
THEOREM TypeCorrect == Spec => []TypeOK
<1>1. Inv => TypeOK
  BY DEF Inv
<1> QED
  BY <1>1, Invariance, PTL

(* Whatever is lost or fails, no row and no viewer ever shows an outcome   *)
(* the panel did not reach.                                                *)
THEOREM OutcomeShown == Spec => []OutcomeIsThePanels
<1>1. Inv => OutcomeIsThePanels
  <2> SUFFICES ASSUME Inv PROVE OutcomeIsThePanels
    OBVIOUS
  <2>1. CASE request[Verdict] = "None"
    BY <2>1 DEF Inv, Stored, OutcomeIsThePanels
  <2>2. CASE request[Verdict] # "None"
    <3>1. Decided /\ \A p \in Panel : verdicts[p] # None
      BY <2>2, AskedToStore DEF Decided, PanelComplete, Inv, Concluding
    <3> QED
      BY <3>1 DEF Decided, Inv, Stored, OutcomeIsThePanels
  <2> QED
    BY <2>1, <2>2
<1> QED
  BY <1>1, Invariance, PTL

(* The keeper is never handed a ruling the votes do not bear out: a refund *)
(* needs more votes for it, a rejection as many.                           *)
THEOREM RulingIsBacked == Spec => []RulingBackedByVotes
<1>1. Inv => RulingBackedByVotes
  <2> SUFFICES ASSUME Inv, ruling # None PROVE RulingBackedByVotes
    BY DEF RulingBackedByVotes
  <2> DEFINE outcome == Aggregate(verdicts).outcome
             refunds == Tally(verdicts, "REFUND")
             rejects == Tally(verdicts, "REJECT")
  <2>1. /\ Decided /\ verdicts \in [Panel -> PanelistVerdicts]
        /\ ruling = RulingForOutcome(outcome)
    BY AskedToStore DEF Undecided, Decided, Inv, Ruled
  <2>2. /\ outcome \in Outcomes
        /\ outcome = "REFUND" => refunds > rejects
        /\ outcome = "REJECT" => rejects > 0 /\ rejects >= refunds
        /\ outcome \in {"ABSTAIN", "FAILED"} => rejects = 0 /\ refunds < 2
    BY <2>1, AdjudicationAssumption, OutcomeBackedByVotes
  <2>3. /\ ruling = 1 => outcome = "REFUND"
        /\ ruling = 2 => outcome = "REJECT"
        /\ ruling = 0 => outcome \in {"ABSTAIN", "FAILED"}
    BY <2>1, <2>2 DEF RulingForOutcome, Outcomes, VoteChoices
  <2> QED
    BY <2>1, <2>2, <2>3 DEF RulingBackedByVotes, Decided
<1> QED
  BY <1>1, Invariance, PTL

(* With the keeper, apps/api is told of a verdict only after the keeper was*)
(* handed its ruling: no crash and no retry in between turns that around.  *)
THEOREM NoVerdictBeforeRuling == Spec => []NoVerdictWithoutRuling
<1>1. Inv => NoVerdictWithoutRuling
  BY DEF Inv, Ruled, NoVerdictWithoutRuling
<1> QED
  BY <1>1, Invariance, PTL

(* One more vote for the side that won never loses it the dispute.         *)
THEOREM MoreVotesNeverHurt == Spec => []VotingIsMonotone
<1>1. Inv => VotingIsMonotone
  <2> SUFFICES ASSUME Inv, aggregate # None,
                      aggregate.outcome \in {"REFUND", "REJECT"},
                      NEW p \in Panel
               PROVE  Aggregate([verdicts EXCEPT ![p] =
                                   Voted(aggregate.outcome)]).outcome
                        = aggregate.outcome
    BY DEF VotingIsMonotone
  <2>1. Decided /\ verdicts \in [Panel -> PanelistVerdicts]
    BY AskedToStore DEF Undecided
  <2> DEFINE after == [verdicts EXCEPT ![p] = Voted(aggregate.outcome)]
  <2>2. PICK choice \in {"REFUND", "REJECT"} : aggregate.outcome = choice
    OBVIOUS
  <2>3. /\ Aggregate(verdicts).outcome = choice
        /\ IsFiniteSet(Panel) /\ Voted(choice) \in PanelistVerdicts
    BY <2>1, <2>2, AdjudicationAssumption
       DEF Decided, PanelistVerdicts, VoteChoices
  <2>4. /\ after \in [Panel -> PanelistVerdicts]
        /\ after[p] = Voted(choice)
        /\ \A q \in Panel \ {p} : after[q] = verdicts[q]
    BY <2>1, <2>2, <2>3
  <2> HIDE DEF after
  <2>5. Aggregate(after).outcome = choice
    BY <2>1, <2>3, <2>4, WinnerKeepsWinning
  <2> QED
    BY <2>2, <2>5 DEF after
<1> QED
  BY <1>1, Invariance, PTL
=============================================================================
