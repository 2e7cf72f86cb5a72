---------------------------- MODULE PanelAdapters ----------------------------
(***************************************************************************)
(* adjudicate() as its inference, storage and identity ports see it, with  *)
(* the adapters that buildAdjudication picks.  Its calls to apps/api are in *)
(* Adjudication.                                                           *)
(***************************************************************************)
EXTENDS ReplayFixtures, BundleStorage, EnsReputation, PanelWiring,
        VoteAggregation

CONSTANTS
  Adjudications,
  MaxPanels,      \* bound: adjudications that ask their panels at once
  MaxLate,        \* bound: calls that outlive their panelist at once
  Settings,       \* the values of setting
  ClaimantOf, RespondentOf,   \* of a dispute
  ContentOf,      \* ContentOf[d]: its evidence bundle, parties included
  OffsetOf,       \* OffsetOf[<<d, i>>]: stableHash(d|i) % 3
  StubFamilies    \* what StubLlmAdapter lists

VARIABLES
  setting,   \* never changes: config, the PanelConfig; disputeOf, the dispute
             \* of each adjudication there is; horizon, how far time goes;
             \* listings and fixtures, what the network lists and what the
             \* directory holds at the start
  phase,     \* phase[a]: where adjudicate() is
  chosen,    \* chosen[a]: the services its panel was picked from
  verdicts   \* verdicts[a][i]: the verdict of panelist i

portVars == <<setting, phase, chosen, verdicts>>
vars == <<ogVars, replayVars, storageVars, reputationVars, portVars>>

(* A service that starts, and a directory that an earlier run left.        *)
ASSUME AdaptersAssumption ==
  /\ \A s \in Settings :
       /\ Starts(s.config) /\ s.horizon \in 0..MaxTime
       /\ s.listings \subseteq Listings
       /\ IsDirectory(s.fixtures) /\ Faithful(s.fixtures)
  /\ MaxPanels \in Nat \ {0} /\ MaxLate \in Nat
  /\ StubFamilies \in Seq(Services)

wiring == BuildAdjudication(setting.config)
DisputeOf(a) == setting.disputeOf[a]

Seats == 1..PanelSize
Listing(a) == <<a, 0>>
Panelist(a, i) == <<a, i>>
Write(a, party) == <<a, party>>
Parties == {"claimant", "respondent"}
EnsOf(a, party) ==
  IF party = "claimant" THEN ClaimantOf[DisputeOf(a)]
  ELSE RespondentOf[DisputeOf(a)]

Phases == {"Idle", "Models", "Evidence", "Panel", "Bundle", "Reputation",
           "Done", "Failed"}
AskingPhases == {"Models", "Evidence", "Panel", "Bundle"}

Goto(a, to) == phase' = [phase EXCEPT ![a] = to]

(* Every adjudication has its calls, its bundle and its writers, and the   *)
(* names of its parties are among EnsNames.                                *)
ASSUME CallsAssumption ==
  /\ Adjudications \X (0..PanelSize) \subseteq Callers
  /\ Adjudications \subseteq Bundles
  /\ IsFiniteSet(Adjudications) /\ Writers = Adjudications \X Parties
  /\ \A s \in Settings : \A a \in DOMAIN s.disputeOf :
       {ClaimantOf[s.disputeOf[a]], RespondentOf[s.disputeOf[a]]}
         \subseteq EnsNames

Init ==
  /\ setting \in Settings
  /\ OgInit /\ listed \in setting.listings
  /\ fixtures = setting.fixtures
  /\ call = [c \in Callers |-> CallIdle]
  /\ StorageInit /\ ReputationInit
  /\ phase = [a \in Adjudications |-> "Idle"]
  /\ chosen = [a \in Adjudications |-> None]
  /\ verdicts = [a \in Adjudications |-> [i \in Seats |-> None]]

-----------------------------------------------------------------------------
Panel(a) == PickDistinctModels(ModelNames(chosen[a]))

Rotated(s, offset) ==
  SubSeq(s, offset + 1, Len(s)) \o SubSeq(s, 1, offset)

(* PromptBuilder: the prompt of a panelist tells the content of the dispute*)
(* and offers the choices in an order that the dispute's ID and the seat   *)
(* decide; the ID itself is not in it.                                     *)
ChoiceOrder(d, i) ==
  LET rotated == Rotated(<<"REFUND", "REJECT", "ABSTAIN">>, OffsetOf[<<d, i>>])
  IN  IF i % 2 = 0 THEN Reverse(rotated) ELSE rotated

Prompt(d, i) == [content |-> ContentOf[d], order |-> ChoiceOrder(d, i)]
Question(a, i) ==
  [model |-> Panel(a)[i], prompt |-> Prompt(DisputeOf(a), i)]

ASSUME QuestionsAssumption ==
  \A s \in Settings : \A a \in DOMAIN s.disputeOf, i \in Seats, n \in Names :
    [model |-> n, prompt |-> Prompt(s.disputeOf[a], i)] \in Questions

(* parsePanelistResponse                                                   *)
Parsed(answer) ==
  IF answer.says \in VoteChoices THEN Voted(answer.says) ELSE FailedPanelist

-----------------------------------------------------------------------------
(* The trigger does not ask whether the dispute was adjudicated before.    *)
Begin(a) ==
  /\ phase[a] = "Idle" /\ a \in DOMAIN setting.disputeOf
  /\ Cardinality({b \in Adjudications : phase[b] \in AskingPhases}) < MaxPanels
  /\ Goto(a, "Models")
  /\ UNCHANGED <<ogVars, replayVars, storageVars, reputationVars, setting,
                 chosen, verdicts>>

ListsModels(a) ==
  /\ phase[a] = "Models" /\ wiring.inference # "Stub"
  /\ FetchCatalog(Listing(a), None) \/ ListingSteps(Listing(a))
  /\ UNCHANGED <<replayVars, storageVars, reputationVars, portVars>>

(* adjudicate() gets its list, and a panel unless it is too short, ...     *)
Chooses(a, services) ==
  /\ chosen' = [chosen EXCEPT ![a] = services]
  /\ Goto(a, IF Len(PickDistinctModels(ModelNames(services)))
                  = PanelSize
             THEN "Evidence" ELSE "Failed")
  /\ UNCHANGED <<replayVars, storageVars, reputationVars, setting, verdicts>>

PicksPanel(a) ==
  /\ phase[a] = "Models"
  /\ \/ /\ og[Listing(a)].pc = "Listed"
        /\ Chooses(a, ServicesOf(Listing(a)))
        /\ LeavesOg(Listing(a))
     \/ /\ wiring.inference = "Stub"
        /\ Chooses(a, StubFamilies)
        /\ UNCHANGED ogVars

(* ... or an error.                                                        *)
ListingThrows(a) ==
  /\ phase[a] = "Models" /\ og[Listing(a)].pc = "Threw"
  /\ Goto(a, "Failed")
  /\ LeavesOg(Listing(a))
  /\ UNCHANGED <<replayVars, storageVars, reputationVars, setting, chosen,
                 verdicts>>

(* persistEvidenceBundle: stored or not, the failure is caught and the URI *)
(* only logged.                                                            *)
StoresEvidence(a) ==
  /\ phase[a] = "Evidence"
  /\ Goto(a, "Panel")
  /\ UNCHANGED <<ogVars, replayVars, storageVars, reputationVars, setting,
                 chosen, verdicts>>

-----------------------------------------------------------------------------
Asks(a, i) ==
  /\ phase[a] = "Panel"
  /\ IF wiring.inference = "Stub"
     THEN StubAnswers(Panelist(a, i), Question(a, i))
     ELSE LooksUp(Panelist(a, i), Question(a, i),
                  wiring.inference = "FrozenReplay")
  /\ UNCHANGED <<storageVars, reputationVars, portVars>>

(* A call goes on whether or not its panelist still waits for it.          *)
CallProceeds(c) ==
  ReplaySteps(c) /\ UNCHANGED <<storageVars, reputationVars, portVars>>

Concludes(a, i, verdict) ==
  /\ verdicts[a][i] = None
  /\ verdicts' = [verdicts EXCEPT ![a][i] = verdict]
  /\ UNCHANGED <<ogVars, fixtures, storageVars, reputationVars, setting, phase,
                 chosen>>

Ends(c) == call' = [call EXCEPT ![c] = CallOver]

TakesAnswer(a, i) ==
  /\ call[Panelist(a, i)].pc = "Returned"
  /\ Concludes(a, i, Parsed(call[Panelist(a, i)].result))
  /\ Ends(Panelist(a, i))

TakesError(a, i) ==
  /\ call[Panelist(a, i)].pc = "Threw"
  /\ Concludes(a, i, FailedPanelist)
  /\ Ends(Panelist(a, i))

(* The timer fires first: what the call comes to goes nowhere.  Reading a  *)
(* fixture does not take that long.                                        *)
Late(a, i) == verdicts[a][i] # None /\ call[Panelist(a, i)].pc # "Over"

TimesOut(a, i) ==
  /\ Cardinality({x \in Adjudications \X Seats : Late(x[1], x[2])}) < MaxLate
  /\ call[Panelist(a, i)].pc \in {"Inner", "Open", "Write"}
  /\ Concludes(a, i, FailedPanelist)
  /\ UNCHANGED call

ComesLate(a, i) ==
  /\ call[Panelist(a, i)].pc \in {"Returned", "Threw"}
  /\ verdicts[a][i] # None
  /\ Ends(Panelist(a, i))
  /\ UNCHANGED <<ogVars, fixtures, storageVars, reputationVars, portVars>>

Panelists(a) ==
  \E i \in Seats :
    \/ Asks(a, i) \/ TakesAnswer(a, i) \/ TakesError(a, i)
    \/ TimesOut(a, i) \/ ComesLate(a, i)

-----------------------------------------------------------------------------
Complete(a) == \A i \in Seats : verdicts[a][i] # None
Outcome(a) == Aggregate(verdicts[a]).outcome

PanelDone(a) ==
  /\ phase[a] = "Panel" /\ Complete(a)
  /\ Goto(a, "Bundle")
  /\ UNCHANGED <<ogVars, replayVars, storageVars, reputationVars, setting,
                 chosen, verdicts>>

(* persistVerdictBundle                                                    *)
StoresVerdict(a) ==
  /\ phase[a] = "Bundle" /\ Put(a, wiring.storage)
  /\ UNCHANGED <<ogVars, replayVars, reputationVars, portVars>>

(* Without its bundle the verdict goes nowhere.  With it, the verdict and  *)
(* the settlement steps are reported, which may fail (see Adjudication),   *)
(* and the reputations are next.                                           *)
VerdictSettled(a) ==
  /\ phase[a] = "Bundle" /\ PutSettled(a)
  /\ \/ /\ put[a] = "Stored"
        /\ Goto(a, IF Outcome(a) \in {"FAILED", "ABSTAIN"} THEN "Done"
                   ELSE "Reputation")
     \/ Goto(a, "Failed")
  /\ UNCHANGED <<ogVars, replayVars, storageVars, reputationVars, setting,
                 chosen, verdicts>>

OutcomeFor(a, party) ==
  IF (Outcome(a) = "REFUND") = (party = "claimant") THEN "won" ELSE "lost"

WritesReputation(a, party) ==
  /\ phase[a] = "Reputation"
  /\ WriteReputation(Write(a, party), EnsOf(a, party), OutcomeFor(a, party),
                     wiring.identity)
  /\ UNCHANGED <<ogVars, replayVars, storageVars, portVars>>

Finishes(a) ==
  /\ phase[a] = "Reputation"
  /\ \A party \in Parties : WriteSettled(Write(a, party))
  /\ Goto(a, "Done")
  /\ UNCHANGED <<ogVars, replayVars, storageVars, reputationVars, setting,
                 chosen, verdicts>>

Adjudicates(a) ==
  \/ Begin(a) \/ ListsModels(a) \/ PicksPanel(a) \/ ListingThrows(a)
  \/ StoresEvidence(a) \/ Panelists(a) \/ PanelDone(a)
  \/ StoresVerdict(a) \/ VerdictSettled(a)
  \/ (\E party \in Parties : WritesReputation(a, party)) \/ Finishes(a)

Outside ==
  \/ /\ wiring.inference # "Stub"
     /\ BrokerSettles \/ (now < setting.horizon /\ Tick)
     /\ UNCHANGED <<replayVars, storageVars, reputationVars, portVars>>
  \/ /\ \E w \in Writers : Mines(w)
     /\ UNCHANGED <<ogVars, replayVars, storageVars, portVars>>

Next ==
  \/ \E a \in Adjudications : Adjudicates(a)
  \/ \E c \in Callers : CallProceeds(c)
  \/ Outside

Spec == Init /\ [][Next]_vars

-----------------------------------------------------------------------------
TypeOK ==
  /\ OgTypeOK /\ ReplayTypeOK /\ StorageTypeOK /\ ReputationTypeOK
  /\ setting \in Settings
  /\ phase \in [Adjudications -> Phases]
  /\ \A a \in Adjudications :
       /\ chosen[a] = None \/ chosen[a] \in Listings \cup {StubFamilies}
       /\ verdicts[a] \in [Seats -> PanelistVerdicts \cup {None}]

(* pickDistinctModels: the panel is of as many families as the list and    *)
(* the panel's size allow, and never seats a model twice.                  *)
PanelIsDiverse ==
  \A a \in Adjudications : phase[a] \notin {"Idle", "Models", "Failed"} =>
    LET families(names) == {FamilyKey(n) : n \in ToSet(names)}
        available == families(ModelNames(chosen[a]))
    IN
    /\ Cardinality(ToSet(Panel(a))) = PanelSize
    /\ Cardinality(families(Panel(a)))
         = Min({PanelSize, Cardinality(available)})

(* A panelist is asked at a provider that lists its model, in whatever     *)
(* case, as long as one does in the list its call works on, which may be a *)
(* later one than its panel was picked from; so two panelists of different *)
(* families never share a service.  Two whose names differ only in case do,*)
(* and a service that names no model is seated under its address, which no *)
(* provider lists as a model.                                              *)
AskedAtItsModel ==
  \A a \in Adjudications, i \in Seats :
    LET c == Panelist(a, i)
        listing == ToSet(InferenceOnly(ServicesOf(c)))
        same(s) == LowerCase(s.model) = LowerCase(og[c].model)
    IN
    og[c].pc = "Listed" /\ (\E s \in listing : same(s)) =>
      ProviderOf(c) \in listing /\ same(ProviderOf(c))

(* A panel is only asked when three distinct families are listed.          *)
FewFamiliesRejected ==
  \A a \in Adjudications : phase[a] \notin {"Idle", "Models", "Failed"} =>
    Cardinality({FamilyKey(n) : n \in ToSet(ModelNames(chosen[a]))})
      >= PanelSize

(* The verdict reported to apps/api names a bundle that both parties can   *)
(* still open, its keys included.                                          *)
VerdictIsReadable ==
  \A a \in Adjudications :
    phase[a] \in {"Reputation", "Done"} => Gets(a)

(* Whatever transactions are lost, late or overtaken, no record claims     *)
(* more disputes, wins or losses than verdicts were given; in memory the   *)
(* count is exact.                                                         *)
Given(name, key) ==
  {w \in Writers :
     /\ write[w].name = name
     /\ key \in {"total", OutcomeFor(w[1], w[2])}}

ReputationIsEarned ==
  \A name \in Records, key \in TextKeys :
    /\ texts[name][key] <= Cardinality(Given(name, key))
    /\ wiring.identity = "Memory" =>
         texts[name][key] = Cardinality(Given(name, key))
=============================================================================
