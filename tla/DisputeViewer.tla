---------------------------- MODULE DisputeViewer ----------------------------
(***************************************************************************)
(* One browser on apps/web while its dispute is filed, adjudicated and     *)
(* settled: the form that files it, the page that follows it live on the   *)
(* event stream, the page that shows the verdict, and the query cache they *)
(* share.                                                                  *)
(***************************************************************************)
EXTENDS DisputeReads, SeedData, Sequences

CONSTANTS
  Prefilled,   \* files the form starts with
  Templates,   \* SAMPLE_EVIDENCE_TEMPLATES
  Seeds,       \* seeded rows a browser may start from
  MayBeLost,   \* bound: calls of the panel that may not arrive
  Tiles        \* bound: whether the ledger asks for its statistics

ASSUME ViewerAssumption ==
  /\ Prefilled \in Seq(Files) /\ Templates \in Seq(Files)
  /\ Seeds \subseteq SeededRows /\ Tiles \in BOOLEAN

VARIABLES
  page,     \* the page shown
  filing,   \* where onSubmit of the form is
  draft,    \* evidence listed in the form; its order is left out
  cache,    \* data of the query disputeKeys.detail(id)
  stats     \* what StatsService keeps for 30 s, and answers with

browserVars == <<page, filing, draft, cache>>
viewerVars == <<vars, readVars, browserVars, stats>>

DetailPages == {"route", "live", "verdict"}
Pages == DetailPages \cup {"form", "ledger"}
FilingStates == {"Editing", "Creating", "Attaching", "Filed"}

NoFetch == [at |-> "Idle", body |-> None, error |-> FALSE]

Item(id, file) == [id |-> id, file |-> file]

FormInit ==
  /\ Init
  /\ page = "form" /\ filing = "Editing"
  /\ draft = {Item(i, Prefilled[i]) : i \in DOMAIN Prefilled}
  /\ attached = [file \in Files |-> "None"]

(* A dispute of the seed: no panel was or will be called for it.           *)
SeededInit ==
  /\ AdjudicationInit /\ trigger = "Lost" /\ announced = None
  /\ \E rows \in Seeds :
       /\ status = rows.status /\ votes = rows.votes
       /\ verdict = rows.verdict /\ steps = rows.steps
  /\ page = "ledger" /\ filing = "Filed" /\ draft = {}
  /\ attached = [file \in Files |-> "Stored"]

ViewerInit ==
  /\ FormInit \/ SeededInit
  /\ bundle = None /\ fetch = NoFetch /\ stream = "Closed" /\ inbox = NoEvents
  /\ cache = None /\ stats = None

-----------------------------------------------------------------------------
(* TanStack Query: the query is fetched anew, or rests.  The error of a    *)
(* refetch stays with the data until a later one succeeds.                 *)
Error(data) == fetch.error /\ data # None
Resting(data) == [NoFetch EXCEPT !.error = Error(data)]
Started(data) == [NoFetch EXCEPT !.at = "Sent", !.error = Error(data)]

(* invalidateQueries on a query in use: with data, a fetch under way is    *)
(* cancelled for a new one; the first fetch is left to finish.             *)
LeftToFinish == IF fetch.at = "Idle" THEN Started(cache) ELSE fetch
Invalidated ==
  IF cache # None \/ fetch.at = "Idle" THEN Started(cache) ELSE fetch

(* The page changes.  What the old one had under way is cancelled; the new *)
(* one fetches the dispute whatever the cache holds (staleTime: 0), and    *)
(* the live page opens the stream.                                         *)
Visit(next, data) ==
  /\ page' = next
  /\ cache' = data
  /\ fetch' = IF next \in DetailPages THEN Started(data) ELSE Resting(data)
  /\ stream' = IF next = "live" THEN "Connecting" ELSE "Closed"
  /\ inbox' = NoEvents
  /\ UNCHANGED vars

-----------------------------------------------------------------------------
(* NewDisputePage.  Nothing keeps the list from being edited while the     *)
(* dispute is created; what was listed at the submit is what is attached.  *)
Listed == {item.file : item \in draft}

AddSampleEvidence ==
  /\ page = "form" /\ filing \in {"Editing", "Creating"}
  /\ \E i \in DOMAIN Templates :
       /\ Templates[i] \notin Listed
       /\ \A j \in 1..(i - 1) : Templates[j] \in Listed
       /\ draft' = draft \cup {Item(Cardinality(draft) + 1, Templates[i])}
  /\ UNCHANGED <<vars, readVars, page, filing, cache>>

RemoveEvidence(id) ==
  /\ page = "form" /\ filing \in {"Editing", "Creating"}
  /\ draft' = {item \in draft : item.id # id}
  /\ UNCHANGED <<vars, readVars, page, filing, cache>>

SubmitForm ==
  /\ filing = "Editing"
  /\ filing' = "Creating"
  /\ attached' = [file \in Files |->
       IF file \in Listed THEN "Queued" ELSE "None"]
  /\ UNCHANGED <<vars, bundle, fetch, stream, inbox, page, draft, cache>>

(* POST /disputes reaches DisputesService.create, or it does not and the   *)
(* form is there again.                                                    *)
Creation ==
  /\ filing = "Creating"
  /\ Create
  /\ UNCHANGED <<readVars, browserVars>>

CreationFails ==
  /\ "fetch" \in BrowserFaults
  /\ filing = "Creating" /\ trigger = "None"
  /\ filing' = "Editing"
  /\ UNCHANGED <<vars, readVars, page, draft, cache>>

(* useCreateDispute put the answer in the cache, onSubmit goes on to post  *)
(* the evidence, all at once.                                              *)
Created ==
  /\ filing = "Creating" /\ Known
  /\ filing' = "Attaching"
  /\ cache' = FreshDispute
  /\ attached' = [file \in Files |->
       IF attached[file] = "Queued" THEN "Sent" ELSE attached[file]]
  /\ draft' = {}
  /\ UNCHANGED <<vars, bundle, fetch, stream, inbox, page>>

(* Promise.all resolved, or rejected with the first post that failed:      *)
(* either way the live page is next, and nobody posts again what failed.   *)
Pushed ==
  /\ filing = "Attaching"
  /\ \/ \A file \in Files : attached[file] # "Sent"
     \/ \E file \in Files : attached[file] = "Failed"
  /\ filing' = "Filed"
  /\ attached' = [file \in Files |->
       IF attached[file] = "Failed" THEN "None" ELSE attached[file]]
  /\ Visit("live", cache)
  /\ UNCHANGED <<bundle, draft>>

Filing ==
  \/ AddSampleEvidence \/ \E item \in draft : RemoveEvidence(item.id)
  \/ SubmitForm \/ Creation \/ CreationFails \/ Created \/ Pushed

-----------------------------------------------------------------------------
Browse(next, data) ==
  Visit(next, data) /\ UNCHANGED <<attached, bundle, filing, draft>>

(* From the ledger a link leads to the dispute; an address that is typed,  *)
(* or a reload, starts with an empty cache.                                *)
Open == page = "ledger" /\ Known /\ Browse("route", cache)
Load == /\ page = "ledger" /\ Known
        /\ \E next \in {"live", "verdict"} : Browse(next, None)
Leave == page \in {"live", "verdict"} /\ Browse("ledger", cache)

(* DisputePage, once the query is not pending; an error counts more than   *)
(* the data it left.                                                       *)
RouteOn ==
  /\ page = "route"
  /\ \/ fetch.error /\ Browse("ledger", cache)
     \/ /\ ~fetch.error /\ cache # None
        /\ Browse(IF IsTerminal(cache) THEN "verdict" ELSE "live", cache)

(* LivePage, 700 ms after the cached dispute turned terminal.              *)
Redirect ==
  /\ page = "live" /\ cache # None /\ IsTerminal(cache)
  /\ Browse("verdict", cache)

Navigate == Open \/ Load \/ Leave \/ RouteOn \/ Redirect

-----------------------------------------------------------------------------
(* The query function resolved, or it failed twice.  What an earlier one   *)
(* got is then shown as before, without a word, and not asked for again    *)
(* before the next event or visit.                                         *)
Fetched ==
  /\ fetch.at = "Answered"
  /\ cache' = fetch.body
  /\ fetch' = NoFetch
  /\ UNCHANGED <<vars, attached, bundle, stream, inbox, page, filing, draft>>

FetchFails ==
  /\ "fetch" \in BrowserFaults
  /\ fetch.at # "Idle"
  /\ fetch' = [NoFetch EXCEPT !.error = TRUE]
  /\ UNCHANGED <<vars, attached, bundle, stream, inbox, browserVars>>

(* useDisputeStream: each event invalidates the query, be there more behind *)
(* it or not, ...                                                          *)
OnChange(more) ==
  /\ stream = "Open" /\ inbox.changes
  /\ inbox' = [inbox EXCEPT !.changes = more]
  /\ fetch' = Invalidated
  /\ UNCHANGED <<vars, attached, bundle, stream, browserVars>>

(* ... a final status closes the stream too.                               *)
OnFinal ==
  /\ stream = "Open" /\ ~inbox.changes /\ inbox.final
  /\ inbox' = NoEvents
  /\ stream' = "Closed"
  /\ fetch' = Invalidated
  /\ UNCHANGED <<vars, attached, bundle, browserVars>>

Browser ==
  \/ Fetched \/ FetchFails
  \/ (\E more \in BOOLEAN : OnChange(more)) \/ OnFinal

-----------------------------------------------------------------------------
(* The panel and its callbacks, as in DisputeLifecycle.                    *)
Panelists ==
  /\ \/ bundle # None /\ Trigger
     \/ Start \/ PanelStep \/ PanelCrash
  /\ \A c \in Calls : request'[c] = "Lost" => c \in MayBeLost
  /\ UNCHANGED <<readVars, browserVars>>

HandleAndRelay(c) == Handle(c) /\ Relay(c) /\ UNCHANGED browserVars

Reads ==
  /\ \/ ReadBundle \/ ReadRow \/ ReadRelations \/ Subscribe \/ StreamDrops
     \/ \E file \in Files : Submitted(file) \/ NotSubmitted(file)
  /\ UNCHANGED <<vars, browserVars>>

(* The ledger, with the dispute as its one row.                            *)
Row == [status |-> status,
        claimantEns |-> "claimant", respondentEns |-> "respondent"]
Ledger ==
  LET known == IF Known THEN {"this"} ELSE {}
  IN List([d \in known |-> Row], [d \in known |-> verdict])

(* StatsService.getStats for the tiles of the ledger, when nothing is kept *)
(* or the 30 s are over.  The counts are five statements, here one; what   *)
(* StatsAgree asks of an answer that is kept holds of counts of different  *)
(* moments too.  Others who ask are left out: the browser may be at the    *)
(* ledger at any time itself.                                              *)
GetStats ==
  /\ Tiles /\ page = "ledger"
  /\ stats' = Stats(Ledger)
  /\ UNCHANGED <<vars, readVars, browserVars>>

ViewerNext ==
  \/ /\ \/ Filing \/ Navigate \/ Browser \/ Reads \/ Panelists
        \/ \E c \in Calls : HandleAndRelay(c)
     /\ UNCHANGED stats
  \/ GetStats

ViewerSpec == ViewerInit /\ [][ViewerNext]_viewerVars

(* Panel, apps/api and browser each go on with what is due, in whatever    *)
(* order.  Nobody has to open or leave a page, nothing has to fail and no  *)
(* model has to answer.                                                    *)
BrowserDue ==
  /\ \/ /\ (bundle # None /\ Trigger) \/ Start \/ PanelDue
        /\ UNCHANGED <<readVars, browserVars>>
     \/ \E c \in Underway : HandleAndRelay(c)
     \/ ReadBundle /\ UNCHANGED <<vars, browserVars>>
     \/ OnChange(FALSE) \/ OnFinal \/ Redirect
  /\ UNCHANGED stats

GetDue ==
  /\ \/ (ReadRow \/ ReadRelations) /\ UNCHANGED <<vars, browserVars>>
     \/ Fetched
  /\ UNCHANGED stats

ViewerFairness == WF_viewerVars(BrowserDue) /\ WF_viewerVars(GetDue)

FairViewerSpec == ViewerSpec /\ ViewerFairness

-----------------------------------------------------------------------------
Shown ==
  [status : DisputeStatuses, votes : [Rows -> PanelVotes],
   verdict : StoredVerdicts \cup {None},
   steps : [1..4 -> StepStatuses], evidence : SUBSET Files]

StatsAnswers ==
  [total : 0..1, active : 0..1, settled : 0..1, refunded : SUBSET {"this"}]

ViewerTypeOK ==
  /\ TypeOK
  /\ attached \in [Files -> AttachStates]
  /\ bundle \in (SUBSET Files) \cup {None}
  /\ fetch.at \in {"Idle", "Sent", "RowRead", "Answered"}
  /\ fetch.at = "RowRead" => fetch.body \in DisputeStatuses
  /\ fetch.at = "Answered" => fetch.body \in Shown
  /\ fetch.error \in BOOLEAN
  /\ stream \in {"Closed", "Connecting", "Open"}
  /\ inbox \in [changes : BOOLEAN, final : BOOLEAN]
  /\ page \in Pages /\ filing \in FilingStates
  /\ draft \subseteq [id : Nat \ {0}, file : Files]
  /\ cache \in Shown \cup {None}
  /\ stats \in StatsAnswers \cup {None}

(* The panelists whose answer counts and no row will show: the last call   *)
(* about it was lost, or the model listed is none of the three that        *)
(* DisputesService.create makes rows for.                                  *)
Unshown ==
  {p \in Panel : verdicts[p] # None /\
     (p \notin Rows \/ request[VoteUpdate(p, verdicts[p].status)] = "Lost")}

(* A browser that was sent to the verdict page is shown one decision,      *)
(* although it was read at different moments from rows that are written    *)
(* one by one.  Banner and status pill agree.  The votes the page counts   *)
(* are among those of the verdict, and fall short of them by no more than  *)
(* the panelists no row shows: a 3-0 verdict may stand beside 0-0, and the *)
(* two agree if all are shown.  An ABSTAIN goes by the banner Reject and   *)
(* carries no counts: nobody voted to reject then, and at most one to      *)
(* refund.                                                                 *)
OneDecisionShown ==
  page = "verdict" /\ cache # None /\ IsTerminal(cache) =>
    LET tally == VerdictTally(cache)
        result == cache.verdict
        own == IF result.outcome = "REFUND"
               THEN tally.refunds ELSE tally.rejects
        other == tally.refunds + tally.rejects - own
    IN
    /\ SettledAtShown(cache)
    /\ (Banner(cache) = "Refund") = (Pill(cache) = "Settled - refund")
    /\ IF result.outcome = "ABSTAIN"
       THEN tally.rejects = 0 /\ tally.refunds <= 1
       ELSE /\ own <= result.votesFor /\ other <= result.votesAgainst
            /\ result.votesFor + result.votesAgainst
                 <= own + other + Cardinality(Unshown)
            /\ result.votesFor >= result.votesAgainst

(* The ledger goes by the status, the agents' pages by the verdict and the *)
(* verdict page by both: whatever they are asked after a browser was shown *)
(* the verdict, they say the same.  The dispute is not active, the claimant*)
(* sees it as won or lost like the banner and the respondent as the verdict*)
(* page's pill has it, and for a seeded one the reputations are those of   *)
(* its parties.                                                            *)
PagesAgree(won) ==
  /\ Visible(Ledger, "active", "claimant") = {}
  /\ (Visible(Ledger, "settled", "claimant") # {}) = won
  /\ DisputeCard(Ledger["this"], "claimant") = (IF won THEN "Won" ELSE "Lost")
  /\ DisputeCard(Ledger["this"], "respondent") = Pill(cache)
  /\ \A ens \in Parties :
       LET recent == RecentDisputes(Ledger, ens)["this"]
       IN recent.closed /\ RecentDisputeRow(recent) = Banner(cache)
  /\ trigger = "Lost" =>
       \A ens \in Parties :
         LET row == Reputation(SeededReputations(verdict.outcome), ens)
             upheld == (ens = "claimant") = won
         IN AgentTiles(row) =
              [disputes |-> 1, won |-> IF upheld THEN 1 ELSE 0,
               lost |-> IF upheld THEN 0 ELSE 1,
               upheld |-> IF upheld THEN 100 ELSE 0]

(* The statistics count a dispute for which the banner says Refund as      *)
(* settled, with its refund, and the others not at all: a rejected one is  *)
(* not "settled" there, whatever the hint of that tile says.  An answer    *)
(* kept from before may still count the dispute as active, or nowhere, but *)
(* never as decided otherwise than the verdict page shows it.              *)
StatsAgree(won) ==
  LET fresh == Stats(Ledger)
  IN /\ fresh.active = 0 /\ fresh.settled = Cardinality(fresh.refunded)
     /\ (fresh.refunded # {}) = won
     /\ stats # None => /\ stats.settled <= fresh.settled
                        /\ stats.refunded \subseteq fresh.refunded

LedgerAgrees ==
  cache # None /\ IsTerminal(cache) =>
    LET won == Banner(cache) = "Refund"
    IN PagesAgree(won) /\ StatsAgree(won)

(* What a browser has shown of a dispute it does not take back: votes that *)
(* were cast, settlement steps, the decision.                              *)
TakesNothingBack(old, new) ==
  /\ \A model \in Rows : PanelistCard(old.votes[model]).vote # None =>
       /\ PanelistCard(new.votes[model]) = PanelistCard(old.votes[model])
       /\ ReasoningHead(new.votes[model]) = old.votes[model].vote
  /\ LiveTally(new).pending <= LiveTally(old).pending
  /\ \A k \in 1..4 : TimelineStep(new, k) >= TimelineStep(old, k)
  /\ IsTerminal(old) => Pill(new) = Pill(old) /\ Banner(new) = Banner(old)
  /\ EvidenceConsidered(old) \subseteq EvidenceConsidered(new)

NothingTakenBack ==
  [][cache # None /\ cache' # None => TakesNothingBack(cache, cache')]_cache

(* README: the live page invalidates the cache on each event.  A browser   *)
(* that shows the dispute and is on its stream before the decision comes   *)
(* is taken to the verdict page, unless it leaves, the stream drops, a call*)
(* of the panel is lost or the GET that the final event called for fails:  *)
(* no event follows that one, and the live page stays as it was.           *)
Following ==
  /\ page = "live" /\ cache # None /\ stream = "Open"
  /\ request[Verdict] # "Handled" /\ trigger # "Lost"

LeftBehind ==
  /\ page = "live" /\ stream = "Closed"
  /\ fetch.at = "Idle" /\ fetch.error /\ cache # None /\ ~IsTerminal(cache)

FollowerReachesVerdict ==
  Following ~> \/ page = "verdict" \/ page = "ledger"
               \/ stream = "Connecting"
               \/ LeftBehind \/ SomethingLost

(* The verdict page heads the files of a dispute "Evidence considered".    *)
EvidenceShownWasConsidered ==
  page = "verdict" /\ cache # None /\ IsTerminal(cache) =>
    EvidenceConsidered(cache) \subseteq bundle
=============================================================================
