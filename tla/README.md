# Tribune: formal models

Tribune is an ERC-792 arbitrator whose jurors are three language models. A dispute is
raised on chain or filed with the API, a panel of models votes, the votes are aggregated
into a ruling, and the ruling moves the money of an escrow and the status of a record.
This directory holds TLA+ models of that, the configurations TLC checks them with, and
the proofs TLAPS checks.

Contents: [the system](#the-system) · [plan](#plan) · [modules](#modules-and-the-code) ·
[runs](#runs) · [bounds](#bounds) · [fairness](#fairness) · [proofs](#proofs) ·
[findings](#findings) · [what is not modelled](#what-is-not-modelled)

## The system

```
 apps/web ──POST /disputes, SSE──▶ apps/api ──POST /adjudicate──▶ apps/panel ──▶ models
                                      ▲                              │  │
                                      └──── vote-update, verdict, ───┘  └─ keeper ─┐
                                            settlement-step                        ▼
      arbitrables ──createDispute──▶ TribuneArbitrator ◀──executeRuling── an authorised panel
      (ExampleEscrow, ...) ◀──rule──        │ DisputeCreation
                                            └────────────▶ ContractEventTrigger (apps/panel)
```

### Components

| Component | State | Operations | Hard to get right |
| --- | --- | --- | --- |
| PanelRegistry (contract) | the set of authorised panels | authorize, revoke | a revoked panel and a ruling in flight |
| TribuneArbitrator (contract) | disputes, next ID, fee, ether | createDispute, executeRuling, setArbitrationFee, withdrawFees, receive | calls out to the payer (refund) and to the arbitrable (rule) which may revert or call back; a fee that changes under the payer |
| ExampleEscrow (contract) | transactions, dispute → transaction, tokens | createTransaction, confirmDelivery, withdraw, disputeTransaction, rule | four ways to settle one deposit; ID 0 is both "none" and a valid ID; odd amounts |
| SimpleEscrow (vendored) | one payment, its dispute | release, reclaim, deposit of fees, rule | a ruling of 0 |
| AdjudicationService | nothing persistent: one call per dispute | adjudicate | three concurrent panelists, timeouts, a chain of awaits each of which may reject, a process that may die |
| PanelVoteAggregator | none | aggregate | ties, abstentions, missing votes |
| Execution adapters | none | submitVerdict, notifyVoteUpdate, recordSettlementStep | two receivers (keeper, API) that may disagree; lost calls |
| PanelCallbackController | rows Dispute, PanelVote, Verdict, SettlementStep; events | voteUpdate, verdict, settlementStep | several writes per call, no transaction, no condition on the old value, errors swallowed |
| DisputesService, PanelClientService | the rows of a new dispute | create, startAdjudication | fire and forget |
| HTTP trigger | none | POST /adjudicate | 202 before the work, rejections only logged |
| ContractEventTriggerAdapter | lastSeenBlock, in memory and in a file | start, stop, event handler, catchup | handlers that overlap at every await; restart from the file |
| Panel selection | none | pickDistinctModels, pickProviderByModel | fewer families than seats; a catalogue that changes between choice and call |
| 0G compute adapter | broker promise, catalogue cache | chat, listAvailableModels | a cached rejection |
| Replay and stub inference | fixture files | chat | frozen or not; a truncated fixture |
| Storage adapters | payload and envelope | put, get | two uploads |
| ENS identity adapter | four text records per name | writeReputation | read, increment, write by two callers |
| Adapter wiring | the panel's configuration | readPanelConfig, buildAdjudication | which adapters meet in one process |
| Evidence service | rows | submit | evidence posted after the panel was triggered |
| Reads of a dispute, its stream | who is connected | GET by several statements, SSE | rows of different moments in one answer, events nobody heard |
| Query cache, stream hook, form, dispute pages (web) | the cached dispute, the page, the draft | submit, invalidate, refetch, redirect, close at a final status | a fetch that is older than the event that follows it |
| Stats and agents services, ledger and agent pages | a 30 s cache; AgentReputation rows | compute, getReputation, list, filter | status and verdict are two rows, each page reads its own |
| Seed | seeded rows | createDispute, bumpReputation | rows no adjudication ever produced |

The rest (landing page, configuration, health, metrics, prompt text, ESLint and
TypeScript packages, the Uniswap adapter, which nothing wires) keeps no state a property
could be about.

### What makes each of them correct

- **Contracts.** A deposit is settled once, in full, and once disputed only by the ruling
  of its own dispute; arbitrator and escrow agree on which dispute decides which
  transaction; a ruling is final and within the choices; the ether adds up.
- **Adjudication.** Whatever is lost or late, nothing is ever stored, announced or sent to
  the chain but what the panel decided; a verdict has votes behind it; final is final;
  settlement and reputations follow the verdict; every adjudication ends and, if nothing
  was lost, every dispute is decided.
- **Trigger.** Of every block the first dispute is adjudicated by the poller, whatever
  overlaps, fails or restarts, and lastSeenBlock passes no block of which it was not; an
  event that was delivered is not dropped unless a dispute of its block was begun. More
  than that the code does not do, see the findings.
- **Adapters of the panel.** The panel is as diverse as the catalogue allows, and each
  panelist is asked at a provider that lists its model, up to case. A replayed answer is the
  answer to this question. A reported verdict can be opened. A counter on ENS is backed by
  adjudications.
- **Web.** What a browser shows of a dispute is one decision, its votes short of the verdict
  by no more than the panelists no row shows; it takes nothing back; who follows the stream
  is taken to the verdict; the ledger and the agents' pages say the same, and the statistics
  lag behind them but never differ.

The hazards this code is exposed to, each at its line and with the properties that watch
it, are in `PROJECT.json` under "hazards".

## Plan

Order: first the money (contracts), then the decision (panel and API), then the ways in
and out (trigger, adapters, browser), then the caches.

| # | Modules | Composes | Abstract specification | State |
| --- | --- | --- | --- | --- |
| 1 | PanelRegistry, TribuneArbitrator, ExampleEscrow, EscrowArbitration | the last composes the others | EscrowCustody | checked and proved |
| 2 | VoteAggregation, PanelCalls, Adjudication, PanelCallback, DisputeLifecycle | DisputeLifecycle composes the others | | checked and proved |
| 3 | ContractEventTrigger | | | checked and proved |
| 4 | PanelSelection, OgCompute, ReplayFixtures, BundleStorage, EnsReputation, PanelWiring, PanelAdapters | PanelAdapters composes the others | | checked and proved |
| 5 | DisputeReads, WebPages, LedgerPages, SeedData, DisputeViewer | DisputeLifecycle and the others | | checked and proved |
| 6 | a module joining the keeper to EscrowArbitration | Adjudication, EscrowArbitration | the ruling the panel reached is the one on chain | open; `RulingBackedByVotes` covers the panel's half, `RulingDecidesPayout` the chain's |
| 7 | the browser's queries of lists, each with its own stale time | LedgerPages, DisputeViewer | | open |

Proofs: every invariant and every action property of the passing runs is proved. What
remains is to prove the invariants of DisputeSettlementProofs and DisputeViewerProofs, as
far as they hold, with lost responses and database failures, and the theorems of row 6 once
it is there.

## Modules and the code

The definitions carry the names of the code where TLA+ allows it; `PROJECT.json` "map"
gives the lines of each. A definition directly in front of a small helper and never used
(`NoRefund` before `Refund`, `SolvedIsWaiting` before `IsWaiting`) is a *slip*: the helper
as a careless edit would leave it. `PROJECT.json` "mutants" names, for every property of a
passing run, a slip that makes TLC find the property violated: no property is there that
no mistake in the code could break.

### Contracts

- **PanelRegistry**, **TribuneArbitrator**: one action per state-changing function, each
  revert condition a guard with the error's name beside it. `executeRuling` looks at the
  status and the ruling only and stores whatever hash it is given, zero included (`Bundles`
  may contain `NoBundle`). `createdAt`, `panelSize`,
  `extraData` and the evidence events are left out: nothing on chain reads them.
- **ExampleEscrow**: the escrow's own state; `DisputeTransaction` takes the ID that
  `createDispute` returned, `Rule` is the callback. `paid` is a history variable.
- **EscrowArbitration** joins them. A transaction is one action that does what every
  contract on its call path does, or does not happen. This is sound because
  `createDispute`, `executeRuling` and `withdrawFees` are `nonReentrant`, and because what
  a foreign contract can still call during a callback (`setArbitrationFee`, `receive`,
  another contract) comes after the last write of the enclosing function: it is the same
  as the next step. A foreign arbitrable is any contract: it may raise disputes with any
  choices and its `rule()` may return or revert. A seller may be the escrow itself, since
  `createTransaction` does not forbid it, and the properties allow for it.
- **EscrowCustody** is the abstract promise: a deposit is held, contested and settled
  once, to the buyer, the seller or half each. `ImplementsCustody` maps a transaction to
  its custody record.

### Panel and API

- **VoteAggregation**: `aggregate()` and `rulingForOutcome()` as operators.
- **PanelCalls**: the HTTP calls from panel to API. `request[c]` is the call's progress on
  the API's side: sent, between two awaits of its handler, handled, lost. The caller goes
  on when the call returns or throws; when it throws because the response was lost the
  handler is still running. `setting` is the wiring (keeper or not, an on-chain ID or a
  UUID) and the set of things that may go wrong; it never changes.
- **Adjudication**: `adjudicate()`, an action per await and per way of failing. A model's
  answer, its error, an answer that does not parse and the 30 s timer are the four ways
  `Promise.race` ends; after the first the others go nowhere.
- **PanelCallback**: the three handlers, an action per await of Prisma. With "database"
  among the faults every write may fail, is logged and the call answered 204, as in the
  code.
- **DisputeLifecycle** joins them with `DisputesService.create` and the HTTP trigger. A
  dispute raised on chain has a numeric ID and no rows in the API: its callbacks find
  nothing to update, and the properties about rows are guarded by `Known`.

### Trigger

- **ContractEventTrigger**: `start`, `stop`, the subscription's handler and `catchup()`,
  an action per await. Several `catchup()` overlap, because `setInterval` does not wait.
  `stored` is the file; a write may fail, be overtaken, or be cut short by the end of the
  process, which leaves it as it was, truncated (0) or written. A rejected adjudication
  ends a poll, but, coming from the subscription, ends the process (an unhandled
  rejection). Nothing wires this adapter yet; it is modelled as its class stands.

### Adapters of the panel

These modules look at `adjudicate()` from the side of its ports, where Adjudication looks
at it from the side of its callbacks. Both have a `phase`; the calls of one are a single
step of the other.

- **PanelSelection**: `pickDistinctModels` and `pickProviderByModel` over the list of
  services. A name is itself, its lower case, the family word it contains and its prefix,
  because the code looks at nothing else: the panel is picked by the name as it is written,
  its provider by the name in lower case.
- **OgCompute**: `listAvailableModels` and `chat`, stopping at each await (`og[c].pc`). What
  is known of a provider is what it lists; the model it is asked for is the one
  `getServiceMetadata` names, which the network decides and the model says nothing about.
  `catalog` is the cache with the time noted before the request, `broker` the promise,
  rejection included. `now` advances only to the setting's `horizon`.
- **ReplayFixtures**: lookup, the call to the inner adapter, the recording in place. A
  call whose panelist has timed out goes on and may still record.
- **BundleStorage**: `put` of the three adapters as uploads that fail one by one, `get` as
  the condition under which a bundle opens (payload, companion and envelope).
- **EnsReputation**: `writeReputation` as a read of the counters and four transactions,
  each of which may fail, by two parties and two adjudications at once. Names are
  sequences of labels; the subname rule is a suffix test.
- **PanelWiring**: `readPanelConfig`, `buildAdjudication` and the choice of each adapter.
- **PanelAdapters** joins them: `setting.config` says which adapters an adjudication has. A
  prompt is the content of the dispute (`ContentOf`) and the order of the choices, which the
  dispute's ID and the seat decide; the ID itself is not in it, so disputes that read alike
  share fixtures.

### Browser

- **DisputeReads**: `GET /disputes/:id` as two reads, the dispute's row and then its
  relations (Prisma reads these one by one; here at one moment), the event stream with what is emitted while nobody listens,
  the posts of the evidence, and `bundle`, the evidence the panel was sent.
- **WebPages**: the pages of one dispute as functions of the cached answer: where they
  redirect, the pill, the cards, the tallies, the banner, the timeline, the files.
- **LedgerPages**: the ledger, the statistics as they are counted, the agents' pages and
  cards, as functions of the lists they are given.
- **SeedData**: the rows of the seed script and the reputations it computes from them.
- **DisputeViewer**: one browser. `page` is the route, `filing` and `draft` the form,
  `cache` the query of the dispute. The cache is filled by a GET that was sent, read a row,
  read the relations and was answered, while the lifecycle goes on; `Invalidated` is
  `invalidateQueries`: it cancels a refetch of a query that has data and joins the first
  fetch of one that has none. A GET may fail at any time, for good after one retry; the data
  stay, and with them the error (`Error`), until a GET succeeds. `stats` is the answer
  StatsService keeps: `GetStats` counts anew, and until it does the kept answer is what a
  ledger is shown.

## Runs

| Run | Module and configuration | States | What it shows |
| --- | --- | --- | --- |
| escrow | MCEscrowArbitration | 984 k | All contracts together, while the owner changes the fee, withdraws and manages the panel: `DisputeMatchesTransaction`, `PaidOnceInFull`, `RulingDecidesPayout`, `EscrowBacked`, `EtherAccounted`, `VerdictWellFormed`, `OnlyRulingSettlesDisputed`, `RulingIsFinal`, and the refinement `ImplementsCustody`. |
| lifecycle | MCDisputeLifecycle | 249 k | A panel of three over both adapters, with lost requests, storage and keeper errors, no models, a crash: `OutcomeIsThePanels`, `RowShowsAnswer`, `StreamAgreesWithRow`, `SettlementFollowsVerdict`, `ReputationFollowsSettlement`, `RulingBackedByVotes`, `NoVerdictWithoutRuling`, `VotingIsMonotone`, `TerminalIsFinal`. |
| lifecycle_live | MCDisputeLifecycle, MCDisputeLifecycleLive.cfg | 736 k | `AdjudicationEnds` and `EveryDisputeDecided` under fairness, with models that never answer, and `OutcomeIsThePanels` also where responses are lost, so that handlers overlap with later calls, or where the database fails. |
| lifecycle_uuid | MCDisputeLifecycle, MCDisputeLifecycleUuid.cfg | | finding 1 |
| trigger | MCContractEventTrigger | @TRIG@ | Two overlapping polls with a failing disk, failures and exits; the subscription next to a poll, with disconnects, failures, exits and stops: `SeenMeansAdjudicated`, `DeliveredIsTriggered`, and `EveryBlockAdjudicated` under fairness. |
| trigger_missed | MCContractEventTrigger, MCContractEventTriggerMissed.cfg | | finding 2 |
| trigger_same_block | MCContractEventTrigger, MCContractEventTriggerSameBlock.cfg | | finding 3 |
| panel_adapters | MCPanelAdapters | 678 k | Six settings: stub, recording and replaying, one adjudication or two, of two disputes whose parties meet under other names or of two that read alike: `CachedListingIsYoung`, `PanelIsDiverse`, `AskedAtItsModel`, `ReplayIsFaithful`, `VerdictIsReadable`, `ReputationIsEarned`. |
| few_families | MCPanelAdapters, MCPanelAdaptersFewFamilies.cfg | | finding 4 |
| viewer | MCDisputeViewer | 1.24 M | A browser files a dispute or opens a seeded one. The panel has two members and one row, its models may be silent and its last notification lost, and the ledger may ask for statistics at any time: `OneDecisionShown`, `LedgerAgrees`. |
| viewer_live | MCDisputeViewer, MCDisputeViewerLive.cfg | 461 k | A browser files a dispute with a file or opens a seeded one and follows it; GETs and posts fail, also the GET after the final event, the stream drops, pages are left: `NothingTakenBack`, and under fairness `FollowerReachesVerdict`. |
| viewer_evidence | MCDisputeViewer, MCDisputeViewerEvidence.cfg | | finding 5 |

Each passing run also checks its module's type invariant, except the two live ones.

What some properties do not say, because the code does not do it:

- `TerminalIsFinal` is checked without lost responses. With them a REASONING handler the
  panel has given up on may run after the verdict was stored and set the dispute back to
  ADJUDICATING. This needs one handler to outlive a whole adjudication.
- `StreamAgreesWithRow` is checked without database failures: `verdict()` announces the
  final status even when the row was not updated.
- `EveryDisputeDecided` excuses a dispute for which a call or a bundle was lost, since
  nothing is retried, and says nothing where responses are lost or writes fail.
- `RulingBackedByVotes` is about the ruling the keeper is handed, not about the verdict
  apps/api shows: an ABSTAIN is 0 on the chain and REJECTED there.
- `SeenMeansAdjudicated` and `EveryBlockAdjudicated` speak of the poller, as long as the
  subscription delivered nothing, and of the first dispute of each block; findings 2 and 3
  are why. `DeliveredIsTriggered` speaks of an adjudication that began: if it fails after
  another one moved lastSeenBlock past its block, it is not repeated. It also allows the
  second dispute of a block to be dropped when the first was begun.
- `AskedAtItsModel` allows two panelists whose names differ only in case to share a provider
  (the first one listed), and a service without a model is seated under its address, which
  no provider lists. Once the catalogue was replaced after the choice, a model that left it
  is answered by one of its family or by the first provider, by design of the fallback.
- `ReplayIsFaithful` says that an answer was given to the model and prompt asked. That is the
  answer to another dispute if that one reads the same.
- `CachedListingIsYoung` bounds the age of a list by the time it was asked for, which
  concurrent callers may move; the property is about lists handed out without asking.
- `OneDecisionShown` does not say that the votes on the page add up to the verdict's. They
  fall short of it by the panelists whose last notification was lost or whose model is none
  of the three that rows are made for: a 3-0 verdict may stand beside 0-0, or beside 0-1
  under a banner Refund. An ABSTAIN goes by the banner Reject.
- `LedgerAgrees` starts when a browser was shown a final status: before that status and
  verdict are written one after the other and the pages may differ. Only the claimant sees a
  dispute as won or lost; the respondent sees what everybody sees. The statistics may be up
  to 30 s old, and what they count as settled is the refunds: a rejected dispute is in no
  tile, though the hint of that one reads "Verdict finalised" (disputes/page.tsx:92).
- `FollowerReachesVerdict` ends with a browser that leaves, whose stream drops (a reconnected
  one tells nothing of what it missed, and no timer refetches), or whose GET after the final
  event fails: the stream is closed by then, and the live page stays for ever (`LeftBehind`).
- `NothingTakenBack`, `OneDecisionShown` and `LedgerAgrees` are checked, and proved, without
  lost responses and database failures of the panel, after which a status may be set back.

## Bounds

- *Contracts*: two disputes, two transactions, two users who may each be buyer and seller,
  two contracts that raise disputes. Two of each is what it takes to confuse one with
  another; more repeat the pattern, and the proofs have no bound. One panel is authorised,
  revoked and authorised again. Amounts are 0 and 3 tokens (odd, so that the split has a
  remainder) and 0 or 1 wei (so that a payment is exact, short or too much), rulings 0–3 (one
  more than any dispute admits), bundle hashes zero or not. `MaxEther` keeps the ether
  finite, `MaxTime` is one window.
- *Lifecycle*: one dispute. Two disputes share no state but the database's tables, keyed
  by dispute, and the reputations, of which panel_adapters has two writing at once. The panel has its real
  three members where the outcome matters, two where faults multiply the interleavings:
  every interleaving of one panelist's calls with another's, and with the verdict, already
  needs no third.
- *Trigger*: three disputes, two in one block and the third two blocks later, so that the
  handlers of one can move lastSeenBlock before, between and past the others; two polls at
  once or one next to the subscription, each fault once. The run of finding 2 has two
  disputes with an empty block between them. Configurations of the trigger do not check for
  deadlock: its chain stops growing at a bound.
- *panel_adapters*: a panel of two, so that a family can be missing, doubled or complete;
  lists with a family twice, with one family only, with a service that names no model, and
  with two names that differ only in case; two disputes that read alike and a third;
  a catalogue that expires after one unit of a clock that reaches 1; at most one
  adjudication asking its panel and one call outliving its panelist at a time
  (`MaxPanels`, `MaxLate`), since more of either repeat the pattern. Not every setting
  meets every hazard: time passes in one, two adjudications write reputations in another;
  the comment at `MCSettings` lists them. Adjudications end, so the run does not check for
  deadlock.
- *viewer*: two runs, since the statistics multiply the states of whatever else is going on.
  `viewer` has a panel of two, of which one has no row and the other's last notification may
  be lost (`MayBeLost`), the statistics (`Tiles`), and nothing that fails between browser and
  API, which the properties of answers do not depend on; no settlement step overtakes an
  answer (`MaxOvertaken = 0`). `viewer_live` has a panel of one, as what is shown of one card
  does not depend on another, one file, all faults between browser and API and one
  settlement step that may be overtaken. An answer that misses more steps is not of another
  kind, and the proofs have none of these bounds. The seeds are the three states a seeded
  dispute may be in.

## Fairness

- *Lifecycle.* `WF_vars(Due)`: as long as a continuation, a timer that fired or a handler of
  the API is due, one of them is run (Node's event loop). One condition for all of them is
  enough, as the lifecycle is finite. None on `Answer`: a provider may stay silent for ever. Only
  inference has a timeout in the code. Storage, `listAvailableModels` and the callbacks
  have none, and that they settle, either way, is an assumption (listed among the
  hazards); the fault sets decide how they settle.
- *Trigger.* `WF` on `Start` (whatever supervises the process restarts it), on each
  poll (the timer) and on each handler. None on `Mine`, none on the subscription, whose
  events may be missed.
- *Viewer.* `WF` on what is due in panel, API and browser (`BrowserDue`: continuations,
  handlers, the delivery of an event to an open stream, the redirect) and on the GET that is
  on its way (`GetDue`). None on the user, none on failures, none on the statistics. The
  second condition keeps the GET from waiting for ever behind the rest.

## Proofs

All proofs are for every value of the constants: any users, arbitrables, panels, amounts
and bounds, any panel of up to three models, any chain, any number of adjudications,
callers and late calls. The assumptions are those the modules state about their constants;
what a theorem needs beyond them is in its ASSUME and is said here.

| Module | About | Extends |
| --- | --- | --- |
| SumTheorems | sums over a finite domain | |
| TribuneArbitratorProofs | the arbitrator on its own | SumTheorems |
| EscrowArbitrationProofs | all contracts | TribuneArbitratorProofs |
| DisputeLifecycleProofs | `aggregate()`, and a dispute, whatever fails | |
| DisputeSettlementProofs | a dispute, as long as no response is lost | DisputeLifecycleProofs |
| DisputeViewerProofs | what a browser shows of a dispute | DisputeSettlementProofs |
| ContractEventTriggerProofs | the trigger | |
| PanelAdaptersProofs | panel selection, the ports of `adjudicate()` | SumTheorems |

**Induction over data.** The library's induction theorems cannot be used here, as they take
a predicate for a parameter. What they are needed for (a sum over a set that grows, the
order of a finite set of indices, the first element of a list that satisfies something)
goes through a least counterexample instead: the sizes of the sets for which the statement
fails are a set of numbers, and if it is not empty it has a least element
(`LeastCounterexample`, `WFMin`). `SelectSeq` and sorting are folds the provers cannot open,
so PanelSelection selects from a list by the ascending order of its indices (`Ascending`,
`InOrder`), about which this induction says all there is to know.

**SumTheorems**. `SumGrows`: one more point adds its value to the sum. `SumChanges`: a
change at one point changes the sum by the difference.

**TribuneArbitratorProofs**.

- `ArbitratorTypeCorrect`, `VerdictsWellFormed`, `RulingsAreFinal`: inductive relative to the
  types, an action at a time (`ArbitratorStep` splits the steps). Of the bundle hash they say
  only that a waiting dispute has none: a solved one has whatever the panel sent.
- `EtherIsAccountedFor`: the ether is the fees of the disputes, plus what was sponsored,
  less what was withdrawn. The fees are a function of the known disputes that grows by one
  point with `createDispute` (`SumGrows`) and that `executeRuling` leaves alone.

**EscrowArbitrationProofs**.

- `TypeCorrect`: `Spec => []TypeOK`. What is not obvious in it is that no balance goes
  below zero, which `TransferredType` and `PayOutType` show from the guards.
- `DisputesMatch`, `PaysOnce`, `PayoutFollowsRuling`: none of the three properties is
  inductive on its own. That `rule()` pays the right transaction needs the link between
  dispute and transaction; that the link is right needs that a waiting dispute's
  transaction is open; that it pays in full needs that nothing was paid before. `Inv` is
  their conjunction with `TypeOK` and is inductive: one lemma per action group
  (`DisputeKeepsInv`, `RuleEscrowKeepsInv`, `ReleaseKeepsInv`,
  `CreateTransactionKeepsInv`, `UnchangedEscrowKeepsInv`), joined in `InvStep`.
- `EscrowIsBacked`: the tokens owed are a function of the known transactions; a new one
  adds a point to it, a settlement takes one to zero, and the tokens move by as much. Both
  halves of a split add up to the amount by `PaidOnceInFull`.
- `DisputedIsFrozen`: the action property `OnlyRulingSettlesDisputed`, from the same
  invariant.
- `RefinesCustody`: every step of the contracts is a step of EscrowCustody or leaves the
  custody as it is. `RefinesArbitrator`: the composition is one of the behaviours of the
  arbitrator on its own; hence `ArbitratorKeepsItsWord`, that what is proved of
  TribuneArbitrator holds here.

**DisputeLifecycleProofs**. First `aggregate()`, for every finite panel:

- `FailedOnlyWithoutVotes`: the last line of `aggregate()` is dead code.
- `OutcomeBackedByVotes`: with three votes or fewer, no outcome goes against the votes.
  With four it could: two REFUND and two REJECT refund.
- `OneMoreVoteKeepsOutcome`: aggregation is monotone.

  The tallies are cardinalities of disjoint subsets of the panel; the lemmas bound their
  sum and say what one more vote changes.

Then a dispute, for a panel of at most three, the size the code asks for, and every set of
faults, lost responses and a failing database included.

`Inv` is inductive. Beside the types it says where `adjudicate()` is, and that the calls it
has made are those of its place: `Flow` (nobody works for a dispute before being asked to),
`Concluding` (a panelist that concluded has a verdict, and its last notification tells that
one), `Decision` (before the aggregation nothing was aggregated, handed to the keeper, sent
or stored; after it `aggregate` is the aggregation of the votes, which no later step
changes), `Ruled` (the keeper was handed the aggregated outcome,
and first) and `Stored` (a row or an event that shows an outcome was written by the
verdict's handler, from that aggregation). From it:

- `TypeCorrect`, `OutcomeShown` (`OutcomeIsThePanels`), `NoVerdictBeforeRuling`
  (`NoVerdictWithoutRuling`);
- `RulingIsBacked` (`RulingBackedByVotes`), with `OutcomeBackedByVotes`;
- `MoreVotesNeverHurt` (`VotingIsMonotone`), with `OneMoreVoteKeepsOutcome`.

**DisputeSettlementProofs**. Three more inductive invariants, each of which contains the one
before it. `Without(kinds)` says of `Settings` that no setting has a fault of these kinds.

- `AwaitedInv`, without lost responses: a panelist goes on only when its call is over, so
  that no notification is still at work when the verdict is sent (`Awaited`), and a final
  status was written by the verdict's handler (`Final`). Hence `DecidedForGood`
  (`TerminalIsFinal`). With lost responses the statement is false, see above.
- `ToldInv`, in addition without database failures: what each handler has written at each
  of its awaits, and what was announced by then. Hence `RowsShowAnswers` and
  `StreamAndRowAgree`.
- `SettlementInv`: the settlement steps are called in order (`CallsInOrder`), each row says
  how far its call has come (`StepsMarked`), and all this after the verdict was handled
  (`AfterVerdict`). Hence `SettlementIsEarned` (`SettlementFollowsVerdict`) and
  `ReputationIsSettled` (`ReputationFollowsSettlement`).

  Lost requests, errors of keeper and storage, and crashes are among the faults these
  theorems allow. The runs check the properties under the same restriction.

**DisputeViewerProofs** (without lost responses and database failures, but for the types;
every failure between browser and API is allowed, and the panel may run ahead of an answer
as far as it likes, as `MaxOvertaken` may be any number). A step of the browser leaves the
dispute alone, so that what was proved of the dispute holds behind it (`ViewerStep`).
`ViewerInv` is inductive:

- The dispute is one that lives (`SettlementInv`, and a row that shows a vote was written by
  a call that is over, so that no later call changes it: `RowsStand`) or a seeded one that
  nobody touches (`Frozen`).
- `NotBehind` orders what can be read of a dispute: once it is terminal nothing changes, a
  vote that shows stays, a step never falls back, files are only added. Rows only advance in
  this order (`TerminalStands` and the invariants of DisputeSettlementProofs).
- `Answers`: what is cached is not behind the answer on its way, nor that behind the rows. An
  answer is read in two statements, the status first; that the status it carries, if
  terminal, is still the status is what makes the mixture of two moments harmless: verdict
  and votes are written before the status is final, and the steps that follow only advance.
- `StatsBehind`: what StatsService keeps was counted when nothing was decided or says what is
  decided now. `RowsPlain`: a row without a vote counts for neither side.

Hence `ShownIsNotTakenBack` (`NothingTakenBack`) and `LedgerSaysTheSame` (`LedgerAgrees`: a
terminal answer is the dispute's rows, `DecidedView`, and the lists are functions of these).
`VerdictPageAgrees` (`OneDecisionShown`) compares the verdict's counts with the votes that
show, for any panel, any rows and whichever notifications are lost: a vote that shows is one
the verdict counted, and one that does not is of a panelist without a row or whose last
notification was lost (`RowsShowVotes`, `NearlyAll`). `ViewerTypeCorrect` needs none of this.

  Assumptions: the schema's rows are at most three (`RowsAssumption`), a form's files are
  among those the module is given (`ViewerAssumption`), `None` is not a vote
  (`ShownAssumption`).

**ContractEventTriggerProofs**.

- `TypeCorrect`: `lastSeen` and `stored` never run ahead of the chain. The strengthening:
  a poll holds no log past the head it read (`Bounded`), and a handler runs only for an
  event of the chain (`Mined`, from the logs being in the order of their blocks).
- `NothingLeftBehind`: `Spec => []SeenMeansAdjudicated`, for any chain, blocks with several
  disputes among them, and next to any subscription as long as it delivered nothing. The
  invariant adds that every first dispute of a block that is not yet adjudicated, up to the
  head a poll has read, is still among its logs (`Ahead`); then the first of its logs is the
  first dispute that is missing (`FirstLogCovered`), and moving lastSeenBlock to it, forward
  or backward, passes nothing.
- `DeliveredIsNotDropped`: `Spec => []DeliveredIsTriggered`, for any chain, with subscription
  and poller together. `SubscriptionInv` says that what lies up to lastSeenBlock and is yet
  to be delivered was begun (`BegunUpTo`), and that whatever a poll will pass it has among
  its logs (`Reaching`); so an event that is delivered, and no dispute of its block begun,
  lies past lastSeenBlock, and `IsNew` lets it through.

**PanelAdaptersProofs**. Two theorems about functions, for every list:

- `PickedPanelIsDiverse`: `pickDistinctModels`, when it finds enough models, seats none
  twice and as many families as list and panel allow. The first of each family come first
  and in order, so the panel is cut off either among them (every seat is another family) or
  behind them (every family has its seat).
- `ListedModelIsFound`: `pickProviderByModel` finds a service of the model asked for, up to
  case, wherever it stands in the list. Which of two that differ only in case, it does not say.

And the invariants of PanelAdapters. `AdaptersInv` is inductive and the conjunction of one
invariant per port: `OgInv` (what a caller has read of the clock and what it holds of the
catalogue is not newer than it may be), `ReplayInv` (every file is a truncated one or holds
the answer to its own question, and so does what a call has read or is about to write),
`StorageInv` (which parts of a bundle are uploaded at each point of `put`) and `PortInv` (at
each phase of `adjudicate()`, what it was given by the ports). Hence `CatalogueIsYoung`,
`ReplaysAreFaithful`, `VerdictsAreReadable`, `PanelsAreDiverse` and
`PanelistsAreAskedWhereListed` (with the two theorems about functions). `ReputationsAreEarned` and `AdaptersTypeCorrect`
need a second invariant, `ReputationInv`: no transaction on its way carries a counter that
exceeds the verdicts given (`WriteIsEarned`). A writer adds one to
counters that were within bounds when it read them, and is from then on among those given.

  Assumptions: adjudications and their calls, bundles, names and questions are among those
  the modules are given (`CallsAssumption`, `QuestionsAssumption`), and the files the panel
  starts with, those kept in the repository, are answers to their own questions
  (`AdaptersAssumption`).

Only model-checked: everything about liveness (`EveryBlockAdjudicated`,
`AdjudicationEnds`, `EveryDisputeDecided`, `FollowerReachesVerdict`), as fairness is beyond
the prover. The inductive invariants were checked with TLC on the runs' instances before
they were proved.

## Findings

1. **A dispute of the API cannot be ruled through the keeper** (`lifecycle_uuid`).
   `encodeExecuteRuling` turns the dispute ID into a `BigInt`, which throws for a UUID,
   outside the `try`; the dispute stays ADJUDICATING, where the class comment promises a
   recorded FAILED.
2. **A missed event stays missed** (`trigger_missed`). The subscription's handler moves
   lastSeenBlock past the block of an event lost during a disconnect, and `catchup()`
   starts after it.
3. **Of two disputes in one block the poller adjudicates one** (`trigger_same_block`).
   `handleLog` skips a log whose block is not past lastSeenBlock, which the block's first log
   has just moved. The class comment promises to "never miss an event"; here nothing fails.
4. **A panel of fewer than three families is seated** (`few_families`).
   `pickDistinctModels` fills the seats with further models of families it has, and
   `adjudicate()` rejects only fewer than three models. A test is titled "rejects with
   NoAvailableModels if fewer than 3 distinct families are listed"
   (adjudication.service.spec.ts:93) and README.md:50 says "3 distinct model families".
5. **Files shown as considered that no panelist saw** (`viewer_evidence`).
   `DisputesService.create` starts the adjudication before it answers, and
   `startAdjudication` reads the evidence at once; the form posts its files only after
   that answer. The verdict page lists them under "Evidence considered".

Met while modelling, and not the subject of a run:

- *Contracts.* `executeRuling` stores `bytes32(0)` for a bundle hash if it is given one.
- *Trigger.* A restart may repeat the last adjudication, as lastSeenBlock is written after
  it, although the class comment says that a restart does not.
- *Adapters.* Of two listed models whose names differ only in case, both may be seated, and
  both are answered by the first one's provider (og-compute.adapter.ts:235-236). A provider
  is asked for the model its metadata name (:82-98), which need not be the one it listed.
  The prompt does not contain the dispute's ID: disputes that read alike share fixtures.
- *Wiring.* AdjudicationModule hands `readPanelConfig` eight variables by name, and
  neither the keeper's nor the resolver's are among them, although the repository's README
  (lines 229-232) says they switch the adapters on. The service therefore always has
  DirectTx and ReadonlyEns or Memory; the other adapters are reached by calling
  `buildAdjudication` with a configuration of one's own. `ServiceConfig` and
  `ReadPanelConfig` are the two.
- *API.* `findUnique` in `startAdjudication` stands before the `try` of a promise nobody
  awaits. No verdict ever changes an AgentReputation row of apps/api: only the seed and the
  row of zeros for an unknown agent write that table. StatsService keeps an answer for
  30 s, a slow computation may overwrite a newer one, and `invalidate()` has no caller.
- *Web.* An ABSTAIN is stored as REJECTED and goes by the banner "Reject" with "Verdict
  signed 3/3", also if a vote to refund stands beside it. A verdict may stand beside
  fewer votes than it counts (`Unshown`). The tile and filter "settled" leave out REJECTED
  disputes, though the tile's hint is "Verdict finalised". After a GET that failed the error
  stays with the data, and DisputePage then sends the reader to the ledger; one that fails
  after the final event leaves the live page as it is. The verdict page
  closes its stream at the final status, so the settlement steps that follow are not
  shown; opened by hand for an undecided dispute it shows a Reject signed by three. Of two
  evidence rows of the form one may get the ID of another after a removal. An event that
  arrives during the first fetch is swallowed by it. A POST whose response was lost may be
  submitted again and then files a second dispute; the model's `Creation` has no lost
  response.

## What is not modelled

- Pure text: prompts, parsing of an answer (an answer is a vote or a failure), hashes,
  calldata encoding apart from the `BigInt` above.
- Cryptography and identity: the callback's shared secret, attestation, encryption of
  envelopes. Callers are who they are.
- Contract details nothing depends on: `appeal` and `appealCost` always revert,
  `submitEvidence` only emits, integer overflow reverts under Solidity 0.8 and amounts are
  natural numbers.
- External code: the ERC-20 token, the chain, the node, the keeper service, storage and
  model providers appear by what the code sees of them, marked external in the map.
- The caches of the web client's list queries (5 s, 10 s and 30 s). LedgerPages says what a
  fresh answer of the API shows, DisputeViewer what StatsService kept.
- The model a 0G provider really runs, see `OgCompute` above.
- SimpleEscrow, a vendored example; the Uniswap adapter, which nothing wires; presentation,
  wording, layout, health and metrics.
